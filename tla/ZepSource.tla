------------------------------ MODULE ZepSource ------------------------------
(***************************************************************************)
(* What the statements of a .zep method mean: the reference the compiled   *)
(* code is compared with.  The docblocks of Library/Statements define them *)
(* by "the same as in PHP" (TryCatchStatement.php:36) and "the same as in  *)
(* PHP/C" (IfStatement.php:33, SwitchStatement.php:32, ...), so this is    *)
(* the meaning PHP gives to them; the two exceptions, a try without catch  *)
(* and the statements PHP does not have, are what test/trytest.zep and     *)
(* LoopStatement.php say.                                                  *)
(*                                                                         *)
(* Statements are records with a field kind.  What a statement does to the *)
(* outside is an event, identified by the id of the statement: it echoes,  *)
(* calls a method, tests a condition or selects a clause of a switch.  A   *)
(* condition is [id, call]: with call TRUE it calls a method, and may      *)
(* throw.  A method under execution is a stack of what is left to do; its  *)
(* environment answers each event and the method asks for the next one.    *)
(***************************************************************************)
EXTENDS ZepExceptions, Naturals, Sequences, SequencesExt, FiniteSetsExt

-----------------------------------------------------------------------------
(* Statements.                                                             *)

Echo(i)        == [kind |-> "echo", id |-> i]
Call(i)        == [kind |-> "call", id |-> i]
Return         == [kind |-> "return"]
Throw(e)       == [kind |-> "throw", class |-> e]
Break          == [kind |-> "break"]
Continue       == [kind |-> "continue"]
Try(b, cs)     == [kind |-> "try", body |-> b, catches |-> cs]
While(c, b)    == [kind |-> "while", cond |-> c, body |-> b]
DoWhile(b, c)  == [kind |-> "do-while", cond |-> c, body |-> b]
Loop(b)        == [kind |-> "loop", body |-> b]
Switch(i, cls) == [kind |-> "switch", id |-> i, clauses |-> cls]

\* A for over an array (or the bytes of a string), a range or an iterator, of
\* which the methods in throws may throw.  Its condition is that there is one
\* more element.
For(i, over, throws, b) ==
  [kind |-> "for", over |-> over, throws |-> throws,
   cond |-> [id |-> i, call |-> FALSE], body |-> b]

\* arms is the 'if' and its 'elseif's; else is << >> when there is none.
If(arms, b) == [kind |-> "if", arms |-> arms, else |-> b]

Cond(i)       == [id |-> i, call |-> FALSE]
CallCond(i)   == [id |-> i, call |-> TRUE]
Arm(c, b)     == [cond |-> c, body |-> b]
Catch(cs, b)  == [classes |-> cs, body |-> b]
Case(k, b)    == [value |-> k, body |-> b]
Default(b)    == [value |-> 0, body |-> b]  \* the values of the cases are 1, 2, ...

Block(stmts) == [kind |-> "block", rest |-> stmts]

IsLoop(s) == s.kind \in {"while", "do-while", "loop", "for"}

-----------------------------------------------------------------------------
(* Execution.  A state is [stack, exc].  The stack holds the innermost     *)
(* construct first: blocks, and the loops, selected switches and try       *)
(* blocks around them.  exc is what a finished method has raised.          *)

Selected == [kind |-> "selected"]

Finished(e)   == [stack |-> << >>, exc |-> e]
Asking(stack) == [stack |-> stack, exc |-> NoException]

\* The stack from the innermost loop or switch on.
RECURSIVE Breakable(_)
Breakable(stack) ==
  IF IsLoop(Head(stack)) \/ Head(stack) = Selected
    THEN stack ELSE Breakable(Tail(stack))

RECURSIVE Settle(_), Raise(_, _)

\* The innermost try block with a catch for e takes it, in the first of its
\* catches that names the class; one without catches swallows everything.
Raise(e, stack) ==
  IF stack = << >> THEN Finished(e)
  ELSE IF Head(stack).kind # "try" THEN Raise(e, Tail(stack))
  ELSE LET catches == Head(stack).catches
           matching == {i \in DOMAIN catches :
                          \E c \in Range(catches[i].classes) : InstanceOf(e, c)}
       IN IF catches = << >> THEN Settle(Tail(stack))
          ELSE IF matching = {} THEN Raise(e, Tail(stack))
          ELSE Settle(<<Block(catches[Min(matching)].body)>> \o Tail(stack))

\* One statement s, with rest to do after it.
Enter(s, rest) ==
  CASE s.kind \in {"echo", "call", "switch", "while", "for"} -> Asking(<<s>> \o rest)
    [] s.kind = "if" -> IF s.arms = << >> THEN Settle(<<Block(s.else)>> \o rest)
                                          ELSE Asking(<<s>> \o rest)
    [] s.kind \in {"do-while", "loop", "try"} -> Settle(<<Block(s.body), s>> \o rest)
    [] s.kind = "return" -> Finished(NoException)
    [] s.kind = "throw" -> Raise(s.class, rest)
    [] s.kind = "break" -> Settle(Tail(Breakable(rest)))
    [] s.kind = "continue" ->
         LET b == Breakable(rest) IN Settle(IF IsLoop(Head(b)) THEN b ELSE Tail(b))

\* Runs to the next event: on top of the stack is then an echo, a call, a
\* condition (of an if, or of a loop) or a switch; or the method has finished.
Settle(stack) ==
  IF stack = << >> THEN Finished(NoException)
  ELSE LET f == Head(stack) IN
    CASE f.kind = "block" /\ f.rest = << >> -> Settle(Tail(stack))
      [] f.kind = "block" /\ f.rest # << >> ->
           Enter(Head(f.rest), <<Block(Tail(f.rest))>> \o Tail(stack))
      [] f.kind = "loop" -> Settle(<<Block(f.body)>> \o stack)
      [] f.kind \in {"while", "do-while", "for"} -> Asking(stack)
      [] f.kind \in {"try", "selected"} -> Settle(Tail(stack))

-----------------------------------------------------------------------------
(* The method seen from outside: the event it asks for, and its state once *)
(* the event is answered.                                                  *)

Start(body) == Settle(<<Block(body)>>)

Request(src) ==
  IF src.stack = << >> THEN [op |-> "end", id |-> src.exc]
  ELSE LET s == Head(src.stack) IN
    CASE s.kind \in {"echo", "call"} -> [op |-> s.kind, id |-> s.id]
      [] s.kind = "if"     -> [op |-> "test", id |-> s.arms[1].cond.id]
      [] IsLoop(s)         -> [op |-> "test", id |-> s.cond.id]
      [] s.kind = "switch" -> [op |-> "select", id |-> s.id]

\* The echo or the call is done.
Done(src) == Settle(Tail(src.stack))

\* The call, the call in the condition or the iterator has thrown e.
Failed(src, e) == Raise(e, Tail(src.stack))

\* The condition evaluates to b.
Tested(src, b) ==
  LET s == Head(src.stack) rest == Tail(src.stack) IN
    CASE s.kind = "if" /\ b  -> Settle(<<Block(s.arms[1].body)>> \o rest)
      [] s.kind = "if" /\ ~b -> Enter([s EXCEPT !.arms = Tail(@)], rest)
      [] IsLoop(s) /\ b      -> Settle(<<Block(s.body)>> \o src.stack)
      [] IsLoop(s) /\ ~b     -> Settle(rest)

\* The switch compares equal to the case k, or to none (k = 0, the value of
\* the default clause): execution falls through from the clause on.
Chosen(src, k) ==
  LET clauses == Head(src.stack).clauses
      at == {i \in DOMAIN clauses : clauses[i].value = k \/ clauses[i].value = 0}
      first == IF \E i \in at : clauses[i].value = k
                 THEN CHOOSE i \in at : clauses[i].value = k ELSE Min(at)
      bodies == [i \in DOMAIN clauses |-> clauses[i].body]
  IN IF at = {} THEN Settle(Tail(src.stack))
     ELSE Settle(<<Block(FlattenSeq(SubSeq(bodies, first, Len(bodies)))), Selected>>
                   \o Tail(src.stack))
=============================================================================
