-------------------------- MODULE StatementCompiler --------------------------
(***************************************************************************)
(* The statement compilers of Library/ at work on the body of a method.    *)
(* They go down the tree of its statements with a stack of those that are  *)
(* open, and append C to the code as they go, with jumps that are Pending  *)
(* until the statement they leave is closed.  The code that is there when  *)
(* the body is finished is what CompiledMethod runs next to the body.      *)
(*                                                                         *)
(* The bodies own zvals, so that the method has pushed a memory frame      *)
(* (ZEPHIR_MM_GROW) and must pop it.  Expressions are opaque; 'let' and    *)
(* the other statements that only add expression code are left out.        *)
(***************************************************************************)
EXTENDS CompiledMethod

CONSTANTS
  Statements,   \* the statements, those of the blocks in them included
  Bodies,       \* the method bodies to compile
  OnStart(_)    \* the state of a body before its first event

StatementsBlock == Seq(Statements)
LoopKinds == {"while", "do-while", "loop", "for"}
Unnested == {"echo", "call", "return", "throw", "break", "continue"}

ASSUME StatementsAssumption ==
  /\ Bodies \subseteq StatementsBlock
  /\ \A s \in Statements :
       /\ s.kind \in Unnested \cup LoopKinds \cup {"if", "switch", "try"}
       /\ s.kind \in LoopKinds \cup {"try"} => s.body \in StatementsBlock
       /\ s.kind = "if" =>
            /\ Len(s.arms) \in Nat \ {0} /\ s.else \in StatementsBlock
            /\ \A i \in 1..Len(s.arms) : s.arms[i].body \in StatementsBlock
       /\ s.kind = "switch" =>
            Len(s.clauses) \in Nat /\ \A i \in 1..Len(s.clauses) : s.clauses[i].body \in StatementsBlock
       /\ s.kind = "try" =>
            Len(s.catches) \in Nat /\ \A i \in 1..Len(s.catches) : s.catches[i].body \in StatementsBlock

VARIABLES
  work,             \* the open statements, the method first
  insideCycle,      \* CompilationContext: how many loops are open,
  insideSwitch,     \* how many switches,
  insideTryCatch,   \* how many blocks of a try,
  currentTryCatch   \* and how many try statements have been met

context == <<insideCycle, insideSwitch, insideTryCatch, currentTryCatch>>
vars == <<method, work, context>>

Top == work[Len(work)]

-----------------------------------------------------------------------------
(* C statements.                                                           *)

Op(name)  == [op |-> name]
EchoOp(i) == [op |-> "echo", id |-> i]
CallOp(i) == [op |-> "call", id |-> i]
EvalOp(i) == [op |-> "eval", id |-> i]      \* the call of a condition, before the test
Jump(n)   == [op |-> "jump", to |-> n]
Label(n)  == [op |-> "label", n |-> n]
Goto(n)   == [op |-> "goto", n |-> n]
IfOp(c)   == [op |-> IF c.call THEN "if_temp" ELSE "if", id |-> c.id]
FlagOp(s, b) == [op |-> "flag", id |-> s.cond.id, value |-> b]
IteratorOp(op, s) == [op |-> op, id |-> s.cond.id, throws |-> s.throws]

\* Mutant of CheckStatus: a failed call in a try block leaves the method.
CheckStatusLeaves == <<[op |-> "check", n |-> 0]>>

\* addCallStatusOrJump: zephir_check_call_status() restores and returns,
\* zephir_check_call_status_or_jump(label) goes to the label.
CheckStatus == <<[op |-> "check", n |-> IF insideTryCatch > 0 THEN currentTryCatch ELSE 0]>>

\* The code a condition needs before the expression that is its value.
Before(cond) == IF cond.call THEN <<EvalOp(cond.id)>> \o CheckStatus ELSE << >>

\* ReturnStatement::compile: RETURN_MM and its variants.
CompileReturn == <<Op("restore"), Op("return")>>

\* Mutant of CompileThrow: after a try block a throw still goes to its end.
CompileThrowToLast(s) ==
  <<[op |-> "throw", class |-> s.class]>>
    \o (IF currentTryCatch > 0 THEN <<Goto(currentTryCatch)>> ELSE CompileReturn)

\* Mutant of CompileThrow: ZEPHIR_THROW_EXCEPTION_DEBUG_STR only returns.
CompileThrowKeeps(s) ==
  <<[op |-> "throw", class |-> s.class]>>
    \o (IF insideTryCatch > 0 THEN <<Goto(currentTryCatch)>> ELSE <<Op("return")>>)

\* ThrowStatement::compile; ZEPHIR_THROW_EXCEPTION_DEBUG_STR restores as well.
CompileThrow(s) ==
  <<[op |-> "throw", class |-> s.class]>>
    \o (IF insideTryCatch > 0 THEN <<Goto(currentTryCatch)>> ELSE CompileReturn)

\* A statement without blocks.
Compiled(s) ==
  CASE s.kind = "echo"   -> <<EchoOp(s.id)>>
    [] s.kind = "call"   -> <<CallOp(s.id)>> \o CheckStatus
    [] s.kind = "return" -> CompileReturn
    [] s.kind = "throw"  -> CompileThrow(s)
    [] OTHER             -> <<Op(s.kind)>>

\* Mutant of Resolve: one statement too early.
ResolveBefore(c, from, ops, n) ==
  [i \in DOMAIN c |-> IF i > from /\ c[i].op \in ops THEN Jump(n - 1) ELSE c[i]]

\* The statements of ops in c after statement from go to statement n.
Resolve(c, from, ops, n) ==
  [i \in DOMAIN c |-> IF i > from /\ c[i].op \in ops THEN Jump(n) ELSE c[i]]

\* They go to what comes next.
ResolveNext(c, from, ops) == Resolve(c, from, ops, Len(c) + 1)

-----------------------------------------------------------------------------
(* The parts of a statement, one after the other: a block of statements,   *)
(* and what is said of it: the condition of an arm, the cases of a clause, *)
(* the classes of a catch.                                                 *)

Part(as, of, stmts) == [as |-> as, of |-> of, stmts |-> stmts]

\* IfStatement::compile.  The calls of every elseif condition come before the
\* if, and an elseif with no statements is dropped.
IfParts(arms, else) ==
  LET n == Len(arms) IN
  [i \in 1..(2 * n + 1) |->
     CASE i <= n -> Part("before", arms[i].cond, << >>)
       [] i \in (n + 1)..(2 * n) ->
            LET a == arms[i - n]
            IN  Part(IF i > n + 1 /\ a.body = << >> THEN "none" ELSE "arm", a.cond, a.body)
       [] OTHER -> Part("else", 0, else)]

\* Mutant of NormalizeClauses: no clause is removed.
NormalizeNothing(clauses) == {}

\* SwitchStatement::normalizeClauses: the cases without statements just before
\* a default that is not the last clause are dropped.
NormalizeClauses(clauses) ==
  {i \in DOMAIN clauses :
     \E d \in (i + 1)..(Len(clauses) - 1) :
       /\ clauses[d].value = 0 /\ \A j \in 1..(d - 1) : clauses[j].value # 0
       /\ \A j \in i..(d - 1) : clauses[j].body = << >>}

\* SwitchStatement::compile: a do { } while (0) with an if for each group of
\* cases that share a block, and the block of the last default at the end.
SwitchParts(id, clauses) ==
  LET n == Len(clauses)
      dropped == NormalizeClauses(clauses)
      group(i) == {j \in (1..i) \ dropped :
                     \A k \in j..(i - 1) : clauses[k].value = 0 \/ clauses[k].body = << >>}
      Last(d) == clauses[d].value = 0 /\ \A j \in (d + 1)..n : clauses[j].value # 0
  IN [i \in 1..(n + 1) |->
        CASE i = n + 1 ->
               Part("default", 0, IF \E d \in 1..n : Last(d)
                                    THEN clauses[CHOOSE d \in 1..n : Last(d)].body ELSE << >>)
          [] i <= n /\ (clauses[i].value = 0 \/ clauses[i].body = << >>) -> Part("none", 0, << >>)
          [] OTHER ->
               Part("case", [id |-> id, values |-> {clauses[j].value : j \in group(i)} \ {0}],
                    clauses[i].body)]

\* TryCatchStatement::compile, after the block of the try.
TryParts(catches) ==
  [i \in 1..Len(catches) |-> Part("catch", catches[i].classes, catches[i].body)]

\* The parts after the block that comes first in a loop and in a try.
Parts(s) ==
  CASE s.kind = "if"     -> IfParts(s.arms, s.else)
    [] s.kind = "switch" -> SwitchParts(s.id, s.clauses)
    [] s.kind = "try"    -> TryParts(s.catches)
    [] s.kind = "do-while" -> <<Part("before", s.cond, << >>)>>
    [] OTHER -> << >>

\* The block of a catch is compiled once for each of its classes.
Rest(parts) ==
  LET p == Head(parts) IN
  IF p.as \in {"catch", "class"} /\ Len(p.of) > 1
    THEN <<Part("class", Tail(p.of), p.stmts)>> \o Tail(parts) ELSE Tail(parts)

\* What a part begins with; every catch first takes a reference to EG(exception).
Catching(class) == <<[op |-> "instanceof", class |-> class], Op("next")>> \o <<Op("clear")>>
Beginning(p) ==
  CASE p.as = "before" -> Before(p.of)
    [] p.as = "arm"    -> <<IfOp(p.of), Op("next")>>
    [] p.as = "case"   -> <<[op |-> "case", id |-> p.of.id, values |-> p.of.values], Op("next")>>
    [] p.as = "catch"  -> <<Op("fetch")>> \o Catching(Head(p.of))
    [] p.as = "class"  -> Catching(Head(p.of))
    [] OTHER           -> << >>

\* The end of the code is reached from somewhere in it.
Falls == \E i \in DOMAIN code : Len(code) + 1 \in Ways(code, i)

\* What a part ends with: the block of an arm goes to the end of the if, and
\* try_end_n comes after the block of the try.
Ending(f) ==
  CASE f.as = "arm" /\ Falls -> <<Op("end")>>
    [] f.as = "try" ->
         <<Label(f.label)>> \o (IF f.s.catches = << >> THEN <<Op("clear")>>
                                ELSE <<Op("if_exception"), Op("end")>>)
    [] OTHER -> << >>

\* The code once the current part of f is over: a test that fails goes on here.
Ended(f) == ResolveNext(code \o Ending(f), f.from, {"next"})

-----------------------------------------------------------------------------
(* The beginnings and ends of statements.                                  *)

Leave(c) == <<IfOp(c), Op("break")>>   \* if (!c) break;

\* What comes before the C loop, ForStatement::compileRange and compileIterator.
Setup(s) ==
  CASE s.kind = "for" /\ s.over = "range"    -> <<FlagOp(s, FALSE)>> \o Leave(s.cond)
    [] s.kind = "for" /\ s.over = "iterator" -> <<IteratorOp("get_iterator", s)>>
    [] OTHER -> << >>

\* The beginning of the C loop, as statement n, or of a switch.
\*   while (1) { condition code; if (!c) break; body }
\*   if (c) { while (1) { if (flag) { step; if (!c) break; } else { flag = 1; } body } }
\* compileHashTraverse and compileStringTraverse are a C for, whose continue goes
\* to the step.
Opening(s, n) ==
  CASE s.kind = "while" -> Before(s.cond) \o Leave(s.cond)
    [] s.kind = "for" /\ s.over = "array"    -> Leave(s.cond)
    [] s.kind = "for" /\ s.over = "range"    ->
         <<[op |-> "if_temp", id |-> s.cond.id], Jump(n + 4)>> \o Leave(s.cond) \o <<FlagOp(s, TRUE)>>
    [] s.kind = "for" /\ s.over = "iterator" -> <<IteratorOp("iterate", s), Op("break")>>
    [] s.kind = "switch" ->
         <<[op |-> "select", id |-> s.id,
            values |-> {s.clauses[i].value : i \in DOMAIN s.clauses} \ {0}]>>
    [] OTHER -> << >>

\* The end of the C loop of f; a continue in it goes where the end of its block does.
EndLoop(c, f) ==
  ResolveNext(Append(Resolve(c, f.from, {"continue"}, f.again), Jump(f.again)), f.from, {"break"})

\* do { body; condition code } while (c).  A continue goes to the test of c.
EndDoWhile(c, f) ==
  ResolveNext(ResolveNext(c, f.from, {"continue"}) \o Leave(f.s.cond) \o <<Jump(f.again)>>,
              f.from, {"break"})

\* Mutant of EndIterator: the iterator is destroyed before the closing brace.
EndIteratorInside(c, f) == EndLoop(Append(c, Op("destroy")), f)

\* zend_iterator_dtor after the loop over an iterator.
EndIterator(c, f) == Append(EndLoop(c, f), Op("destroy"))

Closing(c, f) ==
  CASE f.s.kind \in {"if", "try"} -> ResolveNext(c, f.from, {"end"})
    [] f.s.kind = "switch"        -> ResolveNext(c, f.from, {"break", "continue"})
    [] f.s.kind = "do-while"      -> EndDoWhile(c, f)
    [] f.s.kind = "for" /\ f.s.over = "iterator" -> EndIterator(c, f)
    [] OTHER                      -> EndLoop(c, f)

-----------------------------------------------------------------------------
(* What the compilers look for in the tree before they compile it.         *)

\* Mutant of Accepted: the counters are not looked at.
AcceptedAnywhere(s) == TRUE

\* LoopBreakPass: the block of a loop must have one of the statements that leave
\* it, in itself or in the first block or the else of an if.
HasBreak[s \in Statements] ==
  \/ s.kind \in {"break", "return", "throw"}
  \/ s.kind = "if" /\ \/ \E i \in DOMAIN s.arms[1].body : HasBreak[s.arms[1].body[i]]
                      \/ \E i \in DOMAIN s.else : HasBreak[s.else[i]]

\* BreakStatement::compile, ContinueStatement::compile, LoopStatement::compile.
Accepted(s) ==
  /\ s.kind = "break"    => insideCycle > 0 \/ insideSwitch > 0
  /\ s.kind = "continue" => insideCycle > 0
  /\ s.kind = "loop"     => \E i \in DOMAIN s.body : HasBreak[s.body[i]]

\* ClassMethod::hasChildReturnStatementType: of the block of an if the last
\* statement decides, of every other block the first; no elseif, no clause of
\* a switch and no catch is looked at.
HasChildReturn[s \in Statements] ==
  \/ s.kind \in {"return", "throw"}
  \/ /\ s.kind = "if" /\ s.arms[1].body # << >> /\ s.else # << >>
     /\ HasChildReturn[s.arms[1].body[Len(s.arms[1].body)]] /\ HasChildReturn[s.else[1]]
  \/ s.kind \in LoopKinds \cup {"try"} /\ s.body # << >> /\ HasChildReturn[s.body[1]]

\* ClassMethod::compile: unless the last statement leaves the method, the
\* frame is restored at the end of the body.
Epilogue(body) ==
  IF body # << >> /\ HasChildReturn[body[Len(body)]] THEN << >> ELSE <<Op("restore")>>

-----------------------------------------------------------------------------
(* The compilation of a method.                                            *)

\* A statement that is open: the label of a try, the statement of the code after
\* which it begins and the one after its Setup, the kind of its current part, what
\* is left of the block of that part, and the parts after it.
Opened(s, label, from, again, as, block, parts) ==
  [s |-> s, label |-> label, from |-> from, again |-> again,
   as |-> as, block |-> block, parts |-> parts]

Init ==
  /\ MethodInit
  /\ \E body \in Bodies :
       /\ src = OnStart(body)
       /\ work = <<Opened([kind |-> "method", body |-> body], 0, 0, 1, "body", body, << >>)>>
  /\ insideCycle = 0 /\ insideSwitch = 0 /\ insideTryCatch = 0 /\ currentTryCatch = 0

\* f with its next part as the current one.
Further(f) ==
  [f EXCEPT !.as = Head(f.parts).as, !.block = Head(f.parts).stmts, !.parts = Rest(f.parts)]

Compiling == status = "compiling"
NotRun == UNCHANGED <<pc, exc, fetched, temps, held, restored, src>>

\* The statement to compile next, and the work that is left after it.
AtStatement == Compiling /\ Top.block # << >>
Current == Head(Top.block)
After == [work EXCEPT ![Len(work)].block = Tail(@)]

\* Mutant of Minus: a counter is not decremented.
MinusNever(n, closed) == n

Plus(n, opened)  == IF opened THEN n + 1 ELSE n
Minus(n, closed) == IF closed THEN n - 1 ELSE n

CompileSimple ==
  /\ AtStatement /\ Current.kind \in Unnested /\ Accepted(Current)
  /\ code' = code \o Compiled(Current)
  /\ work' = After
  /\ NotRun /\ UNCHANGED <<status, context>>

\* A CompilerException; the method is not compiled.
Refuse ==
  /\ AtStatement /\ ~Accepted(Current)
  /\ status' = "refused"
  /\ NotRun /\ UNCHANGED <<code, work, context>>

OpenStatement ==
  /\ AtStatement /\ Current.kind \notin Unnested /\ Accepted(Current)
  /\ LET s == Current
         again == Len(code) + Len(Setup(s)) + 1
         isTry == s.kind = "try"
     IN /\ code' = code \o Setup(s) \o Opening(s, again)
        /\ insideCycle' = Plus(insideCycle, s.kind \in LoopKinds)
        /\ insideSwitch' = Plus(insideSwitch, s.kind = "switch")
        /\ insideTryCatch' = Plus(insideTryCatch, isTry)
        /\ currentTryCatch' = Plus(currentTryCatch, isTry)
        /\ work' = Append(After,
             Opened(s, currentTryCatch', Len(code), again, IF isTry THEN "try" ELSE "body",
                    IF isTry \/ s.kind \in LoopKinds THEN s.body ELSE << >>, Parts(s)))
  /\ NotRun /\ UNCHANGED status

\* The current part is over, and there is one more.
NextPart ==
  /\ Compiling /\ Top.block = << >> /\ Top.parts # << >>
  /\ code' = Ended(Top) \o Beginning(Head(Top.parts))
  /\ work' = [work EXCEPT ![Len(work)] = Further(@)]
  /\ insideTryCatch' = Minus(insideTryCatch, Top.as = "try")
  /\ NotRun /\ UNCHANGED <<status, insideCycle, insideSwitch, currentTryCatch>>

\* The statement is over; a switch without clauses keeps the counter up.
CloseStatement ==
  /\ Compiling /\ Top.block = << >> /\ Top.parts = << >> /\ Len(work) > 1
  /\ code' = Closing(Ended(Top), Top)
  /\ work' = SubSeq(work, 1, Len(work) - 1)
  /\ insideCycle' = Minus(insideCycle, Top.s.kind \in LoopKinds)
  /\ insideSwitch' = Minus(insideSwitch, Top.s.kind = "switch" /\ Top.s.clauses # << >>)
  /\ insideTryCatch' = Minus(insideTryCatch, Top.as = "try")
  /\ NotRun /\ UNCHANGED <<status, currentTryCatch>>

FinishMethod ==
  /\ Compiling /\ Top.block = << >> /\ Len(work) = 1
  /\ code' = code \o Epilogue(Top.s.body)
  /\ work' = << >>
  /\ status' = "running"
  /\ NotRun /\ UNCHANGED context

Compile ==
  \/ CompileSimple \/ Refuse \/ OpenStatement \/ NextPart \/ CloseStatement \/ FinishMethod

Next == Compile \/ (Run /\ UNCHANGED <<work, context>>)

\* The compiler goes on to the end of the method, and the processor does not stop
\* between two events of it.
Spec ==
  /\ Init /\ [][Next]_vars
  /\ WF_vars(Compile) /\ WF_vars(~AtEvent /\ Run /\ UNCHANGED <<work, context>>)

-----------------------------------------------------------------------------
(* Properties.                                                             *)

\* The counters by which the compilers decide what a break, a throw and a failed
\* call may do are, at any time, those of the loops, switches and try blocks
\* around: no way out of a statement, of which there are several, forgets one.
CountersMatch ==
  Compiling =>
    /\ insideCycle = Cardinality({k \in DOMAIN work : work[k].s.kind \in LoopKinds})
    /\ insideSwitch = Cardinality({k \in DOMAIN work : work[k].s.kind = "switch"})
    /\ insideTryCatch = Cardinality({k \in DOMAIN work : work[k].as = "try"})
-----------------------------------------------------------------------------
(* Bodies that are compiled to code which is Kept.  A statement stands in  *)
(* a place: deep, when a loop over an iterator is around it, and with a    *)
(* way for what fails in it, failure:                                      *)
(*   "leaves"   the method, as no try block is around it;                  *)
(*   "caught"   the end of a try block, at its depth;                      *)
(*   "strays"   to a try block at some other depth, so that nothing may    *)
(*              fail;                                                      *)
(*   "passes"   as "strays", in a loop inside of a "caught" block: a try   *)
(*              there would be the last one for what comes after the loop. *)

Places == [deep : BOOLEAN, failure : {"leaves", "caught", "strays", "passes"}]
Outside == [deep |-> FALSE, failure |-> "leaves"]

MayFail(x) == x.failure = "caught" \/ (x.failure = "leaves" /\ ~x.deep)
Calls(s) ==
  \/ s.kind \in {"call", "throw"}
  \/ s.kind \in {"while", "do-while"} /\ s.cond.call
  \/ s.kind = "if" /\ \E i \in 1..Len(s.arms) : s.arms[i].cond.call

OverIterator(s) == s.kind = "for" /\ s.over = "iterator"

\* The block of the part as of s stands at y when s stands at x.
Enters(x, s, as, y) ==
  CASE as = "try" ->
         /\ y.deep = x.deep /\ y.failure \in {"caught", "strays"}
         /\ x.failure # "passes" /\ (x.failure = "caught" => y.failure = "caught")
    [] OverIterator(s) ->
         y.deep /\ y.failure = IF x.failure = "caught" THEN "passes" ELSE x.failure
    [] OTHER -> y = x

InBlock(b, S) == \A i \in 1..Len(b) : b[i] \in S
EndsIn(b, S) == b # << >> /\ b[Len(b)] \in S

\* The statements of at[x] may stand at x.
Stand(at) ==
  \A x \in Places : \A s \in at[x] :
    /\ s.kind = "return" => ~x.deep
    /\ Calls(s) => MayFail(x)
    /\ OverIterator(s) => "current" \notin s.throws
    /\ s.kind \in LoopKinds \cup {"try"} =>
         \E y \in Places : /\ Enters(x, s, IF s.kind = "try" THEN "try" ELSE "body", y)
                           /\ InBlock(s.body, at[y])
    /\ s.kind = "if" => InBlock(s.else, at[x]) /\ \A i \in 1..Len(s.arms) : InBlock(s.arms[i].body, at[x])
    /\ s.kind = "switch" => \A i \in 1..Len(s.clauses) : InBlock(s.clauses[i].body, at[x])
    /\ s.kind = "try" => \A i \in 1..Len(s.catches) : InBlock(s.catches[i].body, at[x])

\* No way through a statement of last comes to what follows it.
AllLeave(last) ==
  \A s \in last :
    \/ s.kind \in {"return", "throw"}
    \/ /\ s.kind = "if" /\ EndsIn(s.else, last)
       /\ \A i \in 1..Len(s.arms) : EndsIn(s.arms[i].body, last)

Sheltered(at, last) ==
  /\ Stand(at) /\ AllLeave(last)
  /\ \A body \in Bodies :
       /\ InBlock(body, at[Outside])
       /\ Epilogue(body) = << >> => EndsIn(body, last)
=============================================================================
