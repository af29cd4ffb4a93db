--------------------------- MODULE CompiledMethod ---------------------------
(***************************************************************************)
(* The C code of a method, run next to the body it is compiled from.       *)
(*                                                                         *)
(* Code is a sequence of C statements: records with a field op, and with   *)
(* the number to of the statement a jump goes to.  A test is followed by   *)
(* the statement that is run when it fails, and skips it otherwise.  The   *)
(* machine executes one statement at a time.  A statement the outside sees *)
(* (an echo, a call, a test, the selection of a clause, the end) must be   *)
(* the event the body asks for in the state it has reached; its answer,    *)
(* chosen freely, goes to both.  StatementCompiler makes the code; what    *)
(* bodies mean is left open: MCStatementCompiler takes it from ZepSource.  *)
(***************************************************************************)
EXTENDS ZepExceptions, Integers, Sequences, FiniteSets, TLC

CONSTANTS
  Asked(_),          \* the event a body asks for, and the body once it is answered:
  OnDone(_),         \* an echo or a call,
  OnFailure(_, _),   \* one that throws,
  OnTest(_, _),      \* a condition,
  OnChoice(_, _)     \* a switch

-----------------------------------------------------------------------------
(* Code.                                                                   *)

LabelIn(c, n) == CHOOSE i \in DOMAIN c : c[i].op = "label" /\ c[i].n = n

\* The statements that the compiler writes before it knows where they go to.
Pending == {"next", "end", "break", "continue"}

\* Where statement i goes on, if it does.
Ways(c, i) ==
  LET s == c[i] IN
  CASE s.op = "jump" -> {s.to}
    [] s.op = "goto" -> {k \in DOMAIN c : c[k].op = "label" /\ c[k].n = s.n}
    [] s.op \in {"if", "if_temp", "case", "if_exception", "instanceof", "iterate"} -> {i + 1, i + 2}
    [] s.op \in Pending \cup {"return"} -> {}
    [] OTHER -> {i + 1}

\* The loops over an iterator that are around statement i.
Depth(c, i) ==
  Cardinality({k \in 1..(i - 1) : c[k].op = "get_iterator"})
    - Cardinality({k \in 1..(i - 1) : c[k].op = "destroy"})

\* The code leaves no loop over an iterator but by its end, and the method, which
\* has one to run, by no other way than through a statement that restores its frame.
Kept(c) ==
  /\ c # << >>
  /\ \A i \in DOMAIN c :
       /\ c[i].op = "restore" \/ (c[i].op = "check" /\ c[i].n = 0) => Depth(c, i) = 0
       /\ c[i].op = "goto" \/ (c[i].op = "check" /\ c[i].n # 0) =>
            Depth(c, i) = Depth(c, LabelIn(c, c[i].n))
       /\ c[i].op = "iterate" => "current" \notin c[i].throws
       /\ c[i].op # "restore" => Len(c) + 1 \notin Ways(c, i)

-----------------------------------------------------------------------------
(* The machine.                                                            *)

VARIABLES
  code,      \* the compiled method, empty until it is
  pc,        \* the C statement about to run
  exc,       \* EG(exception)
  fetched,   \* the catch variable
  temps,     \* the temporaries of conditions, switches and ranges, by id
  held,      \* how many iterators have been obtained and not destroyed
  restored,  \* how often the frame has been restored
  src,       \* the state of the body in ZepSource
  status     \* compiling or refused, or running, ended, crashed, or diverged
             \* from the body

method == <<code, pc, exc, fetched, temps, held, restored, src, status>>

MethodInit ==
  /\ code = << >> /\ pc = 1
  /\ exc = NoException /\ fetched = NoException
  /\ temps = << >>
  /\ held = 0
  /\ restored = 0
  /\ status = "compiling"

AtEnd == pc = Len(code) + 1
At(op) == status = "running" /\ ~AtEnd /\ code[pc].op = op

\* The C statement is the event; the body goes on to the state answered.
See(event, id, answered) ==
  IF Asked(src) = [op |-> event, id |-> id]
    THEN src' = answered /\ UNCHANGED status
    ELSE status' = "diverged" /\ UNCHANGED src

GoOn == pc' = pc + 1
Skip(passed) == pc' = IF passed THEN pc + 2 ELSE pc + 1

EchoStep ==
  /\ At("echo") /\ GoOn
  /\ See("echo", code[pc].id, OnDone(src))
  /\ UNCHANGED <<code, exc, fetched, temps, held, restored>>

CallSucceeds ==
  /\ At("call") /\ exc = NoException /\ GoOn
  /\ See("call", code[pc].id, OnDone(src))
  /\ UNCHANGED <<code, exc, fetched, temps, held, restored>>

EvalSucceeds ==
  /\ At("eval") /\ exc = NoException /\ GoOn
  /\ \E b \in BOOLEAN :
       /\ See("test", code[pc].id, OnTest(src, b))
       /\ temps' = (code[pc].id :> b) @@ temps
  /\ UNCHANGED <<code, exc, fetched, held, restored>>

\* The call fails: it throws, or an exception is pending and
\* zephir_call_function_opt refuses to call anything.
CallFails ==
  /\ At("call") \/ At("eval")
  /\ GoOn
  /\ IF exc # NoException THEN UNCHANGED <<exc, src, status>>
     ELSE \E e \in Exceptions :
            /\ See(IF code[pc].op = "call" THEN "call" ELSE "test", code[pc].id, OnFailure(src, e))
            /\ exc' = e
  /\ UNCHANGED <<code, fetched, temps, held, restored>>

Test ==
  /\ At("if")
  /\ \E b \in BOOLEAN :
       /\ See("test", code[pc].id, OnTest(src, b))
       /\ Skip(b)
  /\ UNCHANGED <<code, exc, fetched, temps, held, restored>>

Select ==
  /\ At("select") /\ GoOn
  /\ \E k \in {0} \cup code[pc].values :
       /\ See("select", code[pc].id, OnChoice(src, k))
       /\ temps' = (code[pc].id :> k) @@ temps
  /\ UNCHANGED <<code, exc, fetched, held, restored>>

\* rewind or move_forward, then valid and get_current_data.
Iterate ==
  /\ At("iterate") /\ exc = NoException
  /\ \E b \in BOOLEAN :
       /\ See("test", code[pc].id, OnTest(src, b))
       /\ Skip(b)
  /\ UNCHANGED <<code, exc, fetched, temps, held, restored>>

\* An exception ends the loop, which goes on after it; but when it comes from
\* get_current_data, ZEPHIR_ITERATOR_COPY returns.
IterateFails ==
  /\ At("iterate")
  /\ IF exc # NoException THEN GoOn /\ UNCHANGED <<exc, src, status>>
     ELSE \E m \in code[pc].throws \ {"getIterator"}, e \in Exceptions :
            /\ See("test", code[pc].id, OnFailure(src, e))
            /\ exc' = e
            /\ pc' = IF m = "current" THEN Len(code) + 1 ELSE pc + 1
  /\ UNCHANGED <<code, fetched, temps, held, restored>>

\* The method returns to its caller, with the exception it leaves pending.
ReturnStep ==
  /\ status = "running" /\ (AtEnd \/ At("return"))
  /\ status' = IF Asked(src) = [op |-> "end", id |-> exc] THEN "ended" ELSE "diverged"
  /\ UNCHANGED <<code, pc, exc, fetched, temps, held, restored, src>>

-----------------------------------------------------------------------------
(* Steps nobody sees.                                                      *)

LabelAt(n) == LabelIn(code, n)

\* A failed call leaves the method, or goes to the end of a try block.
Check ==
  /\ At("check")
  /\ IF exc = NoException THEN GoOn /\ UNCHANGED restored
     ELSE IF code[pc].n = 0 THEN pc' = Len(code) + 1 /\ restored' = restored + 1
     ELSE pc' = LabelAt(code[pc].n) /\ UNCHANGED restored
  /\ UNCHANGED <<code, exc, fetched, temps, held, src, status>>

Branch ==
  /\ \/ At("jump") /\ pc' = code[pc].to
     \/ At("goto") /\ pc' = LabelAt(code[pc].n)
     \/ At("label") /\ GoOn
     \/ At("case") /\ Skip(temps[code[pc].id] \in code[pc].values)
     \/ At("if_exception") /\ Skip(exc # NoException)
     \/ At("instanceof") /\ Skip(InstanceOf(fetched, code[pc].class))
  /\ UNCHANGED <<code, exc, fetched, temps, held, restored, src, status>>

\* A temporary variable read before it is written holds anything.
BranchOnTemp ==
  /\ At("if_temp")
  /\ \E b \in BOOLEAN :
       /\ code[pc].id \in DOMAIN temps => b = temps[code[pc].id]
       /\ Skip(b)
  /\ UNCHANGED <<code, exc, fetched, temps, held, restored, src, status>>

\* zephir_throw_exception_debug calls the exception first, and throws nothing
\* when the call is refused because another exception is pending.
ThrowStep ==
  /\ At("throw") /\ GoOn
  /\ exc' = IF exc = NoException THEN code[pc].class ELSE exc
  /\ UNCHANGED <<code, fetched, temps, held, restored, src, status>>

Clear ==
  /\ At("clear") /\ GoOn
  /\ exc' = NoException
  /\ UNCHANGED <<code, fetched, temps, held, restored, src, status>>

\* ZVAL_OBJ(catch variable, EG(exception)); Z_ADDREF_P(catch variable).
Fetch ==
  /\ At("fetch") /\ GoOn
  /\ fetched' = exc
  /\ status' = IF exc = NoException THEN "crashed" ELSE status
  /\ UNCHANGED <<code, exc, temps, held, restored, src>>

Flag ==
  /\ At("flag") /\ GoOn
  /\ temps' = (code[pc].id :> code[pc].value) @@ temps
  /\ UNCHANGED <<code, exc, fetched, held, restored, src, status>>

\* zephir_get_iterator returns a null pointer when an exception is pending, and
\* its caller calls rewind through it.
GetIterator ==
  /\ At("get_iterator") /\ GoOn
  /\ \E fails \in {exc # NoException, "getIterator" \in code[pc].throws} :
       /\ exc # NoException => fails
       /\ held' = IF fails THEN held ELSE held + 1
       /\ status' = IF fails THEN "crashed" ELSE status
  /\ UNCHANGED <<code, exc, fetched, temps, restored, src>>

Destroy ==
  /\ At("destroy") /\ GoOn
  /\ held' = held - 1
  /\ UNCHANGED <<code, exc, fetched, temps, restored, src, status>>

RestoreStep ==
  /\ At("restore") /\ GoOn
  /\ restored' = restored + 1
  /\ UNCHANGED <<code, exc, fetched, temps, held, src, status>>

Run ==
  \/ EchoStep \/ CallSucceeds \/ EvalSucceeds \/ CallFails
  \/ Test \/ Select \/ Iterate \/ IterateFails \/ ReturnStep
  \/ Check \/ Branch \/ BranchOnTemp \/ Flag
  \/ GetIterator \/ Destroy
  \/ ThrowStep \/ Clear \/ Fetch \/ RestoreStep

\* The statement about to run is an event.
AtEvent ==
  \/ AtEnd
  \/ code[pc].op \in {"echo", "if", "select", "return"}
  \/ code[pc].op \in {"call", "eval", "iterate"} /\ exc = NoException

-----------------------------------------------------------------------------
(* Properties.                                                             *)

\* Every jump lands on a statement of the method or on its end, and the
\* variables keep to their types.
TypeOK ==
  /\ pc \in 1..(Len(code) + 1)
  /\ restored \in Nat /\ held \in Nat
  /\ status \in {"compiling", "refused", "running", "ended", "crashed", "diverged"}

\* The compiled code echoes, calls, tests and returns what the body does, in
\* the order the body does: the statements mean the same as in PHP.
SameAsSource == status \notin {"diverged", "crashed"}

\* On every path through a method its frame is restored exactly once, and no
\* statement of the method runs after it (the compiled code of ZephirMemory's
\* methods leaves the way that module assumes).
RestoredOnce ==
  /\ restored <= 1
  /\ restored = 1 /\ status = "running" => AtEnd \/ code[pc].op = "return"
  /\ status = "ended" => restored = 1

\* A method that ends has destroyed every iterator it has obtained, however its
\* loops were left: a break, a continue of a loop around, an exception of the
\* iterator.
IteratorsReleased == status = "ended" => held = 0

\* Whichever loop, branch, failed call or catch the method gets to a statement by,
\* it holds one iterator for each loop over an iterator that is around it there,
\* and its frame until it leaves; it never runs past its end with the frame.
HeldByLoops ==
  status = "running" =>
    /\ Kept(code)
    /\ restored = 0 => pc <= Len(code) /\ held = Depth(code, pc)

\* No break, continue, end of a branch or failed test is left without a place to
\* go to: a break outside of loops and switches, or in the block of a closed one,
\* would be C that does not compile, or that leaves the wrong loop.
BreaksInside ==
  status \notin {"compiling", "refused"} => \A i \in DOMAIN code : code[i].op \notin Pending

\* The compiler ends, and the code always gets to its next event or to its end: no
\* goto of a throw or of a failed call sends it round for ever.
Progress == []<>(status # "compiling" /\ (status = "running" => AtEvent))
=============================================================================
