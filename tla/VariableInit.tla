---------------------------- MODULE VariableInit ----------------------------
(***************************************************************************)
(* How the local variables of a method are initialised.  The compiler goes *)
(* through the statements once, from the first to the last, and prints a   *)
(* macro of memory.h for each variable a statement writes; which one it is *)
(* depends on counters kept in the variables (Library/Variable.php), on    *)
(* insideCycle and on what IfStatement has moved out of its branches       *)
(* (Passes/SkipVariantInit.php).  Then the method runs, along any path,    *)
(* next to its source: its zvals are registered in its frame by macros     *)
(* that the compiler or the type of the zval has taken for a first use.    *)
(*                                                                         *)
(* A method is its statements, flat: a block is opened by an if, an else   *)
(* or a while that knows where it is closed.  A for over an array is the   *)
(* for, which evaluates the array; a while whose first statements are lets *)
(* of the variables; and an endfor for each, which clears it.  A for over  *)
(* a range has no for, one over an iterator no endfor.  A value is the     *)
(* statement that made it.  Methods have no try block, and a fetched       *)
(* property is never borrowed (setMemoryTracked).                          *)
(***************************************************************************)
EXTENDS Naturals, Sequences, FiniteSets

CONSTANTS
  Variables,      \* the variables declared with var
  Methods,        \* the methods to compile
  UnsetCopies,    \* TRUE: a variable nothing has assigned may be copied
  Unset,          \* what the source says of such a variable
  Undef, Null     \* IS_UNDEF and IS_NULL

\* What a let assigns: a zval made by an operator, a literal, an array or new; a
\* number, which is one of a C type; a number that is inlined, a C variable or
\* the result of a function the compiler replaces; the result of a call, a
\* property or element, another variable, or what an iterator has come to.
\* Likewise what a for traverses.
Numbers == {"number", "inlined"}
Kinds == {"value", "call", "fetch", "copy", "item"} \cup Numbers
Statement == [op : {"let", "echo", "if", "else", "endif", "while", "endwhile", "return",
                    "break", "continue", "for", "endfor"},
              var : Variables,            \* written by let, for and endfor
              by : Kinds,
              reads : SUBSET Variables,   \* by the expression
              seen : BOOLEAN,             \* ReadDetector would find var in it
              to : Nat,                   \* where the block is closed, or opened
              elseif : BOOLEAN]           \* if: an elseif without statements

\* Blocks are properly opened and closed, and in each other or apart; one
\* variable is copied.
WellFormed(m) ==
  \A i \in 1..Len(m) :
    /\ m[i].by = "copy" => \E y \in Variables : m[i].reads = {y}
    /\ m[i].op \in {"if", "else", "while"} => m[i].to \in (i + 1)..Len(m)
    /\ m[i].op = "if" => m[m[i].to].op \in {"else", "endif"}
    /\ m[i].op = "else" => m[m[i].to].op = "endif"
    /\ m[i].op = "while" => m[m[i].to].op = "endwhile" /\ m[m[i].to].to = i
    /\ m[i].op = "endwhile" =>
         m[i].to \in 1..(i - 1) /\ m[m[i].to].op = "while" /\ m[m[i].to].to = i
    /\ m[i].op \in {"break", "continue"} =>
         /\ m[i].to \in (i + 1)..Len(m) /\ m[m[i].to].op = "endwhile"
         /\ m[m[i].to].to < i
    /\ \A j \in (i + 1)..Len(m) :
         /\ m[i].op \in {"if", "else", "while"} /\ j < m[i].to
         /\ m[j].op \in {"if", "else", "while"}
         => m[j].to < m[i].to
    /\ m[i].op = "for" => m[i].by \notin Numbers \cup {"fetch"} /\ i < Len(m) /\ m[i + 1].op = "while"

\* The variable of a loop over an iterator is counted before the loop.
ItemsCounted(m) ==
  \A i \in 1..Len(m) : m[i].op = "let" /\ m[i].by = "item" =>
    \E j \in 1..(i - 1) :
      m[j].op \in {"let", "for"} /\ m[j].by # "item" /\ m[j].var = m[i].var

\* The block of a loop over a variable does not assign it.
ArraysKept(m) ==
  \A i \in 1..Len(m) : m[i].op = "for" /\ m[i].by = "copy" =>
    \A j \in (i + 2)..m[i + 1].to : m[j].op \in {"let", "endfor"} => m[j].var \notin m[i].reads

ASSUME MethodsAssumption ==
  /\ Methods \subseteq Seq(Statement)
  /\ \A m \in Methods : WellFormed(m)
ASSUME ValuesAssumption ==
  /\ UnsetCopies \in BOOLEAN
  /\ Unset \notin Nat /\ Undef \notin Nat /\ Null \notin Nat /\ Undef # Null
ASSUME VariablesAssumption == Variables \cap ({"heap", "array", "nullify"} \X SUBSET Nat) = {}

VARIABLES
  method,         \* the statements
  next,           \* the statement the compiler has come to
  inits,          \* variantInits of the variables and temporaries
  skips,          \* numberSkips
  cycles,         \* insideCycle
  code,           \* what is printed for each statement
  pc,             \* the statement that runs
  step,           \* the macro of it that is next
  zv,             \* the zvals: Undef, Null or a value
  registered,     \* how often each is in the frame
  traversed,      \* the array each for goes through: _ht of ZEND_HASH_FOREACH
  source          \* the values of the variables in the source

vars == <<method, next, inits, skips, cycles, code, pc, step, zv, registered, traversed, source>>
compiler == <<method, next, inits, skips, cycles, code>>
running == <<pc, step, zv, registered, traversed, source>>

End == Len(method) + 1

\* The blocks a statement is in, by the statements that open them.
Blocks(m, i) == {b \in 1..(i - 1) : m[b].op \in {"if", "else", "while"} /\ i < m[b].to}

\* Mutant of Pool: one pool for the method.
PoolOfMethod(i) == {}

\* Temporaries are shared by the statements of one block, a pool for each type
\* and use; each is idle again after its statement.
Pool(i) == Blocks(method, i)
Heap(i) == <<"heap", Pool(i)>>
HeapArray(i) == <<"array", Pool(i)>>
Result(i) == <<"nullify", Pool(i)>>
Temporaries == {"heap", "array", "nullify"} \X {Pool(i) : i \in 1..Len(method)}
Zvals == Variables \cup Temporaries

-----------------------------------------------------------------------------
(* The compiler.                                                           *)

Printed == [op : {"INIT_VAR", "INIT_NVAR", "OBS_VAR", "OBS_NVAR", "NULLIFY", "CPY_WRT",
                  "STORE", "READ"},
            vars : SUBSET Zvals, from : SUBSET Zvals]
Macro(op, v) == [op |-> op, vars |-> v, from |-> {}]
CopyOf(x, y) == [op |-> "CPY_WRT", vars |-> {x}, from |-> y]
Reads(s) == Macro("READ", s.reads)

\* A first use that does not look at the loop.
FirstSoFar(v) == inits[v] = 0

\* initVariant and observeVariant print the macro for a first use.
First(v) == inits[v] = 0 /\ cycles = 0

\* initVariant prints one of two macros for a variable without skips, or none.
InitVars(V)  == Macro("INIT_VAR", {v \in V : skips[v] = 0 /\ First(v)})
InitNVars(V) == Macro("INIT_NVAR", {v \in V : skips[v] = 0 /\ ~First(v)})

\* observeVariant.
ObsVars(V)  == Macro("OBS_VAR", {v \in V : skips[v] = 0 /\ First(v)})
ObsNVars(V) == Macro("OBS_NVAR", {v \in V : skips[v] = 0 /\ ~First(v)})

\* The counting in initVariant, observeVariant and trackVariant.
Initialized(V) ==
  inits' = [v \in Zvals |-> IF v \in V /\ skips[v] = 0 THEN inits[v] + 1 ELSE inits[v]]

\* Mutant of Skipped: the test is missing.
SkippedAlways(V, more) ==
  skips' = [v \in Zvals |-> IF v \in V THEN (skips[v] - 1) + more ELSE skips[v]]

\* Mutant of Skipped: a skip is not used up.
SkipsKept(V, more) ==
  skips' = [v \in Zvals |-> IF v \in V THEN skips[v] + more ELSE skips[v]]

\* Each uses up a skip; skipInitVariant adds more.
Skipped(V, more) ==
  skips' = [v \in Zvals |->
              IF v \notin V THEN skips[v]
              ELSE IF skips[v] = 0 THEN more ELSE (skips[v] - 1) + more]

\* increaseVariantIfNull.
Increased(V) == inits' = [v \in Zvals |-> IF v \in V THEN inits[v] + 1 ELSE inits[v]]

Output(i, macros) ==
  /\ code' = Append(code, macros)
  /\ next' = i + 1
  /\ UNCHANGED <<method, running>>

Compiling(i, op) == i = next /\ i < End /\ method[i].op = op

\* Mutant of Seen: the detector finds nothing.
SeenNever(s) == FALSE

\* ReadDetector: the variable is read by the expression assigned to it; for the
\* object of a call MethodCall looks itself.
Seen(s) == s.seen /\ s.var \in s.reads

\* The variable is initialised, then receives the value.
LetValue(i) ==
  LET s == method[i] IN
  /\ Compiling(i, "let") /\ s.by \in Numbers \cup {"value"} /\ ~Seen(s)
  /\ Initialized({s.var}) /\ Skipped({s.var}, 0)
  /\ Output(i, <<InitVars({s.var}), InitNVars({s.var}), Macro("STORE", {s.var}), Reads(s)>>)
  /\ UNCHANGED cycles

\* The number goes to a temporary of its C type, which is no zval, before the
\* variable is initialised.
LetNumberOfOwn(i) ==
  LET s == method[i] IN
  /\ Compiling(i, "let") /\ s.by \in Numbers /\ Seen(s)
  /\ Initialized({s.var}) /\ Skipped({s.var}, 0)
  /\ Output(i, <<Reads(s), InitVars({s.var}), InitNVars({s.var}), Macro("STORE", {s.var})>>)
  /\ UNCHANGED cycles

\* The value goes to a temporary zval, which is copied.
LetValueOfOwn(i) ==
  LET s == method[i]
      t == Heap(i)
  IN
  /\ Compiling(i, "let") /\ s.by = "value" /\ Seen(s)
  /\ Increased({t, s.var})
  /\ Output(i, <<InitVars({t}), InitNVars({t}), Reads(s), Macro("STORE", {t}),
                CopyOf(s.var, {t})>>)
  /\ UNCHANGED <<skips, cycles>>

\* trackVariant counts, and the macro of the call looks at the zval itself.
LetCall(i) ==
  LET s == method[i] IN
  /\ Compiling(i, "let") /\ s.by = "call" /\ ~Seen(s)
  /\ Initialized({s.var}) /\ Skipped({s.var}, 0)
  /\ Output(i, <<Macro("NULLIFY", {s.var}), Reads(s), Macro("STORE", {s.var})>>)
  /\ UNCHANGED cycles

LetCallOfOwn(i) ==
  LET s == method[i]
      t == Result(i)
  IN
  /\ Compiling(i, "let") /\ s.by = "call" /\ Seen(s)
  /\ Increased({t, s.var})
  /\ Output(i, <<Reads(s), Macro("NULLIFY", {t}), Macro("STORE", {t}), CopyOf(s.var, {t})>>)
  /\ UNCHANGED <<skips, cycles>>

LetFetch(i) ==
  LET s == method[i] IN
  /\ Compiling(i, "let") /\ s.by = "fetch" /\ ~Seen(s)
  /\ Initialized({s.var}) /\ Skipped({s.var}, 0)
  /\ Output(i, <<ObsVars({s.var}), ObsNVars({s.var}), Reads(s), Macro("STORE", {s.var})>>)
  /\ UNCHANGED cycles

\* The temporary of a fetch is not registered.
LetFetchOfOwn(i) ==
  LET s == method[i] IN
  /\ Compiling(i, "let") /\ s.by = "fetch" /\ Seen(s)
  /\ Increased({s.var})
  /\ Output(i, <<Reads(s), CopyOf(s.var, {})>>)
  /\ UNCHANGED <<skips, cycles>>

LetCopy(i) ==
  LET s == method[i] IN
  /\ Compiling(i, "let") /\ s.by = "copy"
  /\ Increased({s.var})
  /\ Output(i, <<Reads(s), CopyOf(s.var, s.reads)>>)
  /\ UNCHANGED <<skips, cycles>>

\* ZEPHIR_ITERATOR_COPY looks at the zval, and nothing is counted.
LetItem(i) ==
  LET x == method[i].var IN
  /\ Compiling(i, "let") /\ method[i].by = "item"
  /\ Output(i, <<Macro("INIT_NVAR", {x}), Macro("STORE", {x})>>)
  /\ UNCHANGED <<inits, skips, cycles>>

\* SkipVariantInit: what a block of m assigns outside the blocks in it.
Assigned(m, b, e) ==
  {m[i].var : i \in {i \in (b + 1)..(e - 1) :
                       /\ m[i].op = "let" /\ m[i].by \in {"value", "number"}
                       /\ Blocks(m, i) = Blocks(m, b) \cup {b}}}

\* The variables initialised before an if: those that each of its branches
\* assigns, an elseif without statements being none, and its condition does
\* not read.
Moved(m, i) ==
  LET e == m[i].to
      both == IF m[e].op = "else" THEN Assigned(m, i, e) \cap Assigned(m, e, m[e].to)
              ELSE IF m[i].elseif THEN Assigned(m, i, e)
              ELSE {}
  IN  both \ m[i].reads

CompileIf(i) ==
  /\ Compiling(i, "if")
  /\ Initialized(Moved(method, i)) /\ Skipped(Moved(method, i), 2)
  /\ Output(i, <<Reads(method[i]), InitVars(Moved(method, i)), InitNVars(Moved(method, i))>>)
  /\ UNCHANGED cycles

CompileWhile(i) ==
  /\ Compiling(i, "while")
  /\ cycles' = cycles + 1
  /\ Output(i, <<Reads(method[i])>>)
  /\ UNCHANGED <<inits, skips>>

CompileEndWhile(i) ==
  /\ Compiling(i, "endwhile")
  /\ cycles' = cycles - 1
  /\ Output(i, << >>)
  /\ UNCHANGED <<inits, skips>>

\* A for over a variable.
CompileForVariable(i) ==
  LET s == method[i] IN
  /\ Compiling(i, "for") /\ s.by = "copy"
  /\ Increased({s.var})
  /\ Output(i, <<Reads(s)>>)
  /\ UNCHANGED <<skips, cycles>>

\* Over an array made for it, in a temporary.
CompileForArray(i) ==
  LET s == method[i]
      t == HeapArray(i)
  IN
  /\ Compiling(i, "for") /\ s.by = "value"
  /\ Increased({t, s.var})
  /\ Output(i, <<InitVars({t}), InitNVars({t}), Reads(s), Macro("STORE", {t})>>)
  /\ UNCHANGED <<skips, cycles>>

\* Over the result of a call.
CompileForCall(i) ==
  LET s == method[i]
      t == Result(i)
  IN
  /\ Compiling(i, "for") /\ s.by = "call"
  /\ Increased({t, s.var})
  /\ Output(i, <<Reads(s), Macro("NULLIFY", {t}), Macro("STORE", {t})>>)
  /\ UNCHANGED <<skips, cycles>>

\* Over an iterator.
CompileForIterator(i) ==
  /\ Compiling(i, "for") /\ method[i].by = "item"
  /\ Output(i, <<Reads(method[i])>>)
  /\ UNCHANGED <<inits, skips, cycles>>

\* After the loop, and before insideCycle is counted down.
CompileEndFor(i) ==
  LET x == method[i].var IN
  /\ Compiling(i, "endfor")
  /\ Initialized({x}) /\ Skipped({x}, 0)
  /\ Output(i, <<Macro("INIT_NVAR", {v \in {x} : skips[v] = 0})>>)
  /\ UNCHANGED cycles

CompileEcho(i) ==
  /\ Compiling(i, "echo")
  /\ Output(i, <<Reads(method[i])>>)
  /\ UNCHANGED <<inits, skips, cycles>>

CompileOther(i) ==
  /\ \E op \in {"else", "endif", "return", "break", "continue"} : Compiling(i, op)
  /\ Output(i, << >>)
  /\ UNCHANGED <<inits, skips, cycles>>

-----------------------------------------------------------------------------
(* The method.                                                             *)

Macros == code[pc]
Now == Macros[step]
At(op) == next = End /\ pc < End /\ step <= Len(Macros) /\ Now.op = op

\* zephir_memory_observe puts the zvals of V in the frame.
Register(V) ==
  registered' = [v \in Zvals |-> IF v \in V THEN registered[v] + 1 ELSE registered[v]]
Write(V, c) == zv' = [v \in Zvals |-> IF v \in V THEN c ELSE zv[v]]
Unused(V) == {v \in V : zv[v] = Undef}
Advance == step' = step + 1 /\ UNCHANGED <<compiler, pc, traversed, source>>

InitVar ==
  At("INIT_VAR") /\ Register(Now.vars) /\ Write(Now.vars, Null) /\ Advance

InitNVar ==
  At("INIT_NVAR") /\ Register(Unused(Now.vars)) /\ Write(Now.vars, Null) /\ Advance

ObsVar ==
  At("OBS_VAR") /\ Register(Now.vars) /\ UNCHANGED zv /\ Advance

ObsNVar ==
  /\ At("OBS_NVAR") /\ Register(Unused(Now.vars))
  /\ Write(Now.vars \ Unused(Now.vars), Null) /\ Advance

\* ZEPHIR_OBSERVE_OR_NULLIFY_PPZV, at the start of a call.
Nullify ==
  At("NULLIFY") /\ Register(Unused(Now.vars)) /\ Write(Now.vars, Undef) /\ Advance

\* The value copied is that of a zval, or one that was just fetched.
CpyWrt ==
  /\ At("CPY_WRT") /\ Register(Unused(Now.vars))
  /\ \/ Now.from = {} /\ Write(Now.vars, pc)
     \/ \E y \in Now.from : (UnsetCopies \/ zv[y] # Undef) /\ Write(Now.vars, zv[y])
  /\ Advance

\* ZVAL_STRING and the like, the result of a call, or a fetched value.
Store == At("STORE") /\ Write(Now.vars, pc) /\ UNCHANGED registered /\ Advance

Read == At("READ") /\ UNCHANGED <<zv, registered>> /\ Advance

\* A call throws, and the method restores its frame.
CallFails ==
  /\ At("STORE") /\ method[pc].by = "call"
  /\ pc' = End /\ step' = 1
  /\ UNCHANGED <<compiler, zv, registered, traversed, source>>

\* Where a statement goes on: the test of an if or a while comes out either
\* way, the end of a block skips the else or goes back, and what is not an
\* array is not traversed.
GoesTo(m, i) ==
  LET s == m[i] IN
  CASE s.op \in {"if", "while"} -> {i + 1, s.to + 1}
    [] s.op \in {"else", "break"} -> {s.to + 1}
    [] s.op \in {"endwhile", "continue"} -> {s.to}
    [] s.op = "for"             -> {i + 1, Len(m) + 1}
    [] s.op = "return"          -> {Len(m) + 1}
    [] OTHER                    -> {i + 1}

\* What the statement means for the variables of the source.
Means(i) ==
  LET s == method[i] IN
  IF s.op # "let" THEN source
  ELSE [source EXCEPT ![s.var] =
          IF s.by = "copy" THEN source[CHOOSE y \in s.reads : TRUE] ELSE i]

\* The zval a for takes its array from; an iterator has a reference of its own.
Array(i) ==
  LET s == method[i] IN
  IF s.by = "value" THEN HeapArray(i)
  ELSE IF s.by = "call" THEN Result(i)
  ELSE CHOOSE y \in s.reads : TRUE

\* ZEND_HASH_FOREACH takes the array, and no reference to it.
Traverses(i) ==
  IF method[i].op = "for" /\ method[i].by # "item"
  THEN [traversed EXCEPT ![i] = zv[Array(i)]]
  ELSE traversed

GoOn ==
  /\ next = End /\ pc < End /\ step > Len(Macros)
  /\ pc' \in GoesTo(method, pc) /\ step' = 1
  /\ source' = Means(pc) /\ traversed' = Traverses(pc)
  /\ UNCHANGED <<compiler, zv, registered>>

-----------------------------------------------------------------------------
(* The methods of which the properties are proved.                         *)

\* Each variable that the expression of a let reads and the let assigns is seen.
Detected(m) ==
  \A i \in 1..Len(m) :
    m[i].op = "let" /\ m[i].by \notin {"copy", "item"} /\ m[i].var \in m[i].reads =>
      m[i].seen

\* Statements that change x, and those of them that may use up a skip of it.
Assigns(m, i, x) == m[i].op = "let" /\ m[i].var = x
Changes(m, i, x) == m[i].op \in {"let", "endfor"} /\ m[i].var = x
UsesSkip(m, i, x) ==
  /\ Changes(m, i, x)
  /\ m[i].op = "let" =>
       /\ m[i].by \notin {"copy", "item"}
       /\ Seen(m[i]) => m[i].by \in Numbers

\* In the block opened by o, j is the first statement to write x; it is in no
\* other block, and initialises x when that is not skipped.
FirstIn(m, o, x, j) ==
  /\ o < j /\ j < m[o].to /\ Assigns(m, j, x) /\ m[j].by \in {"value", "number"} /\ ~Seen(m[j])
  /\ Blocks(m, j) = Blocks(m, o) \cup {o}
  /\ \A k \in (o + 1)..(j - 1) : ~Changes(m, k, x)

\* The two skips of what is moved out of an if are used up by the first statement
\* of each branch that writes it.
MovedSafely(m) ==
  \A i \in 1..Len(m) : m[i].op = "if" =>
    \A x \in Moved(m, i) :
      LET e == m[i].to IN
      /\ m[e].op = "else"
      /\ \E j, k \in 1..Len(m) : FirstIn(m, i, x, j) /\ FirstIn(m, e, x, k)
      /\ \A j, k \in (i + 1)..(e - 1) : UsesSkip(m, j, x) /\ UsesSkip(m, k, x) => j = k

\* S holds the statements that a path may come to after one that empties the zval
\* of x, and before one that assigns x; none of them reads x.
Empties(m, i, x) == (m[i].op = "if" /\ x \in Moved(m, i)) \/ (m[i].op = "endfor" /\ m[i].var = x)
EmptyIn(m, x, S) ==
  \A i \in 1..Len(m) :
    /\ Empties(m, i, x) \/ (i \in S /\ ~Assigns(m, i, x)) => GoesTo(m, i) \subseteq S
    /\ i \in S => x \notin m[i].reads
EmptiedUnread(m) == \A x \in Variables : \E S \in SUBSET (1..(Len(m) + 1)) : EmptyIn(m, x, S)

-----------------------------------------------------------------------------
Init ==
  /\ method \in Methods
  /\ next = 1 /\ cycles = 0 /\ code = << >>
  /\ inits = [v \in Zvals |-> 0] /\ skips = [v \in Zvals |-> 0]
  /\ pc = 1 /\ step = 1
  /\ zv = [v \in Zvals |-> Undef] /\ registered = [v \in Zvals |-> 0]
  /\ traversed = [i \in 1..Len(method) |-> Undef]
  /\ source = [v \in Variables |-> Unset]

Compile(i) ==
  \/ LetValue(i) \/ LetNumberOfOwn(i) \/ LetValueOfOwn(i) \/ LetCall(i) \/ LetCallOfOwn(i)
  \/ LetFetch(i) \/ LetFetchOfOwn(i) \/ LetCopy(i) \/ LetItem(i)
  \/ CompileForVariable(i) \/ CompileForArray(i) \/ CompileForCall(i)
  \/ CompileForIterator(i) \/ CompileEndFor(i)
  \/ CompileIf(i) \/ CompileWhile(i) \/ CompileEndWhile(i)
  \/ CompileEcho(i) \/ CompileOther(i)

Run ==
  \/ InitVar \/ InitNVar \/ ObsVar \/ ObsNVar \/ Nullify \/ CpyWrt
  \/ Store \/ Read \/ CallFails \/ GoOn

Next == Compile(next) \/ Run

Spec == Init /\ [][Next]_vars

-----------------------------------------------------------------------------
TypeOK ==
  /\ method \in Seq(Statement) /\ next \in 1..End
  /\ inits \in [Zvals -> Nat] /\ skips \in [Zvals -> Nat] /\ cycles \in Nat
  /\ code \in Seq(Seq(Printed)) /\ Len(code) = next - 1
  /\ pc \in 1..End /\ step \in Nat \ {0}
  /\ zv \in [Zvals -> {Undef, Null} \cup Nat]
  /\ registered \in [Zvals -> Nat]
  /\ traversed \in [1..Len(method) -> {Undef, Null} \cup Nat]
  /\ source \in [Variables -> {Unset} \cup Nat]

\* On every path through the branches and loops of a method, whatever the order
\* in which the compiler came to the statements, the frame gets a zval once: the
\* restore drops one reference for the one it holds, and a macro printed for a
\* first use is the first use.
RegisteredOnce == \A v \in Zvals : registered[v] <= 1

\* No value is lost: a zval that holds one is in the frame, and a value is
\* stored where none is.
ValuesOwned ==
  /\ \A v \in Zvals : zv[v] \in Nat => registered[v] > 0
  /\ At("STORE") => \A v \in Now.vars : zv[v] \notin Nat

\* What an expression reads is what the source has assigned: no initialisation
\* comes too early, before the old value is read or for a path that keeps it.
SameReads ==
  At("READ") =>
    \A v \in Now.vars : source[v] = (IF zv[v] \in {Undef, Null} THEN Unset ELSE zv[v])

\* A loop takes its next item from an array that some zval still holds, whatever
\* its block has done: the block reuses no temporary of the statements around it
\* (SymbolTable.php:569).
TraversedHeld ==
  next = End /\ pc \in 3..Len(method) /\ method[pc - 2].op = "for" /\ traversed[pc - 2] \in Nat =>
    \E v \in Zvals : zv[v] = traversed[pc - 2]
=============================================================================
