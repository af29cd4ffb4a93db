------------------------ MODULE VariableValuesProofs ------------------------
(***************************************************************************)
(* What the zvals of VariableInit hold, for every method: the array a loop *)
(* goes through, until the loop ends; the values of the source, wherever   *)
(* they are read; and none that is lost.                                   *)
(***************************************************************************)
EXTENDS VariableInitProofs

\* The zvals the code of statement i may write.
Touched(i) ==
  LET s == method[i] IN
  CASE s.op = "let"    -> {s.var, Heap(i), Result(i)}
    [] s.op = "for"    -> {HeapArray(i), Result(i)}
    [] s.op = "endfor" -> {s.var}
    [] s.op = "if"     -> Moved(method, i)
    [] OTHER           -> {}

Touches(ma, v) == ma.op # "READ" /\ v \in ma.vars
TouchesOnly(ms, V) == \A k \in 1..Len(ms) : \A v \in Zvals : Touches(ms[k], v) => v \in V

TouchInv == \A p \in 1..(next - 1) : TouchesOnly(code[p], Touched(p))

\* The loop of the for at f, without the for.
Inside(f) == (f + 1)..method[f + 1].to

HeldInv ==
  \A f \in 1..Len(method) : method[f].op = "for" /\ traversed[f] # Undef =>
    /\ method[f].by # "item"
    /\ pc \in Inside(f) => zv[Array(f)] = traversed[f]

TInv == IInv /\ TouchInv /\ HeldInv

-----------------------------------------------------------------------------
\* The compiler.

\* The code added for statement i touches only what is allowed to it.
LEMMA PrintTouches ==
  ASSUME IInv, TouchInv, NEW i, i = next, i < End, NEW ms, Output(i, ms),
         TouchesOnly(ms, Touched(i))
  PROVE  TouchInv'
  <1>1. /\ code \in Seq(Seq(Printed)) /\ Len(code) = next - 1 /\ next \in Nat
        /\ next' = next + 1 /\ code' = Append(code, ms) /\ method' = method
    <2>1. method \in Methods /\ next \in 1..(Len(method) + 1)
      BY DEF IInv, TypeOK, End
    <2>2. Len(method) \in Nat
      BY <2>1, MethodFacts
    <2> QED BY <2>1, <2>2 DEF IInv, TypeOK, Output
  <1>2. \A p \in 1..(next - 1) : code'[p] = code[p]
    BY <1>1
  <1>3. code'[next] = ms
    BY <1>1
  <1>4. \A p \in 1..next : TouchesOnly(code'[p], Touched(p))
    BY <1>1, <1>2, <1>3 DEF TouchInv
  <1>5. \A p : Touched(p)' = Touched(p)
    BY <1>1 DEF Touched, Heap, HeapArray, Result, Pool, Blocks
  <1>6. Zvals' = Zvals
    BY <1>1 DEF Zvals, Temporaries, Pool, Blocks
  <1> QED BY <1>1, <1>4, <1>5, <1>6 DEF TouchInv, TouchesOnly

\* A let writes its variable, and the temporaries of its own.
LEMMA LetTouches ==
  ASSUME IInv, TouchInv, NEW i, i = next,
         \/ LetValue(i) \/ LetNumberOfOwn(i) \/ LetValueOfOwn(i) \/ LetCall(i) \/ LetCallOfOwn(i)
         \/ LetFetch(i) \/ LetFetchOfOwn(i) \/ LetCopy(i) \/ LetItem(i)
  PROVE  TouchInv'
  <1> DEFINE x == method[i].var
  <1>1. i < End /\ method[i].op = "let"
    BY DEF Compiling, LetValue, LetNumberOfOwn, LetValueOfOwn, LetCall, LetCallOfOwn, LetFetch, LetFetchOfOwn,
           LetCopy, LetItem
  <1>2. Touched(i) = {x, Heap(i), Result(i)}
    BY <1>1 DEF Touched
  <1>3. CASE LetValue(i)
    <2> DEFINE ms == <<InitVars({x}), InitNVars({x}), Macro("STORE", {x}), Reads(method[i])>>
    <2>1. Len(ms) = 4 /\ \A k \in 1..4 : ms[k].op = "READ" \/ ms[k].vars \subseteq {x}
      BY DEF InitVars, InitNVars, Macro, Reads
    <2>2. TouchesOnly(ms, Touched(i))
      BY <1>2, <2>1 DEF TouchesOnly, Touches
    <2> QED BY <1>1, <1>3, <2>2, PrintTouches DEF LetValue
  <1>11. CASE LetNumberOfOwn(i)
    <2> DEFINE ms == <<Reads(method[i]), InitVars({x}), InitNVars({x}), Macro("STORE", {x})>>
    <2>1. Len(ms) = 4 /\ \A k \in 1..4 : ms[k].op = "READ" \/ ms[k].vars \subseteq {x}
      BY DEF InitVars, InitNVars, Macro, Reads
    <2>2. TouchesOnly(ms, Touched(i))
      BY <1>2, <2>1 DEF TouchesOnly, Touches
    <2> QED BY <1>1, <1>11, <2>2, PrintTouches DEF LetNumberOfOwn
  <1>4. CASE LetValueOfOwn(i)
    <2> DEFINE t == Heap(i)
               ms == <<InitVars({t}), InitNVars({t}), Reads(method[i]), Macro("STORE", {t}),
                       CopyOf(x, {t})>>
    <2>1. Len(ms) = 5 /\ \A k \in 1..5 : ms[k].op = "READ" \/ ms[k].vars \subseteq {x, t}
      BY DEF InitVars, InitNVars, Macro, Reads, CopyOf
    <2>2. TouchesOnly(ms, Touched(i))
      BY <1>2, <2>1 DEF TouchesOnly, Touches
    <2> QED BY <1>1, <1>4, <2>2, PrintTouches DEF LetValueOfOwn
  <1>5. CASE LetCall(i)
    <2> DEFINE ms == <<Macro("NULLIFY", {x}), Reads(method[i]), Macro("STORE", {x})>>
    <2>1. Len(ms) = 3 /\ \A k \in 1..3 : ms[k].op = "READ" \/ ms[k].vars \subseteq {x}
      BY DEF Macro, Reads
    <2>2. TouchesOnly(ms, Touched(i))
      BY <1>2, <2>1 DEF TouchesOnly, Touches
    <2> QED BY <1>1, <1>5, <2>2, PrintTouches DEF LetCall
  <1>6. CASE LetCallOfOwn(i)
    <2> DEFINE t == Result(i)
               ms == <<Reads(method[i]), Macro("NULLIFY", {t}), Macro("STORE", {t}),
                       CopyOf(x, {t})>>
    <2>1. Len(ms) = 4 /\ \A k \in 1..4 : ms[k].op = "READ" \/ ms[k].vars \subseteq {x, t}
      BY DEF Macro, Reads, CopyOf
    <2>2. TouchesOnly(ms, Touched(i))
      BY <1>2, <2>1 DEF TouchesOnly, Touches
    <2> QED BY <1>1, <1>6, <2>2, PrintTouches DEF LetCallOfOwn
  <1>7. CASE LetFetch(i)
    <2> DEFINE ms == <<ObsVars({x}), ObsNVars({x}), Reads(method[i]), Macro("STORE", {x})>>
    <2>1. Len(ms) = 4 /\ \A k \in 1..4 : ms[k].op = "READ" \/ ms[k].vars \subseteq {x}
      BY DEF ObsVars, ObsNVars, Macro, Reads
    <2>2. TouchesOnly(ms, Touched(i))
      BY <1>2, <2>1 DEF TouchesOnly, Touches
    <2> QED BY <1>1, <1>7, <2>2, PrintTouches DEF LetFetch
  <1>8. CASE LetFetchOfOwn(i)
    <2> DEFINE ms == <<Reads(method[i]), CopyOf(x, {})>>
    <2>1. Len(ms) = 2 /\ \A k \in 1..2 : ms[k].op = "READ" \/ ms[k].vars \subseteq {x}
      BY DEF Macro, Reads, CopyOf
    <2>2. TouchesOnly(ms, Touched(i))
      BY <1>2, <2>1 DEF TouchesOnly, Touches
    <2> QED BY <1>1, <1>8, <2>2, PrintTouches DEF LetFetchOfOwn
  <1>9. CASE LetCopy(i)
    <2> DEFINE ms == <<Reads(method[i]), CopyOf(x, method[i].reads)>>
    <2>1. Len(ms) = 2 /\ \A k \in 1..2 : ms[k].op = "READ" \/ ms[k].vars \subseteq {x}
      BY DEF Macro, Reads, CopyOf
    <2>2. TouchesOnly(ms, Touched(i))
      BY <1>2, <2>1 DEF TouchesOnly, Touches
    <2> QED BY <1>1, <1>9, <2>2, PrintTouches DEF LetCopy
  <1>10. CASE LetItem(i)
    <2> DEFINE ms == <<Macro("INIT_NVAR", {x}), Macro("STORE", {x})>>
    <2>1. Len(ms) = 2 /\ \A k \in 1..2 : ms[k].op = "READ" \/ ms[k].vars \subseteq {x}
      BY DEF Macro
    <2>2. TouchesOnly(ms, Touched(i))
      BY <1>2, <2>1 DEF TouchesOnly, Touches
    <2> QED BY <1>1, <1>10, <2>2, PrintTouches DEF LetItem
  <1> QED BY <1>3, <1>4, <1>5, <1>6, <1>7, <1>8, <1>9, <1>10, <1>11

\* A for over an array writes the copy, or the result, it goes through.
LEMMA ForTouches ==
  ASSUME IInv, TouchInv, NEW i, i = next,
         \/ CompileForVariable(i) \/ CompileForArray(i) \/ CompileForCall(i)
         \/ CompileForIterator(i)
  PROVE  TouchInv'
  <1>1. i < End /\ method[i].op = "for"
    BY DEF Compiling, CompileForVariable, CompileForArray, CompileForCall, CompileForIterator
  <1>2. Touched(i) = {HeapArray(i), Result(i)}
    BY <1>1 DEF Touched
  <1>3. CASE CompileForVariable(i) \/ CompileForIterator(i)
    <2>1. TouchesOnly(<<Reads(method[i])>>, Touched(i))
      BY DEF TouchesOnly, Touches, Reads, Macro
    <2> QED BY <1>1, <1>3, <2>1, PrintTouches DEF CompileForVariable, CompileForIterator
  <1>4. CASE CompileForArray(i)
    <2> DEFINE t == HeapArray(i)
               ms == <<InitVars({t}), InitNVars({t}), Reads(method[i]), Macro("STORE", {t})>>
    <2>1. Len(ms) = 4 /\ \A k \in 1..4 : ms[k].op = "READ" \/ ms[k].vars \subseteq {t}
      BY DEF InitVars, InitNVars, Macro, Reads
    <2>2. TouchesOnly(ms, Touched(i))
      BY <1>2, <2>1 DEF TouchesOnly, Touches
    <2> QED BY <1>1, <1>4, <2>2, PrintTouches DEF CompileForArray
  <1>5. CASE CompileForCall(i)
    <2> DEFINE t == Result(i)
               ms == <<Reads(method[i]), Macro("NULLIFY", {t}), Macro("STORE", {t})>>
    <2>1. Len(ms) = 3 /\ \A k \in 1..3 : ms[k].op = "READ" \/ ms[k].vars \subseteq {t}
      BY DEF Macro, Reads
    <2>2. TouchesOnly(ms, Touched(i))
      BY <1>2, <2>1 DEF TouchesOnly, Touches
    <2> QED BY <1>1, <1>5, <2>2, PrintTouches DEF CompileForCall
  <1> QED BY <1>3, <1>4, <1>5

\* What an if initialises, its branches assign.
LEMMA MovedAssigned ==
  ASSUME NEW i
  PROVE  Moved(method, i) \subseteq
           {method[j].var : j \in {j \in (i + 1)..(method[i].to - 1) : method[j].op = "let"}}
  <1>1. Moved(method, i) \subseteq Assigned(method, i, method[i].to)
    BY DEF Moved
  <1>2. Assigned(method, i, method[i].to) \subseteq
          {method[j].var : j \in {j \in (i + 1)..(method[i].to - 1) : method[j].op = "let"}}
    BY DEF Assigned
  <1> QED BY <1>1, <1>2

\* Whatever statement is compiled next, its code touches only what is its own.
LEMMA CompileTouches ==
  ASSUME IInv, TouchInv, Compile(next)
  PROVE  TouchInv'
  <1> DEFINE i == next
  <1>1. CASE CompileIf(i)
    <2> DEFINE V == Moved(method, i)
               ms == <<Reads(method[i]), InitVars(V), InitNVars(V)>>
    <2>1. i < End /\ method[i].op = "if" /\ Output(i, ms)
      BY <1>1 DEF CompileIf, Compiling
    <2>2. V \subseteq Touched(i)
      BY <2>1 DEF Touched
    <2> HIDE DEF V
    <2>3. Len(ms) = 3 /\ \A k \in 1..3 : ms[k].op = "READ" \/ ms[k].vars \subseteq V
      BY DEF InitVars, InitNVars, Macro, Reads
    <2>4. TouchesOnly(ms, Touched(i))
      BY <2>2, <2>3 DEF TouchesOnly, Touches
    <2> QED BY <2>1, <2>4, PrintTouches
  <1>2. CASE CompileEndFor(i)
    <2> DEFINE x == method[i].var
               ms == <<Macro("INIT_NVAR", {v \in {x} : skips[v] = 0})>>
    <2>1. i < End /\ method[i].op = "endfor" /\ Output(i, ms)
      BY <1>2 DEF CompileEndFor, Compiling
    <2>2. Len(ms) = 1 /\ \A k \in 1..1 : ms[k].vars \subseteq {x}
      BY DEF Macro
    <2>3. TouchesOnly(ms, Touched(i))
      BY <2>1, <2>2 DEF TouchesOnly, Touches, Touched
    <2> QED BY <2>1, <2>3, PrintTouches
  <1>3. CASE CompileWhile(i) \/ CompileEndWhile(i) \/ CompileEcho(i) \/ CompileOther(i)
    <2>1. PICK ms \in {<< >>, <<Reads(method[i])>>} : i < End /\ Output(i, ms)
      BY <1>3 DEF CompileWhile, CompileEndWhile, CompileEcho, CompileOther, Compiling
    <2>2. TouchesOnly(ms, Touched(i))
      BY DEF TouchesOnly, Touches, Reads, Macro
    <2> QED BY <2>1, <2>2, PrintTouches
  <1> QED BY <1>1, <1>2, <1>3, LetTouches, ForTouches DEF Compile

-----------------------------------------------------------------------------
\* The loop of a for.
LEMMA InsideFacts ==
  ASSUME IInv, NEW f \in 1..Len(method), method[f].op = "for"
  PROVE  /\ Len(method) \in Nat /\ f + 1 \in 1..Len(method) /\ method[f + 1].op = "while"
         /\ method[f + 1].to \in (f + 2)..Len(method)
         /\ method[method[f + 1].to].op = "endwhile" /\ method[method[f + 1].to].to = f + 1
         /\ Inside(f) \subseteq 1..Len(method)
  <1>1. Len(method) \in Nat /\ WellFormed(method)
    BY MethodFacts DEF IInv
  <1>2. f + 1 \in 1..Len(method) /\ method[f + 1].op = "while"
    BY <1>1 DEF WellFormed
  <1>3. /\ method[f + 1].to \in (f + 2)..Len(method)
        /\ method[method[f + 1].to].op = "endwhile" /\ method[method[f + 1].to].to = f + 1
    BY <1>1, <1>2 DEF WellFormed
  <1> QED BY <1>1, <1>2, <1>3 DEF Inside

\* The zval a for goes through is its array, the result of its call or a variable.
LEMMA ArrayFacts ==
  ASSUME IInv, NEW f \in 1..Len(method), method[f].op = "for", method[f].by # "item"
  PROVE  /\ method[f].by \in {"value", "call", "copy"}
         /\ method[f].by = "value" => Array(f) = HeapArray(f)
         /\ method[f].by = "call" => Array(f) = Result(f)
         /\ method[f].by = "copy" => Array(f) \in Variables /\ Array(f) \in method[f].reads
         /\ Array(f) \in Zvals
  <1>1. WellFormed(method) /\ method[f] \in Statement
    BY MethodFacts DEF IInv
  <1>2. method[f].by \in {"value", "call", "copy"}
    BY <1>1 DEF WellFormed, Statement, Kinds, Numbers
  <1>3. method[f].by = "copy" => Array(f) \in Variables /\ Array(f) \in method[f].reads
    <2>1. SUFFICES ASSUME method[f].by = "copy"
                   PROVE  Array(f) \in Variables /\ Array(f) \in method[f].reads
      OBVIOUS
    <2>2. PICK y \in Variables : method[f].reads = {y}
      BY <1>1, <2>1 DEF WellFormed
    <2>3. Array(f) = CHOOSE z \in method[f].reads : TRUE
      BY <2>1 DEF Array
    <2> QED BY <2>2, <2>3
  <1>4. {HeapArray(f), Result(f)} \subseteq Zvals /\ Variables \subseteq Zvals
    BY BlocksFacts DEF IInv, Zvals
  <1>5. /\ method[f].by = "value" => Array(f) = HeapArray(f)
        /\ method[f].by = "call" => Array(f) = Result(f)
    BY DEF Array
  <1> QED BY <1>2, <1>3, <1>4, <1>5

\* Temporaries are no variables, and those of a loop's block not those of the
\* statements around it.
LEMMA PoolsApart ==
  ASSUME IInv, NEW f \in 1..Len(method), method[f].op = "for",
         NEW p \in Inside(f), method[p].op \notin {"while", "endwhile"}
  PROVE  Pool(p) # Pool(f)
  <1>1. /\ Len(method) \in Nat /\ f + 1 \in 1..Len(method) /\ method[f + 1].op = "while"
        /\ method[f + 1].to \in (f + 2)..Len(method) /\ method[method[f + 1].to].op = "endwhile"
    BY InsideFacts
  <1>2. p \in (f + 2)..(method[f + 1].to - 1)
    BY <1>1 DEF Inside
  <1>3. f + 1 \in Blocks(method, p)
    BY <1>1, <1>2 DEF Blocks
  <1>4. f + 1 \notin Blocks(method, f)
    BY <1>1 DEF Blocks
  <1> QED BY <1>3, <1>4 DEF Pool

\* No temporary is a variable of the method.
LEMMA VariablesApart ==
  ASSUME NEW i, NEW v \in Variables
  PROVE  v # Heap(i) /\ v # HeapArray(i) /\ v # Result(i)
  <1>1. Pool(i) \in SUBSET Nat
    BY DEF Pool, Blocks
  <1>2. {Heap(i), HeapArray(i), Result(i)} \subseteq {"heap", "array", "nullify"} \X SUBSET Nat
    BY <1>1 DEF Heap, HeapArray, Result
  <1> QED BY <1>2, VariablesAssumption

\* No statement of a loop writes what the loop goes through.
LEMMA NotTouched ==
  ASSUME IInv, ArraysKept(method), NEW f \in 1..Len(method),
         method[f].op = "for", method[f].by # "item", NEW p \in Inside(f)
  PROVE  Array(f) \notin Touched(p)
  <1>1. /\ Len(method) \in Nat /\ f + 1 \in 1..Len(method) /\ method[f + 1].op = "while"
        /\ method[f + 1].to \in (f + 2)..Len(method) /\ method[method[f + 1].to].op = "endwhile"
        /\ p \in 1..Len(method)
    BY InsideFacts
  <1>2. /\ method[f].by \in {"value", "call", "copy"}
        /\ method[f].by = "value" => Array(f) = HeapArray(f)
        /\ method[f].by = "call" => Array(f) = Result(f)
        /\ method[f].by = "copy" => Array(f) \in Variables /\ Array(f) \in method[f].reads
    BY ArrayFacts
  <1>3. \A j \in 1..Len(method) : method[j].var \in Variables
    BY MethodFacts DEF IInv, Statement
  <1>4. ASSUME NEW j \in (f + 2)..method[f + 1].to, method[j].op \in {"let", "endfor"}
        PROVE  Array(f) # method[j].var
    <2>1. method[j].var \in Variables
      BY <1>1, <1>3
    <2>2. CASE method[f].by = "copy"
      BY <1>2, <1>4, <2>2 DEF ArraysKept
    <2>3. CASE method[f].by # "copy"
      BY <1>2, <2>1, <2>3, VariablesApart
    <2> QED BY <2>2, <2>3
  <1>5. ASSUME method[p].op \in {"let", "for"}
        PROVE  Array(f) \notin {Heap(p), HeapArray(p), Result(p)}
    <2>1. Pool(p) # Pool(f)
      BY <1>5, PoolsApart
    <2>2. CASE method[f].by = "copy"
      BY <1>2, <2>2, VariablesApart
    <2>3. CASE method[f].by # "copy"
      BY <1>2, <2>1, <2>3 DEF Heap, HeapArray, Result
    <2> QED BY <2>2, <2>3
  <1>6. CASE method[p].op \in {"let", "endfor"}
    <2>1. p \in (f + 2)..method[f + 1].to
      BY <1>1, <1>6 DEF Inside
    <2> QED BY <1>4, <1>5, <1>6, <2>1 DEF Touched
  <1>7. CASE method[p].op = "for"
    BY <1>5, <1>7 DEF Touched
  <1>8. CASE method[p].op = "if"
    <2>1. p \in (f + 2)..(method[f + 1].to - 1)
      BY <1>1, <1>8 DEF Inside
    <2>2. method[p].to < method[f + 1].to
      BY <1>1, <1>8, <2>1, MethodFacts DEF IInv, WellFormed
    <2>3. method[p].to \in Nat
      BY <1>1, MethodFacts DEF IInv, Statement
    <2>4. \A j \in (p + 1)..(method[p].to - 1) : j \in (f + 2)..method[f + 1].to
      BY <1>1, <2>1, <2>2, <2>3
    <2>5. Touched(p) = Moved(method, p)
      BY <1>8 DEF Touched
    <2> QED BY <1>4, <2>4, <2>5, MovedAssigned
  <1>9. CASE method[p].op \notin {"let", "endfor", "for", "if"}
    BY <1>9 DEF Touched
  <1> QED BY <1>6, <1>7, <1>8, <1>9

\* A block that is opened in a block is closed in it.
LEMMA Nested ==
  ASSUME IInv, NEW a \in 1..Len(method), method[a].op \in {"if", "else", "while"},
         NEW b \in 1..Len(method), method[b].op \in {"if", "else", "while"},
         a < b, b < method[a].to
  PROVE  method[b].to < method[a].to
  <1>1. WellFormed(method) /\ Len(method) \in Nat
    BY MethodFacts DEF IInv
  <1>2. b \in (a + 1)..Len(method)
    BY <1>1
  <1> QED BY <1>1, <1>2 DEF WellFormed

\* The end of a while links back to it.
LEMMA LoopLinks ==
  ASSUME WellFormed(method), NEW i \in 1..Len(method), method[i].op = "endwhile"
  PROVE  /\ method[i].to \in 1..(i - 1) /\ method[method[i].to].op = "while"
         /\ method[method[i].to].to = i
  BY DEF WellFormed

\* A loop is entered by its for only.
LEMMA EnteredByFor ==
  ASSUME IInv, Running, NEW f \in 1..Len(method), method[f].op = "for",
         NEW p \in GoesTo(method, pc), p \in Inside(f)
  PROVE  pc = f \/ pc \in Inside(f)
  <1> DEFINE e == method[f + 1].to
  <1>1. /\ Len(method) \in Nat /\ f + 1 \in 1..Len(method) /\ method[f + 1].op = "while"
        /\ e \in (f + 2)..Len(method) /\ method[e].op = "endwhile" /\ method[e].to = f + 1
        /\ p \in (f + 1)..e
    BY InsideFacts DEF Inside
  <1>2. pc \in 1..Len(method) /\ WellFormed(method) /\ method[pc].to \in Nat
    BY RunFacts, MethodFacts DEF IInv, Statement
  <1> SUFFICES ASSUME pc # f, pc < f + 1 \/ pc > e
               PROVE  FALSE
    BY <1>1, <1>2 DEF Inside
  <1>3. \/ p = pc + 1
        \/ method[pc].op \in {"if", "else", "while", "break"} /\ p = method[pc].to + 1
        \/ method[pc].op \in {"endwhile", "continue"} /\ p = method[pc].to
        \/ p = End
    BY DEF GoesTo, End
  <1>4. p # End /\ p # pc + 1
    BY <1>1, <1>2 DEF End
  <1> HIDE DEF e
  <1>5. CASE method[pc].op \in {"if", "else", "while"} /\ p = method[pc].to + 1
    <2> DEFINE t == method[pc].to
    <2>1. t \in (pc + 1)..Len(method) /\ method[t].op # "for"
      BY <1>2, <1>5 DEF WellFormed
    <2>2. method[t].op # "while"
      BY <1>2, <1>5 DEF WellFormed
    <2> HIDE DEF t
    <2>3. p = t + 1
      BY <1>5 DEF t
    <2>4. t # f /\ t # f + 1
      BY <1>1, <2>1, <2>2
    <2>5. t > f + 1 /\ t < e /\ pc < f
      BY <1>1, <1>2, <2>1, <2>3, <2>4
    <2>6. method[f + 1].to < method[pc].to
      BY <1>1, <1>2, <1>5, <2>5, Nested DEF t
    <2> QED BY <1>1, <1>2, <2>5, <2>6 DEF e, t
  <1>6. CASE method[pc].op \in {"break", "continue"} /\ p \in {method[pc].to, method[pc].to + 1}
    <2> DEFINE c == method[pc].to
               w == method[c].to
    <2>1. /\ c \in (pc + 1)..Len(method) /\ c \in 1..Len(method)
          /\ method[c].op = "endwhile" /\ w < pc
      BY <1>2, <1>6 DEF WellFormed
    <2>2. w \in 1..(c - 1) /\ method[w].op = "while" /\ method[w].to = c
      BY <1>2, <2>1, LoopLinks
    <2>3. p = c \/ p = c + 1
      BY <1>6
    <2>4. c = e => w = f + 1
      BY <1>1
    <2> HIDE DEF c, w
    <2>5. c # f /\ c # f + 1
      BY <1>1, <2>1
    <2>6. c > f + 1 /\ c <= e /\ pc < f
      BY <1>1, <1>2, <2>1, <2>3, <2>5
    <2>7. w < f /\ c < e
      BY <1>1, <1>2, <2>1, <2>2, <2>4, <2>6
    <2>8. method[f + 1].to < method[w].to
      BY <1>1, <2>1, <2>2, <2>6, <2>7, Nested
    <2> QED BY <1>1, <2>1, <2>2, <2>7, <2>8 DEF e
  <1>7. CASE method[pc].op = "endwhile" /\ p = method[pc].to
    <2>1. p \in 1..(pc - 1) /\ method[p].op = "while" /\ method[p].to = pc
      BY <1>2, <1>7 DEF WellFormed
    <2>2. pc > e
      BY <1>1, <1>2, <2>1
    <2>3. p # f + 1 /\ p # e
      BY <1>1, <2>1, <2>2 DEF e
    <2>4. p \in 1..Len(method) /\ f + 1 < p /\ p < e
      BY <1>1, <2>3
    <2>5. method[p].to < method[f + 1].to
      BY <1>1, <2>1, <2>4, Nested DEF e
    <2> QED BY <1>1, <1>2, <2>1, <2>2, <2>5 DEF e
  <1> QED BY <1>3, <1>4, <1>5, <1>6, <1>7

-----------------------------------------------------------------------------
\* The run.

\* A macro writes the zvals it names.
LEMMA WritesNamed ==
  ASSUME IInv,
         InitVar \/ InitNVar \/ ObsVar \/ ObsNVar \/ Nullify \/ CpyWrt \/ Store \/ Read
  PROVE  /\ Running /\ step <= Len(Macros) /\ Advance
         /\ \A v \in Zvals : ~Touches(Now, v) => zv'[v] = zv[v]
  <1>1. Running /\ step <= Len(Macros) /\ Advance
    BY DEF InitVar, InitNVar, ObsVar, ObsNVar, Nullify, CpyWrt, Store, Read, At, Running
  <1>2. SUFFICES ASSUME NEW v \in Zvals, ~Touches(Now, v)
                 PROVE  zv'[v] = zv[v]
    BY <1>1
  <1>3. CASE ObsVar \/ Read
    BY <1>3 DEF ObsVar, Read
  <1>4. CASE InitVar \/ InitNVar \/ Nullify \/ CpyWrt \/ Store
    <2>1. Now.op # "READ"
      BY <1>4 DEF InitVar, InitNVar, Nullify, CpyWrt, Store, At
    <2>2. v \notin Now.vars
      BY <1>2, <2>1 DEF Touches
    <2>3. PICK c : Write(Now.vars, c)
      BY <1>4 DEF InitVar, InitNVar, Nullify, CpyWrt, Store
    <2> QED BY <2>2, <2>3 DEF Write
  <1>5. CASE ObsNVar
    <2>1. Now.op # "READ" /\ Write(Now.vars \ Unused(Now.vars), Null)
      BY <1>5 DEF ObsNVar, At
    <2>2. v \notin Now.vars
      BY <1>2, <2>1 DEF Touches
    <2> QED BY <2>1, <2>2 DEF Write
  <1> QED BY <1>3, <1>4, <1>5

\* The run leaves the code as it was printed.
LEMMA TouchKept ==
  ASSUME TouchInv, UNCHANGED <<method, next, code>>
  PROVE  TouchInv'
  <1>1. \A i : Pool(i)' = Pool(i)
    BY DEF Pool, Blocks
  <1>2. \A i : Touched(i)' = Touched(i)
    BY <1>1 DEF Touched, Heap, HeapArray, Result
  <1>3. Zvals' = Zvals
    BY <1>1 DEF Zvals, Temporaries
  <1> QED BY <1>2, <1>3 DEF TouchInv, TouchesOnly

\* A macro leaves the array of every loop it is inside of alone.
LEMMA MacroHolds ==
  ASSUME TInv, ArraysKept(method),
         InitVar \/ InitNVar \/ ObsVar \/ ObsNVar \/ Nullify \/ CpyWrt \/ Store \/ Read
  PROVE  TouchInv' /\ HeldInv'
  <1>0. IInv /\ TouchInv /\ HeldInv
    BY DEF TInv
  <1>1. /\ Running /\ step <= Len(Macros) /\ Advance
        /\ \A v \in Zvals : ~Touches(Now, v) => zv'[v] = zv[v]
    BY <1>0, WritesNamed
  <1>2. UNCHANGED <<method, next, code, pc, traversed>>
    BY <1>1 DEF Advance, compiler
  <1>3. TouchInv'
    BY <1>0, <1>2, TouchKept
  <1>4. ASSUME NEW f \in 1..Len(method), method[f].op = "for", traversed[f] # Undef,
               pc \in Inside(f)
        PROVE  zv'[Array(f)] = traversed[f]
    <2>1. method[f].by # "item" /\ zv[Array(f)] = traversed[f]
      BY <1>0, <1>4 DEF HeldInv
    <2>2. Array(f) \in Zvals /\ Array(f) \notin Touched(pc)
      BY <1>0, <1>4, <2>1, ArrayFacts, NotTouched
    <2>3. /\ step \in 1..Len(code[pc]) /\ Now = code[pc][step] /\ pc \in 1..(next - 1)
      BY <1>0, <1>1, RunFacts, MacroNow
    <2>4. ~Touches(Now, Array(f))
      BY <1>0, <2>2, <2>3 DEF TouchInv, TouchesOnly
    <2> QED BY <1>1, <2>1, <2>2, <2>4
  <1>5. \A f : Array(f)' = Array(f) /\ Inside(f)' = Inside(f)
    BY <1>2 DEF Array, Inside, HeapArray, Result, Pool, Blocks
  <1>6. HeldInv'
    BY <1>0, <1>2, <1>4, <1>5 DEF HeldInv
  <1> QED BY <1>3, <1>6

\* Going on to another statement, or leaving the method, keeps the arrays too.
LEMMA JumpHolds ==
  ASSUME TInv, CallFails \/ GoOn
  PROVE  TouchInv' /\ HeldInv'
  <1>0. IInv /\ TouchInv /\ HeldInv
    BY DEF TInv
  <1>1. Running /\ UNCHANGED <<method, next, code, zv>>
    BY DEF CallFails, GoOn, At, Running, compiler
  <1>2. TouchInv'
    BY <1>0, <1>1, TouchKept
  <1>3. \A f : Array(f)' = Array(f) /\ Inside(f)' = Inside(f)
    BY <1>1 DEF Array, Inside, HeapArray, Result, Pool, Blocks
  <1>4. pc \in 1..Len(method) /\ Len(method) \in Nat
        /\ traversed \in [1..Len(method) -> {Undef, Null} \cup Nat]
    BY <1>0, <1>1, RunFacts DEF IInv, TypeOK
  <1>5. CASE CallFails
    <2>1. pc' = Len(method) + 1 /\ traversed' = traversed
      BY <1>5 DEF CallFails, End
    <2>2. \A f \in 1..Len(method) : method[f].op = "for" => pc' \notin Inside(f)
      <3> SUFFICES ASSUME NEW f \in 1..Len(method), method[f].op = "for"
                   PROVE  pc' \notin Inside(f)
        OBVIOUS
      <3>1. Inside(f) \subseteq 1..Len(method)
        BY <1>0, InsideFacts
      <3> QED BY <1>4, <2>1, <3>1
    <2>3. HeldInv'
      BY <1>0, <1>1, <1>3, <2>1, <2>2 DEF HeldInv
    <2> QED BY <1>2, <2>3
  <1>6. CASE GoOn
    <2>1. pc' \in GoesTo(method, pc) /\ traversed' = Traverses(pc)
      BY <1>6 DEF GoOn
    <2>2. ASSUME NEW f \in 1..Len(method), method[f].op = "for", traversed'[f] # Undef
          PROVE  /\ method[f].by # "item"
                 /\ pc' \in Inside(f) => zv[Array(f)] = traversed'[f]
      <3>1. CASE pc = f
        <4>1. CASE method[f].by = "item"
          BY <1>0, <2>1, <2>2, <3>1, <4>1 DEF Traverses, HeldInv
        <4>2. CASE method[f].by # "item"
          <5>1. traversed'[f] = zv[Array(f)]
            BY <1>4, <2>1, <2>2, <3>1, <4>2 DEF Traverses
          <5> QED BY <4>2, <5>1
        <4> QED BY <4>1, <4>2
      <3>2. CASE pc # f
        <4>1. traversed'[f] = traversed[f]
          BY <1>4, <2>1, <3>2 DEF Traverses
        <4>2. pc' \in Inside(f) => pc \in Inside(f)
          BY <1>0, <1>1, <2>1, <2>2, <3>2, EnteredByFor
        <4> QED BY <1>0, <2>2, <4>1, <4>2 DEF HeldInv
      <3> QED BY <3>1, <3>2
    <2>3. HeldInv'
      BY <1>1, <1>3, <2>2 DEF HeldInv
    <2> QED BY <1>2, <2>3
  <1> QED BY <1>5, <1>6

-----------------------------------------------------------------------------
\* Nothing is printed and no loop runs at first.
LEMMA TInit ==
  ASSUME Init
  PROVE  TInv
  <1>1. IInv
    BY InitHolds
  <1>2. next = 1 /\ \A f \in 1..Len(method) : traversed[f] = Undef
    BY DEF Init
  <1> QED BY <1>1, <1>2 DEF TInv, TouchInv, HeldInv

\* Every step keeps the arrays of the loops that run.
LEMMA TStep ==
  ASSUME TInv, ~UnsetCopies, \A m \in Methods : ItemsCounted(m) /\ ArraysKept(m), [Next]_vars
  PROVE  TInv'
  <1>1. IInv /\ TouchInv /\ HeldInv /\ ArraysKept(method)
    BY DEF TInv, IInv
  <1>2. IInv'
    BY <1>1, StepKeeps
  <1>3. CASE Compile(next)
    <2>1. TouchInv'
      BY <1>1, <1>3, CompileTouches
    <2>2. UNCHANGED <<method, pc, zv, traversed>>
      BY <1>3 DEF Compile, LetValue, LetNumberOfOwn, LetValueOfOwn, LetCall, LetCallOfOwn, LetFetch,
        LetFetchOfOwn, LetCopy, LetItem, CompileForVariable, CompileForArray, CompileForCall,
        CompileForIterator, CompileEndFor, CompileIf, CompileWhile, CompileEndWhile,
        CompileEcho, CompileOther, Output, running
    <2>3. HeldInv'
      BY <1>1, <2>2, ZenonT(60) DEF HeldInv, Array, Inside, HeapArray, Result, Pool, Blocks
    <2> QED BY <1>2, <2>1, <2>3 DEF TInv
  <1>4. CASE Run
    BY <1>1, <1>2, <1>4, MacroHolds, JumpHolds DEF Run, TInv
  <1>5. CASE UNCHANGED vars
    <2>1. UNCHANGED <<method, next, code, pc, zv, traversed>>
      BY <1>5 DEF vars
    <2>2. HeldInv'
      BY <1>1, <2>1, ZenonT(60) DEF HeldInv, Array, Inside, HeapArray, Result, Pool, Blocks
    <2>3. TouchInv'
      BY <1>1, <2>1, TouchKept
    <2> QED BY <1>2, <2>2, <2>3 DEF TInv
  <1> QED BY <1>3, <1>4, <1>5 DEF Next

\* For every method that does not assign the variable of an array while it goes
\* through it: the array is where the loop found it until the loop ends, on every
\* path and however loops are nested, since a block has temporaries of its own.
THEOREM TraversedHolds ==
  ASSUME ~UnsetCopies, \A m \in Methods : ItemsCounted(m) /\ ArraysKept(m)
  PROVE  Spec => []TraversedHeld
  <1>1. Init => TInv
    BY TInit
  <1>2. TInv /\ [Next]_vars => TInv'
    BY TStep
  <1>3. TInv => TraversedHeld
    <2> SUFFICES ASSUME TInv, next = End, pc \in 3..Len(method), method[pc - 2].op = "for",
                        traversed[pc - 2] \in Nat
                 PROVE  \E v \in Zvals : zv[v] = traversed[pc - 2]
      BY DEF TraversedHeld
    <2> DEFINE f == pc - 2
    <2>1. IInv /\ HeldInv
      BY DEF TInv
    <2>2. Len(method) \in Nat
      BY <2>1, MethodFacts DEF IInv
    <2>3. f \in 1..Len(method) /\ traversed[f] # Undef /\ pc = f + 2
      BY <2>2, ValuesAssumption
    <2>4. pc \in Inside(f)
      BY <2>1, <2>3, InsideFacts DEF Inside
    <2>5. method[f].by # "item" /\ zv[Array(f)] = traversed[f]
      BY <2>1, <2>3, <2>4 DEF HeldInv
    <2>6. Array(f) \in Zvals
      BY <2>1, <2>3, <2>5, ArrayFacts
    <2> QED BY <2>5, <2>6
  <1> QED BY <1>1, <1>2, <1>3, PTL DEF Spec
-----------------------------------------------------------------------------
(* The values that are read.                                               *)

\* What the source would make of what a zval holds.
Shows(v) == IF zv[v] \in {Undef, Null} THEN Unset ELSE zv[v]

\* When macro n of ms begins, t holds the value of the statement.
Loaded(ms, n, t) ==
  \E h \in 1..(n - 1) :
    /\ ms[h].op = "STORE" /\ t \in ms[h].vars
    /\ \A j \in (h + 1)..(n - 1) : ~Touches(ms[j], t)

\* Macro n of ms is the one by which the let s assigns its variable: it gets a
\* value made by the let, or that of a zval which nothing has touched yet.
AssignedBy(s, ms, n) ==
  /\ s.op = "let" /\ n \in 1..Len(ms) /\ s.var \in ms[n].vars
  /\ \A j \in (n + 1)..Len(ms) : ~Touches(ms[j], s.var)
  /\ \/ s.by # "copy" /\ ms[n].op = "STORE"
     \/ s.by # "copy" /\ ms[n].op = "CPY_WRT" /\ ms[n].from = {}
     \/ s.by # "copy" /\ ms[n].op = "CPY_WRT" /\ \E t \in Zvals : ms[n].from = {t} /\ Loaded(ms, n, t)
     \/ /\ s.by = "copy" /\ ms[n].op = "CPY_WRT" /\ ms[n].from = s.reads
        /\ \A j \in 1..(n - 1) : \A y \in s.reads : ~Touches(ms[j], y)

\* What s reads is read before anything is done to it.
ReadFirst(s, ms) ==
  \A k \in 1..Len(ms) : ms[k].op = "READ" =>
    /\ ms[k].vars \subseteq s.reads
    /\ \A j \in 1..(k - 1) : \A v \in ms[k].vars : ~Touches(ms[j], v)

Faithful(s, ms) == ReadFirst(s, ms) /\ (s.op = "let" => \E n \in 1..Len(ms) : AssignedBy(s, ms, n))

FaithfulInv == \A p \in 1..(next - 1) : Faithful(method[p], code[p])

\* Where the zval of x may be emptied and the source not.
EmptiedAt(x) == CHOOSE S \in SUBSET (1..(Len(method) + 1)) : EmptyIn(method, x, S)

\* While a statement runs: what it has not touched is what the source has; what
\* it has assigned is what it means; what it stored is there.
SourceKept ==
  \A x \in Variables :
    pc \notin EmptiedAt(x) /\ (\A k \in 1..(step - 1) : ~Touches(Macros[k], x)) => source[x] = Shows(x)
LetDone ==
  \A n \in 1..(step - 1) : AssignedBy(method[pc], Macros, n) =>
    Shows(method[pc].var) = Means(pc)[method[pc].var]
StoredThere ==
  \A t \in Zvals : \A h \in 1..(step - 1) :
    /\ Macros[h].op = "STORE" /\ t \in Macros[h].vars
    /\ \A j \in (h + 1)..(step - 1) : ~Touches(Macros[j], t)
    => zv[t] = pc

ReadsInv ==
  /\ next # End => pc = 1 /\ step = 1 /\ \A x \in Variables : zv[x] = Undef /\ source[x] = Unset
  /\ Running => step <= Len(Macros) + 1 /\ SourceKept /\ LetDone /\ StoredThere

SInv == IInv /\ TouchInv /\ FaithfulInv /\ ReadsInv

-----------------------------------------------------------------------------
\* The compiler.

\* The code added for a statement that means it keeps all of the code faithful.
LEMMA PrintFaithful ==
  ASSUME IInv, FaithfulInv, NEW i, i = next, i < End, NEW ms, Output(i, ms),
         Faithful(method[i], ms)
  PROVE  FaithfulInv'
  <1>1. /\ code \in Seq(Seq(Printed)) /\ Len(code) = next - 1 /\ next \in Nat
        /\ next' = next + 1 /\ code' = Append(code, ms) /\ method' = method
    <2>1. method \in Methods /\ next \in 1..(Len(method) + 1)
      BY DEF IInv, TypeOK, End
    <2>2. Len(method) \in Nat
      BY <2>1, MethodFacts
    <2> QED BY <2>1, <2>2 DEF IInv, TypeOK, Output
  <1>2. \A p \in 1..(next - 1) : code'[p] = code[p]
    BY <1>1
  <1>3. code'[next] = ms
    BY <1>1
  <1>4. Zvals' = Zvals
    BY <1>1 DEF Zvals, Temporaries, Pool, Blocks
  <1>5. \A p \in 1..next : Faithful(method[p], code'[p])
    <2> TAKE p \in 1..next
    <2>1. CASE p = next
      BY <2>1, <1>1, <1>3
    <2>2. CASE p # next
      <3>1. p \in 1..(next - 1)
        BY <2>2, <1>1
      <3> QED BY <3>1, <1>2 DEF FaithfulInv
    <2> QED BY <2>1, <2>2
  <1>6. \A p \in 1..next : Faithful(method[p], code[p])' <=> Faithful(method[p], code'[p])
    BY <1>1, <1>4 DEF Faithful, ReadFirst, AssignedBy, Loaded, Touches
  <1> QED BY <1>1, <1>5, <1>6 DEF FaithfulInv

\* Every let, whatever its expression, is printed as an assignment of its variable.
LEMMA LetFaithful ==
  ASSUME IInv, FaithfulInv, Detected(method), NEW i, i = next,
         \/ LetValue(i) \/ LetNumberOfOwn(i) \/ LetValueOfOwn(i) \/ LetCall(i) \/ LetCallOfOwn(i)
         \/ LetFetch(i) \/ LetFetchOfOwn(i) \/ LetCopy(i) \/ LetItem(i)
  PROVE  FaithfulInv'
  <1> DEFINE s == method[i]
             x == s.var
  <1>1. i < End /\ s.op = "let"
    BY DEF Compiling, LetValue, LetNumberOfOwn, LetValueOfOwn, LetCall, LetCallOfOwn, LetFetch, LetFetchOfOwn,
           LetCopy, LetItem
  <1>2. /\ i \in 1..Len(method) /\ s.reads \subseteq Variables
        /\ Heap(i) \in Zvals /\ Result(i) \in Zvals
    <2>1. i \in 1..Len(method) /\ s \in Statement
      BY <1>1, LoopsKept
    <2> QED BY <2>1, BlocksFacts DEF IInv, Statement
  <1>3. s.by \notin {"copy", "item"} /\ ~Seen(s) => x \notin s.reads
    BY <1>1, <1>2 DEF Detected, Seen
  <1>4. /\ Heap(i) \notin s.reads /\ Result(i) \notin s.reads
        /\ x # Heap(i) /\ x # Result(i)
    <2>1. x \in Variables
      BY <1>1, LoopsKept
    <2> QED BY <1>2, <2>1, VariablesApart
  <1>5. CASE LetValue(i)
    <2> DEFINE ms == <<InitVars({x}), InitNVars({x}), Macro("STORE", {x}), Reads(s)>>
    <2>1. /\ Len(ms) = 4 /\ ms[1].op = "INIT_VAR" /\ ms[2].op = "INIT_NVAR" /\ ms[3].op = "STORE"
          /\ ms[3].vars = {x} /\ ms[4].op = "READ" /\ ms[4].vars = s.reads
          /\ \A k \in 1..3 : ms[k].vars \subseteq {x}
      BY DEF InitVars, InitNVars, Macro, Reads
    <2>2. x \notin s.reads /\ s.by # "copy" /\ Output(i, ms)
      BY <1>3, <1>5 DEF LetValue, Numbers
    <2> HIDE DEF ms
    <2>3. ReadFirst(s, ms)
      BY <2>1, <2>2 DEF ReadFirst, Touches
    <2>4. AssignedBy(s, ms, 3)
      BY <1>1, <2>1, <2>2 DEF AssignedBy, Touches
    <2>5. Faithful(s, ms)
      BY <2>1, <2>3, <2>4 DEF Faithful
    <2> QED BY <1>1, <2>2, <2>5, PrintFaithful
  <1>13. CASE LetNumberOfOwn(i)
    <2> DEFINE ms == <<Reads(s), InitVars({x}), InitNVars({x}), Macro("STORE", {x})>>
    <2>1. /\ Len(ms) = 4 /\ ms[1].op = "READ" /\ ms[1].vars = s.reads
          /\ ms[2].op = "INIT_VAR" /\ ms[3].op = "INIT_NVAR"
          /\ ms[4].op = "STORE" /\ ms[4].vars = {x}
      BY DEF InitVars, InitNVars, Macro, Reads
    <2>2. s.by # "copy" /\ Output(i, ms)
      BY <1>13 DEF LetNumberOfOwn, Numbers
    <2> HIDE DEF ms
    <2>3. ReadFirst(s, ms)
      BY <2>1 DEF ReadFirst, Touches
    <2>4. AssignedBy(s, ms, 4)
      BY <1>1, <2>1, <2>2 DEF AssignedBy, Touches
    <2>5. Faithful(s, ms)
      BY <2>1, <2>3, <2>4 DEF Faithful
    <2> QED BY <1>1, <2>2, <2>5, PrintFaithful
  <1>6. CASE LetValueOfOwn(i)
    <2> DEFINE t == Heap(i)
               ms == <<InitVars({t}), InitNVars({t}), Reads(s), Macro("STORE", {t}), CopyOf(x, {t})>>
    <2>1. /\ Len(ms) = 5 /\ ms[1].op = "INIT_VAR" /\ ms[2].op = "INIT_NVAR" /\ ms[3].op = "READ"
          /\ ms[3].vars = s.reads /\ ms[4].op = "STORE" /\ ms[4].vars = {t}
          /\ ms[5].op = "CPY_WRT" /\ ms[5].vars = {x} /\ ms[5].from = {t}
          /\ \A k \in 1..2 : ms[k].vars \subseteq {t}
      BY DEF InitVars, InitNVars, Macro, Reads, CopyOf
    <2>2. s.by # "copy" /\ Output(i, ms)
      BY <1>6 DEF LetValueOfOwn
    <2> HIDE DEF ms, t
    <2>3. ReadFirst(s, ms)
      BY <1>4, <2>1 DEF ReadFirst, Touches, t
    <2>4. Loaded(ms, 5, t)
      BY <2>1 DEF Loaded, Touches
    <2>5. AssignedBy(s, ms, 5)
      BY <1>1, <1>2, <2>1, <2>2, <2>4 DEF AssignedBy, Touches, t
    <2>6. Faithful(s, ms)
      BY <2>1, <2>3, <2>5 DEF Faithful
    <2> QED BY <1>1, <2>2, <2>6, PrintFaithful
  <1>7. CASE LetCall(i)
    <2> DEFINE ms == <<Macro("NULLIFY", {x}), Reads(s), Macro("STORE", {x})>>
    <2>1. /\ Len(ms) = 3 /\ ms[1].op = "NULLIFY" /\ ms[2].op = "READ" /\ ms[3].op = "STORE"
          /\ ms[1].vars = {x} /\ ms[3].vars = {x} /\ ms[2].vars = s.reads
      BY DEF Macro, Reads
    <2>2. x \notin s.reads /\ s.by # "copy" /\ Output(i, ms)
      BY <1>3, <1>7 DEF LetCall
    <2> HIDE DEF ms
    <2>3. ReadFirst(s, ms)
      BY <2>1, <2>2 DEF ReadFirst, Touches
    <2>4. AssignedBy(s, ms, 3)
      BY <1>1, <2>1, <2>2 DEF AssignedBy, Touches
    <2>5. Faithful(s, ms)
      BY <2>1, <2>3, <2>4 DEF Faithful
    <2> QED BY <1>1, <2>2, <2>5, PrintFaithful
  <1>8. CASE LetCallOfOwn(i)
    <2> DEFINE t == Result(i)
               ms == <<Reads(s), Macro("NULLIFY", {t}), Macro("STORE", {t}), CopyOf(x, {t})>>
    <2>1. /\ Len(ms) = 4 /\ ms[1].op = "READ" /\ ms[1].vars = s.reads /\ ms[2].op = "NULLIFY"
          /\ ms[2].vars = {t} /\ ms[3].op = "STORE" /\ ms[3].vars = {t}
          /\ ms[4].op = "CPY_WRT" /\ ms[4].vars = {x} /\ ms[4].from = {t}
      BY DEF Macro, Reads, CopyOf
    <2>2. s.by # "copy" /\ Output(i, ms)
      BY <1>8 DEF LetCallOfOwn
    <2> HIDE DEF ms, t
    <2>3. ReadFirst(s, ms)
      BY <2>1 DEF ReadFirst, Touches
    <2>4. Loaded(ms, 4, t)
      BY <2>1 DEF Loaded, Touches
    <2>5. AssignedBy(s, ms, 4)
      BY <1>1, <1>2, <2>1, <2>2, <2>4 DEF AssignedBy, Touches, t
    <2>6. Faithful(s, ms)
      BY <2>1, <2>3, <2>5 DEF Faithful
    <2> QED BY <1>1, <2>2, <2>6, PrintFaithful
  <1>9. CASE LetFetch(i)
    <2> DEFINE ms == <<ObsVars({x}), ObsNVars({x}), Reads(s), Macro("STORE", {x})>>
    <2>1. /\ Len(ms) = 4 /\ ms[1].op = "OBS_VAR" /\ ms[2].op = "OBS_NVAR" /\ ms[3].op = "READ"
          /\ ms[3].vars = s.reads /\ ms[4].op = "STORE" /\ ms[4].vars = {x}
          /\ \A k \in 1..2 : ms[k].vars \subseteq {x}
      BY DEF ObsVars, ObsNVars, Macro, Reads
    <2>2. x \notin s.reads /\ s.by # "copy" /\ Output(i, ms)
      BY <1>3, <1>9 DEF LetFetch
    <2> HIDE DEF ms
    <2>3. ReadFirst(s, ms)
      BY <2>1, <2>2 DEF ReadFirst, Touches
    <2>4. AssignedBy(s, ms, 4)
      BY <1>1, <2>1, <2>2 DEF AssignedBy, Touches
    <2>5. Faithful(s, ms)
      BY <2>1, <2>3, <2>4 DEF Faithful
    <2> QED BY <1>1, <2>2, <2>5, PrintFaithful
  <1>10. CASE LetFetchOfOwn(i)
    <2> DEFINE ms == <<Reads(s), CopyOf(x, {})>>
    <2>1. /\ Len(ms) = 2 /\ ms[1].op = "READ" /\ ms[1].vars = s.reads
          /\ ms[2].op = "CPY_WRT" /\ ms[2].vars = {x} /\ ms[2].from = {}
      BY DEF Macro, Reads, CopyOf
    <2>2. s.by # "copy" /\ Output(i, ms)
      BY <1>10 DEF LetFetchOfOwn
    <2> HIDE DEF ms
    <2>3. ReadFirst(s, ms)
      BY <2>1 DEF ReadFirst, Touches
    <2>4. AssignedBy(s, ms, 2)
      BY <1>1, <2>1, <2>2 DEF AssignedBy, Touches
    <2>5. Faithful(s, ms)
      BY <2>1, <2>3, <2>4 DEF Faithful
    <2> QED BY <1>1, <2>2, <2>5, PrintFaithful
  <1>11. CASE LetCopy(i)
    <2> DEFINE ms == <<Reads(s), CopyOf(x, s.reads)>>
    <2>1. /\ Len(ms) = 2 /\ ms[1].op = "READ" /\ ms[1].vars = s.reads
          /\ ms[2].op = "CPY_WRT" /\ ms[2].vars = {x} /\ ms[2].from = s.reads
      BY DEF Macro, Reads, CopyOf
    <2>2. s.by = "copy" /\ Output(i, ms)
      BY <1>11 DEF LetCopy
    <2> HIDE DEF ms
    <2>3. ReadFirst(s, ms)
      BY <2>1 DEF ReadFirst, Touches
    <2>4. AssignedBy(s, ms, 2)
      BY <1>1, <2>1, <2>2 DEF AssignedBy, Touches
    <2>5. Faithful(s, ms)
      BY <2>1, <2>3, <2>4 DEF Faithful
    <2> QED BY <1>1, <2>2, <2>5, PrintFaithful
  <1>12. CASE LetItem(i)
    <2> DEFINE ms == <<Macro("INIT_NVAR", {x}), Macro("STORE", {x})>>
    <2>1. /\ Len(ms) = 2 /\ ms[1].op = "INIT_NVAR" /\ ms[2].op = "STORE" /\ ms[2].vars = {x}
      BY DEF Macro
    <2>2. s.by # "copy" /\ Output(i, ms)
      BY <1>12 DEF LetItem
    <2> HIDE DEF ms
    <2>3. ReadFirst(s, ms)
      BY <2>1 DEF ReadFirst, Touches
    <2>4. AssignedBy(s, ms, 2)
      BY <1>1, <2>1, <2>2 DEF AssignedBy, Touches
    <2>5. Faithful(s, ms)
      BY <2>1, <2>3, <2>4 DEF Faithful
    <2> QED BY <1>1, <2>2, <2>5, PrintFaithful
  <1> QED BY <1>5, <1>6, <1>7, <1>8, <1>9, <1>10, <1>11, <1>12, <1>13

\* A statement that reads before all else, or nothing, and assigns nothing.
LEMMA OtherFaithful ==
  ASSUME IInv, FaithfulInv, NEW i, i = next,
         \/ CompileForVariable(i) \/ CompileForArray(i) \/ CompileForCall(i)
         \/ CompileForIterator(i) \/ CompileEndFor(i) \/ CompileIf(i) \/ CompileWhile(i)
         \/ CompileEndWhile(i) \/ CompileEcho(i) \/ CompileOther(i)
  PROVE  FaithfulInv'
  <1> DEFINE s == method[i]
  <1>1. i < End /\ s.op # "let"
    BY DEF Compiling, CompileForVariable, CompileForArray, CompileForCall, CompileForIterator,
           CompileEndFor, CompileIf, CompileWhile, CompileEndWhile, CompileEcho, CompileOther
  <1>2. CASE CompileForArray(i)
    <2> DEFINE t == HeapArray(i)
               ms == <<InitVars({t}), InitNVars({t}), Reads(s), Macro("STORE", {t})>>
    <2>1. /\ Len(ms) = 4 /\ ms[1].op = "INIT_VAR" /\ ms[2].op = "INIT_NVAR" /\ ms[3].op = "READ"
          /\ ms[3].vars = s.reads /\ ms[4].op = "STORE"
          /\ \A k \in 1..2 : ms[k].vars \subseteq {t}
      BY DEF InitVars, InitNVars, Macro, Reads
    <2>2. Output(i, ms) /\ s.op = "for"
      BY <1>2 DEF CompileForArray, Compiling
    <2>3. t \notin s.reads
      <3>1. s \in Statement
        BY <1>1, <2>2, LoopsKept
      <3> QED BY <3>1, VariablesApart DEF Statement
    <2> HIDE DEF ms, t
    <2>4. ReadFirst(s, ms)
      BY <2>1, <2>3 DEF ReadFirst, Touches
    <2> QED BY <1>1, <2>2, <2>4, PrintFaithful DEF Faithful
  <1>3. CASE ~CompileForArray(i)
    <2>1. PICK ms : /\ Output(i, ms)
                    /\ \A k \in 1..Len(ms) : ms[k].op = "READ" => k = 1 /\ ms[k].vars = s.reads
      <3>1. CASE CompileForCall(i)
        BY <3>1 DEF CompileForCall, Reads, Macro
      <3>2. CASE CompileIf(i)
        <4> DEFINE V == Moved(method, i)
        <4>1. Output(i, <<Reads(s), InitVars(V), InitNVars(V)>>)
          BY <3>2 DEF CompileIf
        <4> HIDE DEF V
        <4> QED BY <4>1 DEF Reads, Macro, InitVars, InitNVars
      <3>3. CASE CompileEndFor(i)
        BY <3>3 DEF CompileEndFor, Macro
      <3>4. CASE CompileForVariable(i) \/ CompileForIterator(i) \/ CompileWhile(i) \/ CompileEcho(i)
        BY <3>4 DEF CompileForVariable, CompileForIterator, CompileWhile, CompileEcho, Reads, Macro
      <3>5. CASE CompileEndWhile(i) \/ CompileOther(i)
        BY <3>5 DEF CompileEndWhile, CompileOther
      <3> QED BY <1>3, <3>1, <3>2, <3>3, <3>4, <3>5
    <2>2. ReadFirst(s, ms)
      BY <2>1 DEF ReadFirst
    <2> QED BY <1>1, <2>1, <2>2, PrintFaithful DEF Faithful
  <1> QED BY <1>2, <1>3

\* Whatever statement is compiled next, its code means it.
LEMMA CompileFaithful ==
  ASSUME IInv, FaithfulInv, Detected(method), Compile(next)
  PROVE  FaithfulInv'
  BY LetFaithful, OtherFaithful DEF Compile

-----------------------------------------------------------------------------
\* The run.

\* A let that has made a value means that value.
LEMMA MeansFacts ==
  ASSUME IInv, Running, method[pc].op = "let"
  PROVE  /\ \A x \in Variables : x # method[pc].var => Means(pc)[x] = source[x]
         /\ method[pc].by # "copy" => Means(pc)[method[pc].var] = pc
         /\ \A y \in Variables : method[pc].by = "copy" /\ method[pc].reads = {y} =>
              Means(pc)[method[pc].var] = source[y]
  <1>1. pc \in 1..Len(method) /\ method[pc] \in Statement
    BY RunFacts, MethodFacts DEF IInv
  <1>2. source \in [Variables -> {Unset} \cup Nat] /\ method[pc].var \in Variables
    BY <1>1 DEF IInv, TypeOK, Statement
  <1> QED BY <1>2 DEF Means

\* The macro at hand is the assignment of the let: what it means is shown.
LEMMA AssignmentShows ==
  ASSUME SInv, EmptiedUnread(method), Running, step <= Len(Macros),
         AssignedBy(method[pc], Macros, step), CpyWrt \/ Store
  PROVE  Shows(method[pc].var)' = Means(pc)[method[pc].var]
  <1> DEFINE s == method[pc]
             x == s.var
  <1>0. IInv /\ ReadsInv /\ SourceKept /\ StoredThere
    BY DEF SInv, ReadsInv
  <1>1. /\ pc \in 1..Len(method) /\ Len(method) \in Nat /\ s \in Statement /\ WellFormed(method)
        /\ step \in 1..Len(Macros) /\ Now = Macros[step] /\ Now.vars \in SUBSET Zvals
        /\ s.op = "let" /\ x \in Now.vars /\ x \in Variables
        /\ zv \in [Zvals -> {Undef, Null} \cup Nat]
    BY <1>0, RunFacts, MacroNow, MethodFacts DEF IInv, TypeOK, AssignedBy, Macros, Statement
  <1>2. x \in Zvals /\ Variables \subseteq Zvals
    BY <1>1 DEF Zvals
  <1>3. ASSUME NEW c \in {Undef, Null} \cup Nat, Write(Now.vars, c)
        PROVE  Shows(x)' = IF c \in {Undef, Null} THEN Unset ELSE c
    <2>1. zv'[x] = c
      BY <1>1, <1>2, <1>3 DEF Write
    <2>2. method' = method /\ pc' = pc
      BY DEF CpyWrt, Store, Advance, compiler
    <2> QED BY <2>1, <2>2 DEF Shows
  <1>4. s.by # "copy" /\ Write(Now.vars, pc) => Shows(x)' = Means(pc)[x]
    <2> SUFFICES ASSUME s.by # "copy", Write(Now.vars, pc)
                 PROVE  Shows(x)' = Means(pc)[x]
      OBVIOUS
    <2>1. Shows(x)' = pc
      BY <1>1, <1>3, ValuesAssumption
    <2> QED BY <1>0, <1>1, <2>1, MeansFacts
  <1>5. CASE Store
    <2>1. Write(Now.vars, pc) /\ Now.op = "STORE"
      BY <1>5 DEF Store, At
    <2>2. s.by # "copy"
      BY <1>1, <2>1 DEF AssignedBy
    <2> QED BY <1>4, <2>1, <2>2
  <1>6. CASE CpyWrt
    <2>1. Now.op = "CPY_WRT"
      BY <1>6 DEF CpyWrt, At
    <2>2. \/ Now.from = {} /\ Write(Now.vars, pc)
          \/ \E y \in Now.from : Write(Now.vars, zv[y])
      BY <1>6 DEF CpyWrt
    <2>3. CASE s.by # "copy" /\ Now.from = {}
      BY <1>4, <2>2, <2>3
    <2>4. ASSUME s.by # "copy", NEW t \in Zvals, Now.from = {t}, Loaded(Macros, step, t)
          PROVE  Shows(x)' = Means(pc)[x]
      <3>1. zv[t] = pc
        BY <1>0, <2>4 DEF Loaded, StoredThere
      <3>2. Write(Now.vars, pc)
        BY <2>2, <2>4, <3>1
      <3> QED BY <1>4, <2>4, <3>2
    <2>5. ASSUME s.by = "copy", Now.from = s.reads,
                 \A j \in 1..(step - 1) : \A y \in s.reads : ~Touches(Macros[j], y)
          PROVE  Shows(x)' = Means(pc)[x]
      <3>1. PICK y \in Variables : s.reads = {y}
        BY <1>1, <2>5 DEF WellFormed
      <3>2. pc \notin EmptiedAt(y)
        <4>1. \E S \in SUBSET (1..(Len(method) + 1)) : EmptyIn(method, y, S)
          BY DEF EmptiedUnread
        <4>2. EmptyIn(method, y, EmptiedAt(y))
          BY <4>1 DEF EmptiedAt
        <4> QED BY <1>1, <3>1, <4>2 DEF EmptyIn
      <3>3. source[y] = Shows(y)
        BY <1>0, <2>5, <3>1, <3>2 DEF SourceKept
      <3>4. Write(Now.vars, zv[y]) /\ zv[y] \in {Undef, Null} \cup Nat
        BY <1>1, <1>2, <2>2, <2>5, <3>1
      <3>5. Shows(x)' = Shows(y)
        BY <1>3, <3>4 DEF Shows
      <3>6. Means(pc)[x] = source[y]
        BY <1>0, <1>1, <2>5, <3>1, MeansFacts
      <3> QED BY <3>3, <3>5, <3>6
    <2> QED BY <1>1, <2>1, <2>3, <2>4, <2>5 DEF AssignedBy
  <1> QED BY <1>5, <1>6

\* The run leaves what the code means as it is.
LEMMA FaithfulKept ==
  ASSUME FaithfulInv, UNCHANGED <<method, next, code>>
  PROVE  FaithfulInv'
  <1>1. Zvals' = Zvals
    BY DEF Zvals, Temporaries, Pool, Blocks
  <1>2. \A p : Faithful(method[p], code[p])' <=> Faithful(method[p], code[p])
    BY <1>1 DEF Faithful, ReadFirst, AssignedBy, Loaded, Touches
  <1> QED BY <1>2 DEF FaithfulInv

\* A macro does to the zvals what the statement means, as far as it has got.
LEMMA MacroReads ==
  ASSUME SInv, EmptiedUnread(method),
         InitVar \/ InitNVar \/ ObsVar \/ ObsNVar \/ Nullify \/ CpyWrt \/ Store \/ Read
  PROVE  FaithfulInv' /\ ReadsInv'
  <1>0. IInv /\ FaithfulInv /\ ReadsInv
    BY DEF SInv
  <1>1. /\ Running /\ step <= Len(Macros) /\ Advance
        /\ \A v \in Zvals : ~Touches(Now, v) => zv'[v] = zv[v]
    BY <1>0, WritesNamed
  <1>2. /\ UNCHANGED <<method, next, code, pc, source>> /\ step' = step + 1
        /\ Zvals' = Zvals /\ End' = End /\ Macros' = Macros /\ Running'
    BY <1>1 DEF Advance, compiler, Zvals, Temporaries, Pool, Blocks, End, Macros, Running
  <1>3. /\ step \in 1..Len(Macros) /\ Now = Macros[step] /\ step \in Nat /\ step' - 1 = step
        /\ Len(Macros) \in Nat /\ Variables \subseteq Zvals /\ Now.vars \in SUBSET Zvals
    BY <1>0, <1>1, <1>2, RunFacts, MacroNow DEF Macros, Zvals
  <1>4. SourceKept /\ LetDone /\ StoredThere
    BY <1>0, <1>1 DEF ReadsInv
  <1>5. \A p : EmptiedAt(p)' = EmptiedAt(p) /\ Means(p)' = Means(p)
    BY <1>2 DEF EmptiedAt, Means
  <1>6. FaithfulInv'
    BY <1>0, <1>2, FaithfulKept
  <1>7. SourceKept'
    <2> SUFFICES ASSUME NEW x \in Variables, pc \notin EmptiedAt(x),
                        \A k \in 1..step : ~Touches(Macros[k], x)
                 PROVE  source[x] = Shows(x)'
      BY <1>2, <1>3, <1>5 DEF SourceKept, Touches
    <2>1. ~Touches(Now, x) /\ \A k \in 1..(step - 1) : ~Touches(Macros[k], x)
      BY <1>3
    <2>2. zv'[x] = zv[x]
      BY <1>1, <1>3, <2>1
    <2>3. source[x] = Shows(x)
      BY <1>4, <2>1 DEF SourceKept
    <2> QED BY <2>2, <2>3 DEF Shows
  <1>8. LetDone'
    <2> SUFFICES ASSUME NEW n \in 1..step, AssignedBy(method[pc], Macros, n)
                 PROVE  Shows(method[pc].var)' = Means(pc)[method[pc].var]
      <3>1. \A n : AssignedBy(method[pc], Macros, n)' <=> AssignedBy(method[pc], Macros, n)
        BY <1>2 DEF AssignedBy, Loaded, Touches
      <3> QED BY <1>2, <1>3, <1>5, <3>1 DEF LetDone
    <2>1. CASE n = step
      <3>1. Now.op \in {"STORE", "CPY_WRT"}
        BY <1>3, <2>1 DEF AssignedBy
      <3>2. CpyWrt \/ Store
        BY <3>1 DEF InitVar, InitNVar, ObsVar, ObsNVar, Nullify, Read, At
      <3> QED BY <1>1, <2>1, <3>2, AssignmentShows
    <2>2. CASE n # step
      <3>1. n \in 1..(step - 1) /\ step \in (n + 1)..Len(Macros)
        BY <1>3, <2>2
      <3>2. ~Touches(Now, method[pc].var)
        BY <1>3, <3>1 DEF AssignedBy
      <3>3. method[pc].var \in Zvals
        BY <1>0, <1>1, RunFacts, MethodFacts DEF IInv, Statement, Zvals
      <3>4. zv'[method[pc].var] = zv[method[pc].var]
        BY <1>1, <3>2, <3>3
      <3>5. Shows(method[pc].var) = Means(pc)[method[pc].var]
        BY <1>4, <3>1 DEF LetDone
      <3> QED BY <1>2, <3>4, <3>5 DEF Shows
    <2> QED BY <2>1, <2>2
  <1>9. StoredThere'
    <2> SUFFICES ASSUME NEW t \in Zvals, NEW h \in 1..step,
                        Macros[h].op = "STORE", t \in Macros[h].vars,
                        \A j \in (h + 1)..step : ~Touches(Macros[j], t)
                 PROVE  zv'[t] = pc
      BY <1>2, <1>3 DEF StoredThere, Touches
    <2>1. CASE h = step
      <3>1. Store
        BY <1>3, <2>1 DEF InitVar, InitNVar, ObsVar, ObsNVar, Nullify, CpyWrt, Read, At
      <3> QED BY <1>3, <2>1, <3>1 DEF Store, Write
    <2>2. CASE h # step
      <3>1. h \in 1..(step - 1) /\ step \in (h + 1)..step
        BY <1>3, <2>2
      <3>2. ~Touches(Now, t) /\ \A j \in (h + 1)..(step - 1) : ~Touches(Macros[j], t)
        BY <1>3, <3>1
      <3>3. zv[t] = pc
        BY <1>4, <3>1, <3>2 DEF StoredThere
      <3> QED BY <1>1, <3>2, <3>3
    <2> QED BY <2>1, <2>2
  <1>10. ReadsInv'
    <2>1. next = End
      BY <1>1 DEF Running
    <2> QED BY <1>2, <1>3, <1>7, <1>8, <1>9, <2>1 DEF ReadsInv
  <1> QED BY <1>6, <1>10

\* Between two statements the source and the zvals agree where nothing is emptied.
LEMMA GoOnReads ==
  ASSUME SInv, EmptiedUnread(method), GoOn
  PROVE  FaithfulInv' /\ ReadsInv'
  <1>0. IInv /\ TouchInv /\ FaithfulInv /\ ReadsInv
    BY DEF SInv
  <1>1. /\ Running /\ step > Len(Macros) /\ pc' \in GoesTo(method, pc) /\ step' = 1
        /\ source' = Means(pc) /\ UNCHANGED <<method, next, code, zv>>
    BY DEF GoOn, compiler, Running
  <1>2. Zvals' = Zvals /\ End' = End /\ \A x : EmptiedAt(x)' = EmptiedAt(x) /\ Shows(x)' = Shows(x)
    BY <1>1 DEF Zvals, Temporaries, Pool, Blocks, End, EmptiedAt, Shows
  <1>3. FaithfulInv'
    BY <1>0, <1>1, FaithfulKept
  <1>4. /\ pc \in 1..Len(method) /\ pc \in 1..(next - 1) /\ Len(method) \in Nat
        /\ Len(Macros) \in Nat /\ step = Len(Macros) + 1
        /\ method[pc] \in Statement /\ SourceKept /\ LetDone
    <2>1. step \in Nat /\ step <= Len(Macros) + 1 /\ SourceKept /\ LetDone
      BY <1>0, <1>1 DEF IInv, TypeOK, ReadsInv
    <2> QED BY <1>0, <1>1, <2>1, RunFacts, MethodFacts DEF IInv, Macros
  <1>5. ASSUME NEW x \in Variables, pc' \notin EmptiedAt(x)
        PROVE  source'[x] = Shows(x)
    <2>1. EmptyIn(method, x, EmptiedAt(x))
      <3>1. \E S \in SUBSET (1..(Len(method) + 1)) : EmptyIn(method, x, S)
        BY DEF EmptiedUnread
      <3> QED BY <3>1 DEF EmptiedAt
    <2>2. ~Empties(method, pc, x) /\ (pc \in EmptiedAt(x) => Assigns(method, pc, x))
      BY <1>1, <1>4, <1>5, <2>1 DEF EmptyIn
    <2>3. CASE Assigns(method, pc, x)
      <3>1. method[pc].op = "let" /\ method[pc].var = x
        BY <2>3 DEF Assigns
      <3>2. PICK n \in 1..Len(Macros) : AssignedBy(method[pc], Macros, n)
        BY <1>0, <1>4, <3>1 DEF FaithfulInv, Faithful, Macros
      <3>3. n \in 1..(step - 1)
        BY <1>4
      <3> QED BY <1>1, <1>4, <3>1, <3>2, <3>3 DEF LetDone
    <2>4. CASE ~Assigns(method, pc, x)
      <3>1. source'[x] = source[x]
        <4>1. CASE method[pc].op = "let"
          BY <1>0, <1>1, <2>4, <4>1, MeansFacts DEF Assigns
        <4>2. CASE method[pc].op # "let"
          BY <1>1, <4>2 DEF Means
        <4> QED BY <4>1, <4>2
      <3>2. x \notin Touched(pc)
        <4>1. x # Heap(pc) /\ x # HeapArray(pc) /\ x # Result(pc)
          BY VariablesApart
        <4> QED BY <2>2, <2>4, <4>1 DEF Touched, Assigns, Empties
      <3>3. \A k \in 1..(step - 1) : ~Touches(Macros[k], x)
        <4>1. TouchesOnly(Macros, Touched(pc)) /\ x \in Zvals
          BY <1>0, <1>4 DEF TouchInv, Macros, Zvals
        <4> QED BY <1>4, <3>2, <4>1 DEF TouchesOnly
      <3> QED BY <1>4, <2>2, <2>4, <3>1, <3>3 DEF SourceKept
    <2> QED BY <2>3, <2>4
  <1>6. Running' => step' <= Len(Macros') + 1 /\ SourceKept' /\ LetDone' /\ StoredThere'
    <2> SUFFICES ASSUME Running'
                 PROVE  step' <= Len(Macros') + 1 /\ SourceKept' /\ LetDone' /\ StoredThere'
      OBVIOUS
    <2>1. Len(Macros') \in Nat
      <3>1. pc' \in 1..Len(method)
        <4>1. pc' \in 1..End
          BY <1>0, <1>1, GoesFacts
        <4> QED BY <1>2, <1>4, <4>1 DEF Running, End
      <3> QED BY <1>0, <1>1, <3>1, RunFacts DEF Macros
    <2>2. 1..(step' - 1) = {}
      BY <1>1
    <2>3. SourceKept'
      BY <1>2, <1>5 DEF SourceKept
    <2> QED BY <1>1, <2>1, <2>2, <2>3 DEF LetDone, StoredThere
  <1>7. ReadsInv'
    <2>1. next = End
      BY <1>1 DEF Running
    <2> QED BY <1>1, <1>2, <1>6, <2>1 DEF ReadsInv
  <1> QED BY <1>3, <1>7

\* A call that fails ends the run, and changes no value.
LEMMA StopReads ==
  ASSUME SInv, CallFails \/ UNCHANGED vars
  PROVE  FaithfulInv' /\ ReadsInv'
  <1>0. IInv /\ FaithfulInv /\ ReadsInv
    BY DEF SInv
  <1>1. UNCHANGED <<method, next, code, zv, source>>
    BY DEF CallFails, compiler, vars
  <1>2. Zvals' = Zvals /\ End' = End /\ \A x : EmptiedAt(x)' = EmptiedAt(x) /\ Shows(x)' = Shows(x)
    BY <1>1 DEF Zvals, Temporaries, Pool, Blocks, End, EmptiedAt, Shows
  <1>3. FaithfulInv'
    BY <1>0, <1>1, FaithfulKept
  <1>4. CASE CallFails
    <2>1. next = End /\ pc' = End
      BY <1>4 DEF CallFails, At
    <2>2. ~Running'
      <3>1. End \in Nat
        BY <1>0, MethodFacts DEF IInv, End
      <3> QED BY <1>2, <2>1, <3>1 DEF Running
    <2> QED BY <1>1, <1>2, <1>3, <2>1, <2>2 DEF ReadsInv
  <1>5. CASE UNCHANGED vars
    <2>1. UNCHANGED <<pc, step>>
      BY <1>5 DEF vars
    <2>2. Macros' = Macros /\ Running' = Running /\ Means(pc)' = Means(pc)
      BY <1>1, <1>2, <2>1 DEF Macros, Running, Means
    <2>3. SourceKept' = SourceKept /\ StoredThere' = StoredThere
      BY <1>1, <1>2, <2>1, <2>2 DEF SourceKept, StoredThere, Touches
    <2>4. \A n : AssignedBy(method[pc], Macros, n)' <=> AssignedBy(method[pc], Macros, n)
      BY <1>1, <1>2, <2>1, <2>2 DEF AssignedBy, Loaded, Touches
    <2>5. LetDone' = LetDone
      BY <1>1, <1>2, <2>1, <2>2, <2>4 DEF LetDone
    <2>6. ReadsInv'
      BY <1>0, <1>1, <1>2, <2>1, <2>2, <2>3, <2>5 DEF ReadsInv
    <2> QED BY <1>3, <2>6
  <1> QED BY <1>4, <1>5

\* Before the method runs, nothing is assigned on either side.
LEMMA CompileReads ==
  ASSUME SInv, Compile(next), IInv'
  PROVE  ReadsInv'
  <1>0. IInv /\ ReadsInv
    BY DEF SInv
  <1>1. next # End /\ UNCHANGED <<method, pc, step, zv, source>>
    <2>1. PICK ms : next < End /\ Output(next, ms)
      BY DEF Compile, LetValue, LetNumberOfOwn, LetValueOfOwn, LetCall, LetCallOfOwn, LetFetch,
        LetFetchOfOwn, LetCopy, LetItem, CompileForVariable, CompileForArray, CompileForCall,
        CompileForIterator, CompileEndFor, CompileIf, CompileWhile, CompileEndWhile,
        CompileEcho, CompileOther, Compiling
    <2>2. End \in Nat /\ next \in Nat
      BY <1>0, MethodFacts DEF IInv, TypeOK, End
    <2> QED BY <2>1, <2>2 DEF Output, running
  <1>2. pc = 1 /\ step = 1 /\ \A x \in Variables : zv[x] = Undef /\ source[x] = Unset
    BY <1>0, <1>1 DEF ReadsInv
  <1>3. Running' => step' <= Len(Macros') + 1 /\ SourceKept' /\ LetDone' /\ StoredThere'
    <2> SUFFICES ASSUME Running'
                 PROVE  step' <= Len(Macros') + 1 /\ SourceKept' /\ LetDone' /\ StoredThere'
      OBVIOUS
    <2>1. Len(Macros') \in Nat
      <3>1. /\ pc' = 1 /\ pc' < End' /\ next' = End' /\ End' = Len(method) + 1
            /\ code' \in Seq(Seq(Printed')) /\ Len(code') = next' - 1
        BY <1>1, <1>2 DEF IInv, TypeOK, Running, End
      <3>2. Len(method) \in Nat
        BY <1>0, MethodFacts DEF IInv
      <3>3. code'[1] \in Seq(Printed')
        BY <3>1, <3>2
      <3> QED BY <3>1, <3>3 DEF Macros
    <2>2. 1..(step' - 1) = {}
      BY <1>1, <1>2
    <2>3. \A x \in Variables : source'[x] = Shows(x)'
      BY <1>1, <1>2 DEF Shows
    <2>4. SourceKept'
      BY <2>3 DEF SourceKept
    <2> QED BY <1>1, <1>2, <2>1, <2>2, <2>4 DEF LetDone, StoredThere
  <1> QED BY <1>1, <1>2, <1>3 DEF ReadsInv

-----------------------------------------------------------------------------
\* At first nothing is printed, and no variable has a value.
LEMMA SInit ==
  ASSUME Init
  PROVE  SInv
  <1>1. IInv /\ TouchInv
    BY TInit DEF TInv
  <1>2. FaithfulInv
    BY DEF Init, FaithfulInv
  <1>3. /\ next = 1 /\ pc = 1 /\ step = 1
        /\ \A x \in Variables : zv[x] = Undef /\ source[x] = Unset
    BY DEF Init, Zvals
  <1>4. ~Running
    BY <1>3 DEF Running, End
  <1> QED BY <1>1, <1>2, <1>3, <1>4 DEF SInv, ReadsInv

\* Every step keeps the source and the zvals together.
LEMMA SStep ==
  ASSUME SInv, ~UnsetCopies,
         \A m \in Methods : ItemsCounted(m) /\ Detected(m) /\ EmptiedUnread(m), [Next]_vars
  PROVE  SInv'
  <1>1. /\ IInv /\ TouchInv /\ FaithfulInv
        /\ ItemsCounted(method) /\ Detected(method) /\ EmptiedUnread(method)
    BY DEF SInv, IInv
  <1>2. IInv'
    BY <1>1, StepKeeps
  <1>3. CASE Compile(next)
    BY <1>1, <1>2, <1>3, CompileTouches, CompileFaithful, CompileReads DEF SInv
  <1>4. CASE Run
    <2>1. UNCHANGED <<method, next, code>>
      BY <1>4 DEF Run, InitVar, InitNVar, ObsVar, ObsNVar, Nullify, CpyWrt, Store, Read,
                  CallFails, GoOn, Advance, compiler
    <2> QED BY <1>1, <1>2, <1>4, <2>1, TouchKept, MacroReads, GoOnReads, StopReads DEF Run, SInv
  <1>5. CASE UNCHANGED vars
    BY <1>1, <1>2, <1>5, TouchKept, StopReads DEF SInv, vars
  <1> QED BY <1>3, <1>4, <1>5 DEF Next

\* For every method in which the detector sees what a let reads of its own
\* variable, and no path reads a variable that was moved out of an if, or cleared
\* after a loop, before it assigns it: whatever an expression reads has the value
\* the source has given it, through every branch, loop, break and call.
THEOREM SameReadsHolds ==
  ASSUME ~UnsetCopies, \A m \in Methods : ItemsCounted(m) /\ Detected(m) /\ EmptiedUnread(m)
  PROVE  Spec => []SameReads
  <1>1. Init => SInv
    BY SInit
  <1>2. SInv /\ [Next]_vars => SInv'
    BY SStep
  <1>3. SInv => SameReads
    <2> SUFFICES ASSUME SInv, At("READ"), NEW v \in Now.vars
                 PROVE  source[v] = Shows(v)
      BY DEF SameReads, Shows
    <2>1. IInv /\ FaithfulInv /\ Running /\ step <= Len(Macros) /\ SourceKept /\ EmptiedUnread(method)
      BY DEF SInv, ReadsInv, At, Running, IInv
    <2>2. /\ step \in 1..Len(Macros) /\ Now = Macros[step] /\ pc \in 1..(next - 1)
          /\ pc \in 1..Len(method) /\ method[pc] \in Statement
      BY <2>1, RunFacts, MacroNow, MethodFacts DEF Macros, IInv
    <2>3. v \in method[pc].reads /\ \A j \in 1..(step - 1) : ~Touches(Macros[j], v)
      <3>1. ReadFirst(method[pc], Macros)
        BY <2>1, <2>2 DEF FaithfulInv, Faithful, Macros
      <3> QED BY <2>2, <3>1 DEF ReadFirst, At
    <2>4. v \in Variables
      BY <2>2, <2>3 DEF Statement
    <2>5. pc \notin EmptiedAt(v)
      <3>1. \E S \in SUBSET (1..(Len(method) + 1)) : EmptyIn(method, v, S)
        BY <2>1, <2>4 DEF EmptiedUnread
      <3>2. EmptyIn(method, v, EmptiedAt(v))
        BY <3>1 DEF EmptiedAt
      <3> QED BY <2>2, <2>3, <3>2 DEF EmptyIn
    <2> QED BY <2>1, <2>3, <2>4, <2>5 DEF SourceKept
  <1> QED BY <1>1, <1>2, <1>3, PTL DEF Spec
-----------------------------------------------------------------------------
(* The values that are not lost.                                           *)

\* When macro n of ms begins, v is as macro h has left it for a value.
PreparedBy(ms, h, n, v) ==
  /\ ms[h].op \in {"INIT_VAR", "INIT_NVAR", "OBS_VAR", "OBS_NVAR", "NULLIFY"} /\ v \in ms[h].vars
  /\ \A j \in (h + 1)..(n - 1) : ~Touches(ms[j], v)
Nulls(ma) == ma.op \in {"INIT_VAR", "INIT_NVAR"}

\* The if at o initialises x for the lets at j and k, the first of its branches.
Waits(x, o, j, k) ==
  /\ method[o].op = "if" /\ x \in Moved(method, o)
  /\ FirstIn(method, o, x, j) /\ FirstIn(method, method[o].to, x, k)

\* A skip is for one of these lets.
SkipsInv ==
  \A x \in Zvals : skips[x] > 0 =>
    /\ x \in Variables
    /\ \E o, j, k \in 1..Len(method) :
         /\ Waits(x, o, j, k) /\ o < next
         /\ (skips[x] = 2 /\ next <= j) \/ (skips[x] = 1 /\ j < next /\ next <= k)

\* What statement p stores is stored in a zval that it has prepared, or an if.
StoresPrepared(p, ms) ==
  \A n \in 1..Len(ms) : ms[n].op = "STORE" => \A v \in ms[n].vars :
    \/ \E h \in 1..(n - 1) : PreparedBy(ms, h, n, v)
    \/ /\ \A h \in 1..(n - 1) : ~Touches(ms[h], v)
       /\ v \in Variables /\ \E o, j, k \in 1..Len(method) : Waits(v, o, j, k) /\ p \in {j, k}

\* An if does prepare what is moved out of it.
IfPrepares(p, ms) ==
  method[p].op = "if" => \A x \in Moved(method, p) :
    \E h \in 1..Len(ms) : Nulls(ms[h]) /\ PreparedBy(ms, h, Len(ms) + 1, x)

PreparedInv == \A p \in 1..(next - 1) : StoresPrepared(p, code[p]) /\ IfPrepares(p, code[p])

\* What is not unset is in the frame; what the statement has prepared is there,
\* and has no value; what waits for the let of a branch is null until then.
InFrame == \A v \in Zvals : zv[v] # Undef => registered[v] > 0
PreparedNow ==
  \A v \in Zvals : \A h \in 1..(step - 1) : PreparedBy(Macros, h, step, v) =>
    registered[v] > 0 /\ zv[v] \notin Nat /\ (Nulls(Macros[h]) => zv[v] = Null)
WaitingNull ==
  \A x \in Variables : \A o, j, k \in 1..Len(method) :
    /\ Waits(x, o, j, k) /\ (pc \in (o + 1)..j \/ pc \in (method[o].to + 1)..k)
    /\ \A h \in 1..(step - 1) : ~Touches(Macros[h], x)
    => zv[x] = Null

OwnedInv ==
  /\ next # End => pc = 1 /\ step = 1
  /\ InFrame
  /\ Running => step <= Len(Macros) + 1 /\ PreparedNow /\ WaitingNull

OInv == IInv /\ TouchInv /\ SkipsInv /\ PreparedInv /\ OwnedInv

-----------------------------------------------------------------------------
\* Branches.

\* What is known of an if that initialises for its branches.
LEMMA WaitsFacts ==
  ASSUME IInv, MovedSafely(method), NEW x, NEW o \in 1..Len(method), NEW j \in 1..Len(method),
         NEW k \in 1..Len(method), Waits(x, o, j, k)
  PROVE  LET e == method[o].to IN
         /\ Len(method) \in Nat /\ method[o].op = "if"
         /\ e \in (o + 1)..Len(method) /\ method[e].op = "else"
         /\ method[e].to \in (e + 1)..Len(method)
         /\ o < j /\ j < e /\ e < k /\ k < method[e].to
         /\ FirstIn(method, o, x, j) /\ FirstIn(method, e, x, k)
         /\ UsesSkip(method, j, x) /\ UsesSkip(method, k, x)
         /\ \A p \in (o + 1)..(e - 1) : UsesSkip(method, p, x) => p = j
  <1> DEFINE e == method[o].to
  <1>1. Len(method) \in Nat /\ WellFormed(method)
    BY MethodFacts DEF IInv
  <1>2. method[o].op = "if" /\ x \in Moved(method, o) /\ FirstIn(method, o, x, j)
        /\ FirstIn(method, e, x, k)
    BY DEF Waits
  <1>3. e \in (o + 1)..Len(method)
    BY <1>1, <1>2 DEF WellFormed
  <1>4. /\ method[e].op = "else"
        /\ \A p, q \in (o + 1)..(e - 1) : UsesSkip(method, p, x) /\ UsesSkip(method, q, x) => p = q
    BY <1>2 DEF MovedSafely
  <1>5. method[e].to \in (e + 1)..Len(method)
    BY <1>1, <1>3, <1>4 DEF WellFormed
  <1>6. \A b, p : FirstIn(method, b, x, p) => b < p /\ p < method[b].to /\ UsesSkip(method, p, x)
    BY DEF FirstIn, UsesSkip, Changes, Assigns
  <1> HIDE DEF e
  <1>7. o < j /\ j < e /\ e < k /\ k < method[e].to
        /\ UsesSkip(method, j, x) /\ UsesSkip(method, k, x)
    BY <1>2, <1>6 DEF e
  <1>8. \A p \in (o + 1)..(e - 1) : UsesSkip(method, p, x) => p = j
    BY <1>1, <1>3, <1>4, <1>7
  <1> QED BY <1>1, <1>2, <1>3, <1>4, <1>5, <1>7, <1>8 DEF e

\* Before the first let of a block nothing in it is moved out of an if.
LEMMA NotMovedBefore ==
  ASSUME IInv, NEW b \in 1..Len(method), NEW x, NEW j \in 1..Len(method),
         FirstIn(method, b, x, j), NEW p \in (b + 1)..(j - 1), method[p].op = "if"
  PROVE  x \notin Moved(method, p)
  <1> SUFFICES ASSUME x \in Moved(method, p)
               PROVE  FALSE
    OBVIOUS
  <1>1. Len(method) \in Nat /\ method[p].to \in Nat /\ p \in 1..(j - 1)
    <2>1. Len(method) \in Nat /\ p \in 1..Len(method)
      BY MethodFacts DEF IInv
    <2> QED BY <2>1, MethodFacts DEF IInv, Statement
  <1>2. p \notin Blocks(method, j)
    BY <1>1 DEF FirstIn, Blocks
  <1>3. method[p].to <= j
    BY <1>1, <1>2 DEF Blocks
  <1>4. PICK q \in (p + 1)..(method[p].to - 1) : method[q].op = "let" /\ method[q].var = x
    BY <1>1, MovedAssigned, ZenonT(60)
  <1>5. q \in (b + 1)..(j - 1) /\ Changes(method, q, x)
    BY <1>1, <1>3, <1>4 DEF Changes
  <1> QED BY <1>5 DEF FirstIn

\* While an if waits for them, its first lets are all that uses up a skip, and
\* no if in it moves the same variable.
LEMMA SkipUse ==
  ASSUME IInv, MovedSafely(method), NEW x, NEW o \in 1..Len(method), NEW j \in 1..Len(method),
         NEW k \in 1..Len(method), Waits(x, o, j, k), NEW p \in (o + 1)..k
  PROVE  /\ UsesSkip(method, p, x) => p \in {j, k}
         /\ method[p].op = "if" => x \notin Moved(method, p)
  <1> DEFINE e == method[o].to
  <1>1. /\ Len(method) \in Nat /\ method[o].op = "if" /\ WellFormed(method)
        /\ e \in (o + 1)..Len(method) /\ method[e].op = "else"
        /\ o < j /\ j < e /\ e < k /\ FirstIn(method, o, x, j) /\ FirstIn(method, e, x, k)
        /\ UsesSkip(method, j, x)
        /\ \A q \in (o + 1)..(e - 1) : UsesSkip(method, q, x) => q = j
    BY WaitsFacts, MethodFacts DEF IInv
  <1>2. \A q : UsesSkip(method, q, x) => Changes(method, q, x) /\ method[q].op \in {"let", "endfor"}
    BY DEF UsesSkip, Changes
  <1> HIDE DEF e
  <1>3. CASE p < j
    <2>1. p \in (o + 1)..(j - 1)
      BY <1>1, <1>3
    <2> QED BY <1>1, <1>2, <2>1, NotMovedBefore DEF FirstIn
  <1>4. CASE p \in {j, k}
    <2>1. method[p].op = "let"
      BY <1>1, <1>4 DEF FirstIn, Assigns
    <2> QED BY <1>4, <2>1
  <1>5. CASE j < p /\ p < e
    <2>1. p \in (o + 1)..(e - 1) /\ p # j /\ p \in 1..Len(method)
      BY <1>1, <1>5
    <2>2. ASSUME method[p].op = "if", x \in Moved(method, p)
          PROVE  FALSE
      <3>1. PICK h \in 1..Len(method) : FirstIn(method, p, x, h)
        BY <2>1, <2>2 DEF MovedSafely
      <3>2. method[p].to < e
        BY <1>1, <2>1, <2>2, Nested DEF e
      <3>3. UsesSkip(method, h, x) /\ p < h /\ h < method[p].to
        BY <3>1 DEF FirstIn, UsesSkip, Changes, Assigns
      <3>4. method[p].to \in Nat
        BY <2>1, MethodFacts DEF IInv, Statement
      <3>5. h \in (o + 1)..(e - 1) /\ h # j
        BY <1>1, <1>5, <2>1, <3>2, <3>3, <3>4
      <3> QED BY <1>1, <3>3, <3>5
    <2> QED BY <1>1, <2>1, <2>2
  <1>6. CASE p = e
    BY <1>1, <1>2, <1>6
  <1>7. CASE e < p /\ p < k
    <2>1. p \in (e + 1)..(k - 1) /\ e \in 1..Len(method)
      BY <1>1, <1>7
    <2> QED BY <1>1, <1>2, <2>1, NotMovedBefore DEF FirstIn
  <1> QED BY <1>1, <1>3, <1>4, <1>5, <1>6, <1>7

\* A block of an if is entered by the if, or comes after its first block.
LEMMA BlockEntered ==
  ASSUME IInv, Running, NEW b \in 1..Len(method), method[b].op \in {"if", "else"},
         NEW p \in GoesTo(method, pc), p \in (b + 1)..(method[b].to - 1)
  PROVE  \/ pc = b /\ p = b + 1
         \/ pc \in (b + 1)..(method[b].to - 1)
         \/ method[pc].op = "if" /\ method[pc].to = b
  <1> DEFINE t == method[b].to
  <1>1. /\ Len(method) \in Nat /\ WellFormed(method) /\ pc \in 1..Len(method)
        /\ method[pc].to \in Nat /\ t \in (b + 1)..Len(method)
    BY RunFacts, MethodFacts DEF IInv, Statement, WellFormed
  <1> SUFFICES ASSUME pc # b, ~(method[pc].op = "if" /\ method[pc].to = b), pc < b \/ pc >= t
               PROVE  FALSE
    <2>1. p # b + 1 => pc # b
      <3>1. CASE pc = b /\ p # b + 1
        <4>1. p = t + 1
          BY <3>1 DEF GoesTo
        <4> QED BY <1>1, <4>1
      <3> QED BY <3>1
    <2> QED BY <1>1, <2>1
  <1>2. p \in (b + 1)..(t - 1)
    OBVIOUS
  <1>3. \/ p = pc + 1
        \/ method[pc].op \in {"if", "else", "while"} /\ p = method[pc].to + 1
        \/ method[pc].op = "break" /\ p = method[pc].to + 1
        \/ method[pc].op = "continue" /\ p = method[pc].to
        \/ method[pc].op = "endwhile" /\ p = method[pc].to
        \/ p = Len(method) + 1
    BY DEF GoesTo
  <1>4. p # pc + 1 /\ p # Len(method) + 1
    BY <1>1, <1>2
  <1>5. CASE method[pc].op \in {"if", "else", "while"} /\ p = method[pc].to + 1
    <2> DEFINE u == method[pc].to
    <2>1. u \in (pc + 1)..Len(method) /\ u # b
      <3>1. u \in (pc + 1)..Len(method)
        BY <1>1, <1>5 DEF WellFormed
      <3>2. /\ method[pc].op = "else" => method[u].op = "endif"
            /\ method[pc].op = "while" => method[u].op = "endwhile"
        BY <1>1, <1>5 DEF WellFormed
      <3> QED BY <1>5, <3>1, <3>2
    <2> HIDE DEF u
    <2>2. p = u + 1
      BY <1>5 DEF u
    <2>3. b < u /\ u < t /\ pc < b
      BY <1>1, <1>2, <2>1, <2>2
    <2>4. t < u
      BY <1>1, <1>5, <2>3, Nested DEF u
    <2> QED BY <1>1, <2>1, <2>3, <2>4
  <1>6. CASE method[pc].op \in {"break", "continue"} /\ p \in {method[pc].to, method[pc].to + 1}
    <2> DEFINE c == method[pc].to
               w == method[c].to
    <2>1. /\ c \in (pc + 1)..Len(method) /\ c \in 1..Len(method)
          /\ method[c].op = "endwhile" /\ w < pc
      BY <1>1, <1>6 DEF WellFormed
    <2>2. w \in 1..(c - 1) /\ method[w].op = "while" /\ method[w].to = c
      BY <1>1, <2>1, LoopLinks
    <2> HIDE DEF c, w
    <2>3. (p = c \/ p = c + 1) /\ c # b
      BY <1>6, <2>1 DEF c
    <2>4. b < c /\ c < t /\ pc < b
      BY <1>1, <1>2, <2>1, <2>3
    <2>5. w \in 1..Len(method) /\ w < b /\ b < method[w].to
      BY <1>1, <2>1, <2>2, <2>4
    <2>6. method[b].to < method[w].to
      BY <2>2, <2>5, Nested
    <2> QED BY <1>1, <2>1, <2>2, <2>4, <2>6
  <1>7. CASE method[pc].op = "endwhile" /\ p = method[pc].to
    <2>1. p \in 1..(pc - 1) /\ method[p].op = "while" /\ method[p].to = pc
      BY <1>1, <1>7 DEF WellFormed
    <2>2. p \in 1..Len(method) /\ b < p /\ p < t
      BY <1>1, <1>2
    <2>3. method[p].to < t
      BY <1>1, <2>1, <2>2, Nested
    <2> QED BY <1>1, <2>1, <2>2, <2>3
  <1> QED BY <1>3, <1>4, <1>5, <1>6, <1>7

\* The statements before the first let are entered by the block, and left by the let.
LEMMA FirstEntered ==
  ASSUME IInv, Running, NEW b \in 1..Len(method), method[b].op \in {"if", "else"},
         NEW x, NEW j \in 1..Len(method), FirstIn(method, b, x, j),
         NEW p \in GoesTo(method, pc), p \in (b + 1)..j
  PROVE  \/ pc = b /\ p = b + 1
         \/ pc \in (b + 1)..(j - 1)
         \/ method[pc].op = "if" /\ method[pc].to = b
  <1>1. /\ Len(method) \in Nat /\ WellFormed(method) /\ pc \in 1..Len(method)
        /\ method[b].to \in (b + 1)..Len(method)
    BY RunFacts, MethodFacts DEF IInv, WellFormed
  <1>2. b < j /\ j < method[b].to /\ method[j].op = "let" /\ Blocks(method, j) = Blocks(method, b) \cup {b}
    BY DEF FirstIn, Assigns
  <1>3. p \in (b + 1)..(method[b].to - 1)
    BY <1>1, <1>2
  <1>4. CASE pc \in (b + 1)..(method[b].to - 1) /\ pc >= j
    <2>1. pc # j
      BY <1>1, <1>2 DEF GoesTo
    <2>2. /\ p < pc /\ method[pc].op = "endwhile" /\ method[p].op = "while" /\ method[p].to = pc
      BY <1>1, <1>4, <2>1, GoesFacts
    <2>3. p # j
      BY <1>2, <2>2
    <2>4. p \in Blocks(method, j)
      BY <1>1, <1>4, <2>1, <2>2, <2>3 DEF Blocks
    <2>5. p \notin Blocks(method, b) \cup {b}
      BY <1>1 DEF Blocks
    <2> QED BY <1>2, <2>4, <2>5
  <1> QED BY <1>1, <1>3, <1>4, BlockEntered

\* An else belongs to one if.
LEMMA OneIf ==
  ASSUME IInv, NEW o \in 1..Len(method), method[o].op = "if", NEW q \in 1..Len(method),
         method[q].op = "if", method[q].to = method[o].to
  PROVE  q = o
  <1>1. /\ Len(method) \in Nat /\ method[o].to \in (o + 1)..Len(method)
        /\ method[q].to \in (q + 1)..Len(method)
    BY MethodFacts DEF IInv, WellFormed
  <1>2. ~(q < o)
    <2> SUFFICES ASSUME q < o PROVE FALSE
      OBVIOUS
    <2> QED BY <1>1, Nested
  <1>3. ~(o < q)
    <2> SUFFICES ASSUME o < q PROVE FALSE
      OBVIOUS
    <2> QED BY <1>1, Nested
  <1> QED BY <1>1, <1>2, <1>3

-----------------------------------------------------------------------------
\* The compiler.

\* A skip that is there is for the statement that uses it up: the let of a branch.
LEMMA SkipAt ==
  ASSUME IInv, SkipsInv, MovedSafely(method), next < End, NEW x \in Zvals, skips[x] > 0,
         UsesSkip(method, next, x) \/ (method[next].op = "if" /\ x \in Moved(method, next))
  PROVE  /\ x \in Variables /\ method[next].op = "let"
         /\ method[next].by \in {"value", "number"} /\ ~Seen(method[next])
         /\ \E o, j, k \in 1..Len(method) :
              /\ Waits(x, o, j, k) /\ o < next
              /\ (next = j /\ skips[x] = 2) \/ (next = k /\ skips[x] = 1)
  <1>1. next \in 1..Len(method) /\ Len(method) \in Nat
    BY MethodFacts DEF IInv, TypeOK, End
  <1>2. PICK o, j, k \in 1..Len(method) :
          /\ Waits(x, o, j, k) /\ o < next
          /\ (skips[x] = 2 /\ next <= j) \/ (skips[x] = 1 /\ j < next /\ next <= k)
    BY DEF SkipsInv
  <1>3. j < k /\ FirstIn(method, o, x, j) /\ FirstIn(method, method[o].to, x, k)
    <2>1. /\ method[o].to \in (o + 1)..Len(method)
          /\ j < method[o].to /\ method[o].to < k
          /\ FirstIn(method, o, x, j) /\ FirstIn(method, method[o].to, x, k)
      BY <1>2, WaitsFacts
    <2> QED BY <1>1, <2>1
  <1>4. next \in (o + 1)..k
    BY <1>1, <1>2, <1>3
  <1>5. next \in {j, k} /\ x \in Variables
    BY <1>2, <1>4, SkipUse DEF SkipsInv
  <1>6. /\ method[next].op = "let" /\ method[next].by \in {"value", "number"}
        /\ ~Seen(method[next])
    BY <1>3, <1>5 DEF FirstIn, Assigns
  <1>7. (next = j /\ skips[x] = 2) \/ (next = k /\ skips[x] = 1)
    BY <1>1, <1>2, <1>3, <1>5
  <1> QED BY <1>2, <1>5, <1>6, <1>7

\* What a statement does to the skips.
SkipsStep ==
  \A x \in Zvals : skips'[x] > 0 =>
    \/ skips'[x] = skips[x] /\ ~UsesSkip(method, next, x)
    \/ skips[x] > 0 /\ skips'[x] = skips[x] - 1 /\ UsesSkip(method, next, x)
    \/ method[next].op = "if" /\ x \in Moved(method, next) /\ (skips[x] = 0 => skips'[x] = 2)

\* The skips a statement leaves are those of the statements to come.
LEMMA SkipsStay ==
  ASSUME IInv, SkipsInv, MovedSafely(method), next < End, method' = method, next' = next + 1,
         SkipsStep
  PROVE  SkipsInv'
  <1>1. /\ next \in 1..Len(method) /\ Len(method) \in Nat /\ skips \in [Zvals -> Nat]
        /\ Zvals' = Zvals
    BY MethodFacts DEF IInv, TypeOK, End, Zvals, Temporaries, Pool, Blocks
  <1>2. \A x, o, j, k : Waits(x, o, j, k)' <=> Waits(x, o, j, k)
    BY DEF Waits
  <1>0. \A x \in Zvals : skips'[x] > 0 =>
          \/ skips'[x] = skips[x] /\ ~UsesSkip(method, next, x)
          \/ skips[x] > 0 /\ skips'[x] = skips[x] - 1 /\ UsesSkip(method, next, x)
          \/ method[next].op = "if" /\ x \in Moved(method, next) /\ (skips[x] = 0 => skips'[x] = 2)
    BY DEF SkipsStep
  <1> SUFFICES ASSUME NEW x \in Zvals, skips'[x] > 0
               PROVE  /\ x \in Variables
                      /\ \E o, j, k \in 1..Len(method) :
                           /\ Waits(x, o, j, k) /\ o < next + 1
                           /\ \/ skips'[x] = 2 /\ next + 1 <= j
                              \/ skips'[x] = 1 /\ j < next + 1 /\ next + 1 <= k
    BY <1>1, <1>2 DEF SkipsInv
  <1>3. CASE skips'[x] = skips[x] /\ ~UsesSkip(method, next, x)
    <2>1. PICK o, j, k \in 1..Len(method) :
            /\ Waits(x, o, j, k) /\ o < next
            /\ (skips[x] = 2 /\ next <= j) \/ (skips[x] = 1 /\ j < next /\ next <= k)
      BY <1>3 DEF SkipsInv
    <2>2. x \in Variables
      BY <1>3 DEF SkipsInv
    <2>3. next # j /\ next # k
      BY <1>3, <2>1, WaitsFacts
    <2> QED BY <1>1, <1>3, <2>1, <2>2, <2>3
  <1>4. CASE skips[x] > 0 /\ skips'[x] = skips[x] - 1 /\ UsesSkip(method, next, x)
    <2>1. x \in Variables
      BY <1>4, SkipAt
    <2>2. PICK o, j, k \in 1..Len(method) :
            /\ Waits(x, o, j, k) /\ o < next
            /\ (next = j /\ skips[x] = 2) \/ (next = k /\ skips[x] = 1)
      BY <1>4, SkipAt
    <2>3. next = j /\ skips'[x] = 1
      BY <1>1, <1>4, <2>2
    <2>4. j < method[o].to /\ method[o].to < k /\ method[o].to \in (o + 1)..Len(method)
      BY <2>2, WaitsFacts
    <2>5. j < k
      BY <1>1, <2>4
    <2> QED BY <1>1, <2>1, <2>2, <2>3, <2>5
  <1>5. CASE method[next].op = "if" /\ x \in Moved(method, next) /\ (skips[x] = 0 => skips'[x] = 2)
    <2>1. skips[x] = 0
      <3>1. ~(skips[x] > 0)
        <4> SUFFICES ASSUME skips[x] > 0 PROVE FALSE
          OBVIOUS
        <4>1. method[next].op = "let"
          BY <1>5, SkipAt
        <4> QED BY <1>5, <4>1
      <3> QED BY <1>1, <3>1
    <2>2. x \in Variables
      BY <1>1, <1>5, MovedFacts DEF IInv
    <2>3. PICK j, k \in 1..Len(method) :
            FirstIn(method, next, x, j) /\ FirstIn(method, method[next].to, x, k)
      BY <1>1, <1>5 DEF MovedSafely
    <2>4. Waits(x, next, j, k) /\ next + 1 <= j
      BY <1>1, <1>5, <2>3 DEF Waits, FirstIn
    <2>5. next < next + 1 /\ skips'[x] = 2
      BY <1>1, <1>5, <2>1
    <2>6. \E o, h, n \in 1..Len(method) :
            Waits(x, o, h, n) /\ o < next + 1 /\ skips'[x] = 2 /\ next + 1 <= h
      BY <1>1, <2>3, <2>4, <2>5
    <2>7. PICK o, h, n \in 1..Len(method) :
            Waits(x, o, h, n) /\ o < next + 1 /\ skips'[x] = 2 /\ next + 1 <= h
      BY <2>6
    <2> QED BY <2>2, <2>7
  <1> QED BY <1>3, <1>4, <1>5, <1>0

\* Compiling a statement keeps the skips for the lets they wait for.
LEMMA CompileSkips ==
  ASSUME IInv, SkipsInv, MovedSafely(method), Compile(next)
  PROVE  SkipsInv'
  <1> DEFINE s == method[next]
  <1>1. next < End /\ method' = method /\ next' = next + 1
    BY DEF Compile, LetValue, LetNumberOfOwn, LetValueOfOwn, LetCall, LetCallOfOwn, LetFetch,
        LetFetchOfOwn, LetCopy, LetItem, CompileForVariable, CompileForArray, CompileForCall,
        CompileForIterator, CompileEndFor, CompileIf, CompileWhile, CompileEndWhile,
        CompileEcho, CompileOther, Compiling, Output
  <1>2. skips \in [Zvals -> Nat] /\ next \in 1..Len(method) /\ Len(method) \in Nat
    BY <1>1, MethodFacts DEF IInv, TypeOK, End
  <1>3. CASE \/ LetValue(next) \/ LetNumberOfOwn(next) \/ LetCall(next) \/ LetFetch(next)
             \/ CompileEndFor(next)
    <2>1. Skipped({s.var}, 0) /\ UsesSkip(method, next, s.var)
      BY <1>3 DEF LetValue, LetNumberOfOwn, Numbers, LetCall, LetFetch, CompileEndFor, Compiling, UsesSkip, Changes
    <2>2. \A x : x # s.var => ~UsesSkip(method, next, x)
      BY DEF UsesSkip, Changes
    <2>3. \A x \in Zvals : skips'[x] = IF x # s.var THEN skips[x]
                                       ELSE IF skips[x] = 0 THEN 0 ELSE skips[x] - 1
      BY <1>2, <2>1 DEF Skipped
    <2>4. SkipsStep
      BY <1>2, <2>1, <2>2, <2>3 DEF SkipsStep
    <2> QED BY <1>1, <2>4, SkipsStay
  <1>4. CASE CompileIf(next)
    <2> DEFINE V == Moved(method, next)
    <2>1. s.op = "if" /\ Skipped(V, 2)
      BY <1>4 DEF CompileIf, Compiling
    <2>2. \A x : ~UsesSkip(method, next, x)
      BY <2>1 DEF UsesSkip, Changes
    <2> HIDE DEF V
    <2>3. \A x \in Zvals : /\ x \notin V => skips'[x] = skips[x]
                           /\ x \in V /\ skips[x] = 0 => skips'[x] = 2
      BY <1>2, <2>1 DEF Skipped
    <2>4. SkipsStep
      BY <1>2, <2>1, <2>2, <2>3 DEF V, SkipsStep
    <2> QED BY <1>1, <2>4, SkipsStay
  <1>5. CASE \/ LetValueOfOwn(next) \/ LetCallOfOwn(next) \/ LetFetchOfOwn(next) \/ LetCopy(next)
             \/ LetItem(next) \/ CompileForVariable(next) \/ CompileForArray(next)
             \/ CompileForCall(next) \/ CompileForIterator(next) \/ CompileWhile(next)
             \/ CompileEndWhile(next) \/ CompileEcho(next) \/ CompileOther(next)
    <2>1. skips' = skips
      BY <1>5 DEF LetValueOfOwn, LetCallOfOwn, LetFetchOfOwn, LetCopy, LetItem,
        CompileForVariable, CompileForArray, CompileForCall, CompileForIterator, CompileWhile,
        CompileEndWhile, CompileEcho, CompileOther
    <2>2. \A x : ~UsesSkip(method, next, x)
      <3>1. \/ s.op \notin {"let", "endfor"}
            \/ s.op = "let" /\ s.by \in {"copy", "item"}
            \/ s.op = "let" /\ Seen(s) /\ s.by \notin Numbers
        BY <1>5 DEF LetValueOfOwn, LetCallOfOwn, LetFetchOfOwn, LetCopy, LetItem,
          CompileForVariable, CompileForArray, CompileForCall, CompileForIterator, CompileWhile,
          CompileEndWhile, CompileEcho, CompileOther, Compiling, Numbers
      <3> QED BY <3>1 DEF UsesSkip, Changes
    <2>4. SkipsStep
      BY <2>1, <2>2 DEF SkipsStep
    <2> QED BY <1>1, <2>4, SkipsStay
  <1> QED BY <1>3, <1>4, <1>5 DEF Compile

\* The code added for a statement that prepares its stores keeps all of it so.
LEMMA PrintPrepared ==
  ASSUME IInv, PreparedInv, NEW i, i = next, i < End, NEW ms, Output(i, ms),
         StoresPrepared(i, ms), IfPrepares(i, ms)
  PROVE  PreparedInv'
  <1>1. /\ code \in Seq(Seq(Printed)) /\ Len(code) = next - 1 /\ next \in Nat
        /\ next' = next + 1 /\ code' = Append(code, ms) /\ method' = method
    <2>1. method \in Methods /\ next \in 1..(Len(method) + 1)
      BY DEF IInv, TypeOK, End
    <2>2. Len(method) \in Nat
      BY <2>1, MethodFacts
    <2> QED BY <2>1, <2>2 DEF IInv, TypeOK, Output
  <1>2. \A p \in 1..(next - 1) : code'[p] = code[p]
    BY <1>1
  <1>3. code'[next] = ms
    BY <1>1
  <1>4. \A p \in 1..next : StoresPrepared(p, code'[p]) /\ IfPrepares(p, code'[p])
    BY <1>1, <1>2, <1>3 DEF PreparedInv
  <1>5. method' = method
    BY <1>1
  <1>6. ASSUME NEW p
        PROVE  StoresPrepared(p, code[p])' <=> StoresPrepared(p, code'[p])
    BY <1>5 DEF StoresPrepared, PreparedBy, Touches, Waits
  <1>7. ASSUME NEW p
        PROVE  IfPrepares(p, code[p])' <=> IfPrepares(p, code'[p])
    BY <1>5 DEF IfPrepares, PreparedBy, Touches, Nulls
  <1>8. 1..(next' - 1) = 1..next
    BY <1>1
  <1>9. \A p \in 1..(next' - 1) : StoresPrepared(p, code[p])' /\ IfPrepares(p, code[p])'
    BY <1>4, <1>6, <1>7, <1>8
  <1> QED BY <1>9 DEF PreparedInv

\* initVariant: one of two macros, and neither is printed for what is skipped.
LEMMA InitPrints ==
  ASSUME NEW V \in SUBSET Zvals, NEW v \in V
  PROVE  /\ InitVars(V).op = "INIT_VAR" /\ InitVars(V).vars \subseteq V
         /\ InitNVars(V).op = "INIT_NVAR" /\ InitNVars(V).vars \subseteq V
         /\ v \in InitVars(V).vars <=> skips[v] = 0 /\ First(v)
         /\ v \in InitNVars(V).vars <=> skips[v] = 0 /\ ~First(v)
  BY DEF InitVars, InitNVars, Macro

\* A let prepares what it stores, or an if has done it.
LEMMA LetPrepared ==
  ASSUME IInv, SkipsInv, PreparedInv, MovedSafely(method), NEW i, i = next,
         \/ LetValue(i) \/ LetNumberOfOwn(i) \/ LetValueOfOwn(i) \/ LetCall(i) \/ LetCallOfOwn(i)
         \/ LetFetch(i) \/ LetFetchOfOwn(i) \/ LetCopy(i) \/ LetItem(i)
  PROVE  PreparedInv'
  <1> DEFINE s == method[i]
             x == s.var
  <1>1. i < End /\ s.op = "let"
    BY DEF Compiling, LetValue, LetNumberOfOwn, LetValueOfOwn, LetCall, LetCallOfOwn, LetFetch, LetFetchOfOwn,
           LetCopy, LetItem
  <1>2. /\ i \in 1..Len(method) /\ x \in Variables /\ x \in Zvals
        /\ Heap(i) \in Zvals /\ Result(i) \in Zvals
        /\ \A ms : IfPrepares(i, ms)
        /\ skips \in [Zvals -> Nat]
    <2>1. i \in 1..Len(method) /\ x \in Variables /\ Variables \subseteq Zvals
      BY <1>1, LoopsKept
    <2> QED BY <1>1, <2>1, BlocksFacts DEF IInv, TypeOK, IfPrepares
  <1>3. skips[Heap(i)] = 0
    <2>1. Heap(i) \notin Variables
      BY VariablesApart
    <2>2. ~(skips[Heap(i)] > 0)
      BY <1>2, <2>1 DEF SkipsInv
    <2> QED BY <1>2, <2>2
  <1>4. UsesSkip(method, i, x) /\ skips[x] # 0 =>
          /\ s.by \in {"value", "number"} /\ ~Seen(s)
          /\ \E o, j, k \in 1..Len(method) : Waits(x, o, j, k) /\ i \in {j, k}
    <2> SUFFICES ASSUME UsesSkip(method, i, x), skips[x] # 0
                 PROVE  /\ s.by \in {"value", "number"} /\ ~Seen(s)
                        /\ \E o, j, k \in 1..Len(method) : Waits(x, o, j, k) /\ i \in {j, k}
      OBVIOUS
    <2>1. skips[x] > 0
      BY <1>2
    <2> QED BY <1>1, <1>2, <2>1, SkipAt
  <1>5. CASE LetValue(i)
    <2> DEFINE ms == <<InitVars({x}), InitNVars({x}), Macro("STORE", {x}), Reads(s)>>
    <2>1. /\ Len(ms) = 4 /\ ms[1] = InitVars({x}) /\ ms[2] = InitNVars({x}) /\ ms[3].op = "STORE"
          /\ ms[3].vars = {x} /\ ms[4].op = "READ"
      BY DEF Macro, Reads
    <2>2. Output(i, ms) /\ UsesSkip(method, i, x)
      BY <1>1, <1>5 DEF LetValue, UsesSkip, Changes, Numbers
    <2> HIDE DEF ms
    <2>3. /\ ms[1].op = "INIT_VAR" /\ ms[2].op = "INIT_NVAR"
          /\ x \in ms[1].vars <=> skips[x] = 0 /\ First(x)
          /\ x \in ms[2].vars <=> skips[x] = 0 /\ ~First(x)
      BY <1>2, <2>1, InitPrints
    <2>4. CASE skips[x] = 0
      <3>1. (PreparedBy(ms, 1, 3, x) /\ 1 \in 1..2) \/ (PreparedBy(ms, 2, 3, x) /\ 2 \in 1..2)
        BY <2>3, <2>4 DEF PreparedBy, Touches
      <3>2. \E h \in 1..2 : PreparedBy(ms, h, 3, x)
        BY <3>1
      <3>3. StoresPrepared(i, ms)
        BY <2>1, <2>3, <3>2 DEF StoresPrepared
      <3> QED BY <1>1, <1>2, <2>2, <3>3, PrintPrepared
    <2>5. CASE skips[x] # 0
      <3>1. \A h \in 1..2 : ~Touches(ms[h], x)
        BY <2>3, <2>5 DEF Touches
      <3>2. StoresPrepared(i, ms)
        BY <1>2, <1>4, <2>1, <2>2, <2>3, <2>5, <3>1 DEF StoresPrepared
      <3> QED BY <1>1, <1>2, <2>2, <3>2, PrintPrepared
    <2> QED BY <2>4, <2>5
  <1>12. CASE LetNumberOfOwn(i)
    <2> DEFINE ms == <<Reads(s), InitVars({x}), InitNVars({x}), Macro("STORE", {x})>>
    <2>1. /\ Len(ms) = 4 /\ ms[1].op = "READ" /\ ms[2] = InitVars({x}) /\ ms[3] = InitNVars({x})
          /\ ms[4].op = "STORE" /\ ms[4].vars = {x}
      BY DEF Macro, Reads
    <2>2. Output(i, ms) /\ UsesSkip(method, i, x) /\ Seen(s)
      BY <1>1, <1>12 DEF LetNumberOfOwn, UsesSkip, Changes, Numbers
    <2> HIDE DEF ms
    <2>3. skips[x] = 0
      BY <1>4, <2>2
    <2>4. /\ ms[2].op = "INIT_VAR" /\ ms[3].op = "INIT_NVAR"
          /\ x \in ms[2].vars <=> First(x)
          /\ x \in ms[3].vars <=> ~First(x)
      BY <1>2, <2>1, <2>3, InitPrints
    <2>5. (PreparedBy(ms, 2, 4, x) /\ 2 \in 1..3) \/ (PreparedBy(ms, 3, 4, x) /\ 3 \in 1..3)
      BY <2>1, <2>4 DEF PreparedBy, Touches
    <2>6. \E h \in 1..3 : PreparedBy(ms, h, 4, x)
      BY <2>5
    <2>7. StoresPrepared(i, ms)
      BY <2>1, <2>4, <2>6 DEF StoresPrepared
    <2> QED BY <1>1, <1>2, <2>2, <2>7, PrintPrepared
  <1>6. CASE LetValueOfOwn(i)
    <2> DEFINE t == Heap(i)
               ms == <<InitVars({t}), InitNVars({t}), Reads(s), Macro("STORE", {t}), CopyOf(x, {t})>>
    <2>1. /\ Len(ms) = 5 /\ ms[1] = InitVars({t}) /\ ms[2] = InitNVars({t}) /\ ms[3].op = "READ"
          /\ ms[4].op = "STORE" /\ ms[4].vars = {t} /\ ms[5].op = "CPY_WRT"
      BY DEF Macro, Reads, CopyOf
    <2>2. Output(i, ms)
      BY <1>6 DEF LetValueOfOwn
    <2> HIDE DEF ms
    <2>3. /\ ms[1].op = "INIT_VAR" /\ ms[2].op = "INIT_NVAR"
          /\ t \in ms[1].vars <=> First(t)
          /\ t \in ms[2].vars <=> ~First(t)
      BY <1>2, <1>3, <2>1, InitPrints
    <2>4. (PreparedBy(ms, 1, 4, t) /\ 1 \in 1..3) \/ (PreparedBy(ms, 2, 4, t) /\ 2 \in 1..3)
      BY <2>1, <2>3 DEF PreparedBy, Touches
    <2>5. \E h \in 1..3 : PreparedBy(ms, h, 4, t)
      BY <2>4
    <2>6. StoresPrepared(i, ms)
      BY <2>1, <2>3, <2>5 DEF StoresPrepared
    <2> QED BY <1>1, <1>2, <2>2, <2>6, PrintPrepared
  <1>7. CASE LetCall(i)
    <2> DEFINE ms == <<Macro("NULLIFY", {x}), Reads(s), Macro("STORE", {x})>>
    <2>1. /\ Len(ms) = 3 /\ ms[1].op = "NULLIFY" /\ ms[2].op = "READ" /\ ms[3].op = "STORE"
          /\ ms[1].vars = {x} /\ ms[3].vars = {x}
      BY DEF Macro, Reads
    <2>2. Output(i, ms)
      BY <1>7 DEF LetCall
    <2> HIDE DEF ms
    <2>3. PreparedBy(ms, 1, 3, x) /\ 1 \in 1..2
      BY <2>1 DEF PreparedBy, Touches
    <2>4. StoresPrepared(i, ms)
      BY <2>1, <2>3 DEF StoresPrepared
    <2> QED BY <1>1, <1>2, <2>2, <2>4, PrintPrepared
  <1>8. CASE LetCallOfOwn(i)
    <2> DEFINE t == Result(i)
               ms == <<Reads(s), Macro("NULLIFY", {t}), Macro("STORE", {t}), CopyOf(x, {t})>>
    <2>1. /\ Len(ms) = 4 /\ ms[1].op = "READ" /\ ms[2].op = "NULLIFY"
          /\ ms[2].vars = {t} /\ ms[3].op = "STORE" /\ ms[3].vars = {t} /\ ms[4].op = "CPY_WRT"
      BY DEF Macro, Reads, CopyOf
    <2>2. Output(i, ms)
      BY <1>8 DEF LetCallOfOwn
    <2> HIDE DEF ms, t
    <2>3. PreparedBy(ms, 2, 3, t) /\ 2 \in 1..2
      BY <2>1 DEF PreparedBy, Touches
    <2>4. StoresPrepared(i, ms)
      BY <2>1, <2>3 DEF StoresPrepared
    <2> QED BY <1>1, <1>2, <2>2, <2>4, PrintPrepared
  <1>9. CASE LetFetch(i)
    <2> DEFINE ms == <<ObsVars({x}), ObsNVars({x}), Reads(s), Macro("STORE", {x})>>
    <2>1. /\ Len(ms) = 4 /\ ms[1].op = "OBS_VAR" /\ ms[2].op = "OBS_NVAR" /\ ms[3].op = "READ"
          /\ ms[4].op = "STORE" /\ ms[4].vars = {x}
          /\ x \in ms[1].vars <=> skips[x] = 0 /\ First(x)
          /\ x \in ms[2].vars <=> skips[x] = 0 /\ ~First(x)
      BY DEF ObsVars, ObsNVars, Macro, Reads
    <2>2. Output(i, ms) /\ UsesSkip(method, i, x) /\ s.by = "fetch"
      BY <1>1, <1>9 DEF LetFetch, UsesSkip, Changes
    <2> HIDE DEF ms
    <2>3. skips[x] = 0
      BY <1>4, <2>2
    <2>4. (PreparedBy(ms, 1, 4, x) /\ 1 \in 1..3) \/ (PreparedBy(ms, 2, 4, x) /\ 2 \in 1..3)
      BY <2>1, <2>3 DEF PreparedBy, Touches
    <2>5. \E h \in 1..3 : PreparedBy(ms, h, 4, x)
      BY <2>4
    <2>6. StoresPrepared(i, ms)
      BY <2>1, <2>5 DEF StoresPrepared
    <2> QED BY <1>1, <1>2, <2>2, <2>6, PrintPrepared
  <1>10. CASE LetFetchOfOwn(i) \/ LetCopy(i)
    <2>1. PICK y : Output(i, <<Reads(s), CopyOf(x, y)>>)
      BY <1>10 DEF LetFetchOfOwn, LetCopy
    <2>2. StoresPrepared(i, <<Reads(s), CopyOf(x, y)>>)
      BY DEF StoresPrepared, Reads, CopyOf, Macro
    <2> QED BY <1>1, <1>2, <2>1, <2>2, PrintPrepared
  <1>11. CASE LetItem(i)
    <2> DEFINE ms == <<Macro("INIT_NVAR", {x}), Macro("STORE", {x})>>
    <2>1. /\ Len(ms) = 2 /\ ms[1].op = "INIT_NVAR" /\ ms[1].vars = {x}
          /\ ms[2].op = "STORE" /\ ms[2].vars = {x}
      BY DEF Macro
    <2>2. Output(i, ms)
      BY <1>11 DEF LetItem
    <2> HIDE DEF ms
    <2>3. PreparedBy(ms, 1, 2, x) /\ 1 \in 1..1
      BY <2>1 DEF PreparedBy, Touches
    <2>4. StoresPrepared(i, ms)
      BY <2>1, <2>3 DEF StoresPrepared
    <2> QED BY <1>1, <1>2, <2>2, <2>4, PrintPrepared
  <1> QED BY <1>5, <1>6, <1>7, <1>8, <1>9, <1>10, <1>11, <1>12

\* A for over an array prepares the temporary it stores.
LEMMA ForPrepared ==
  ASSUME IInv, SkipsInv, PreparedInv, NEW i, i = next,
         \/ CompileForVariable(i) \/ CompileForArray(i) \/ CompileForCall(i)
         \/ CompileForIterator(i)
  PROVE  PreparedInv'
  <1> DEFINE s == method[i]
  <1>1. i < End /\ s.op = "for" /\ \A ms : IfPrepares(i, ms)
    BY DEF Compiling, CompileForVariable, CompileForArray, CompileForCall, CompileForIterator,
           IfPrepares
  <1>2. i \in 1..Len(method) /\ HeapArray(i) \in Zvals /\ skips \in [Zvals -> Nat]
    <2>1. i \in 1..Len(method)
      BY <1>1, LoopsKept
    <2> QED BY <2>1, BlocksFacts DEF IInv, TypeOK
  <1>3. CASE CompileForVariable(i) \/ CompileForIterator(i)
    <2>1. StoresPrepared(i, <<Reads(s)>>)
      BY DEF StoresPrepared, Reads, Macro
    <2> QED BY <1>1, <1>3, <2>1, PrintPrepared DEF CompileForVariable, CompileForIterator
  <1>4. CASE CompileForArray(i)
    <2> DEFINE t == HeapArray(i)
               ms == <<InitVars({t}), InitNVars({t}), Reads(s), Macro("STORE", {t})>>
    <2>1. /\ Len(ms) = 4 /\ ms[1] = InitVars({t}) /\ ms[2] = InitNVars({t}) /\ ms[3].op = "READ"
          /\ ms[4].op = "STORE" /\ ms[4].vars = {t}
      BY DEF Macro, Reads
    <2>2. Output(i, ms)
      BY <1>4 DEF CompileForArray
    <2> HIDE DEF ms
    <2>3. skips[t] = 0
      <3>1. t \notin Variables
        BY VariablesApart
      <3>2. ~(skips[t] > 0)
        BY <1>2, <3>1 DEF SkipsInv
      <3> QED BY <1>2, <3>2
    <2>4. /\ ms[1].op = "INIT_VAR" /\ ms[2].op = "INIT_NVAR"
          /\ t \in ms[1].vars <=> First(t)
          /\ t \in ms[2].vars <=> ~First(t)
      BY <1>2, <2>1, <2>3, InitPrints
    <2>5. (PreparedBy(ms, 1, 4, t) /\ 1 \in 1..3) \/ (PreparedBy(ms, 2, 4, t) /\ 2 \in 1..3)
      BY <2>1, <2>4 DEF PreparedBy, Touches
    <2>6. \E h \in 1..3 : PreparedBy(ms, h, 4, t)
      BY <2>5
    <2>7. StoresPrepared(i, ms)
      BY <2>1, <2>4, <2>6 DEF StoresPrepared
    <2> QED BY <1>1, <2>2, <2>7, PrintPrepared
  <1>5. CASE CompileForCall(i)
    <2> DEFINE t == Result(i)
               ms == <<Reads(s), Macro("NULLIFY", {t}), Macro("STORE", {t})>>
    <2>1. /\ Len(ms) = 3 /\ ms[1].op = "READ" /\ ms[2].op = "NULLIFY"
          /\ ms[2].vars = {t} /\ ms[3].op = "STORE" /\ ms[3].vars = {t}
      BY DEF Macro, Reads
    <2>2. Output(i, ms)
      BY <1>5 DEF CompileForCall
    <2> HIDE DEF ms, t
    <2>3. PreparedBy(ms, 2, 3, t) /\ 2 \in 1..2
      BY <2>1 DEF PreparedBy, Touches
    <2>4. StoresPrepared(i, ms)
      BY <2>1, <2>3 DEF StoresPrepared
    <2> QED BY <1>1, <2>2, <2>4, PrintPrepared
  <1> QED BY <1>3, <1>4, <1>5

\* Whatever statement is compiled next, its code prepares what it stores.
LEMMA CompilePrepared ==
  ASSUME IInv, SkipsInv, PreparedInv, MovedSafely(method), Compile(next)
  PROVE  PreparedInv'
  <1> DEFINE i == next
             s == method[i]
  <1>1. CASE CompileIf(i)
    <2> DEFINE V == Moved(method, i)
               ms == <<Reads(s), InitVars(V), InitNVars(V)>>
    <2>1. /\ Len(ms) = 3 /\ ms[1].op = "READ" /\ ms[2] = InitVars(V) /\ ms[3] = InitNVars(V)
      BY DEF Macro, Reads
    <2>2. i < End /\ s.op = "if" /\ Output(i, ms)
      BY <1>1 DEF CompileIf, Compiling
    <2>3. i \in 1..Len(method) /\ Len(method) \in Nat /\ skips \in [Zvals -> Nat]
      BY <2>2, MethodFacts DEF IInv, TypeOK, End
    <2>4. V \in SUBSET Zvals
      BY <2>2, <2>3, MovedFacts DEF IInv, Zvals
    <2>5. \A v \in V : skips[v] = 0
      <3> SUFFICES ASSUME NEW v \in V, skips[v] > 0 PROVE FALSE
        BY <2>3, <2>4
      <3>1. s.op = "let"
        BY <2>2, <2>4, SkipAt
      <3> QED BY <2>2, <3>1
    <2>6. ms[2].op = "INIT_VAR" /\ ms[3].op = "INIT_NVAR"
      BY <2>1 DEF InitVars, InitNVars, Macro
    <2> HIDE DEF ms
    <2>7. IfPrepares(i, ms)
      <3> SUFFICES ASSUME NEW x \in V
                   PROVE  \E h \in 1..3 : Nulls(ms[h]) /\ PreparedBy(ms, h, 4, x)
        BY <2>1 DEF IfPrepares
      <3>1. /\ x \in ms[2].vars <=> First(x)
            /\ x \in ms[3].vars <=> ~First(x)
        BY <2>1, <2>4, <2>5, InitPrints
      <3>2. \/ Nulls(ms[2]) /\ PreparedBy(ms, 2, 4, x) /\ 2 \in 1..3
            \/ Nulls(ms[3]) /\ PreparedBy(ms, 3, 4, x) /\ 3 \in 1..3
        BY <2>6, <3>1 DEF PreparedBy, Touches, Nulls
      <3> QED BY <3>2
    <2>8. StoresPrepared(i, ms)
      BY <2>1, <2>6 DEF StoresPrepared
    <2> QED BY <2>2, <2>7, <2>8, PrintPrepared
  <1>2. CASE CompileEndFor(i) \/ CompileWhile(i) \/ CompileEndWhile(i) \/ CompileEcho(i) \/ CompileOther(i)
    <2>1. PICK ms : /\ i < End /\ Output(i, ms) /\ s.op # "if"
                    /\ \A n \in 1..Len(ms) : ms[n].op # "STORE"
      <3>1. CASE CompileEndFor(i)
        BY <3>1 DEF CompileEndFor, Macro, Compiling
      <3>2. CASE CompileWhile(i) \/ CompileEcho(i)
        BY <3>2 DEF CompileWhile, CompileEcho, Reads, Macro, Compiling
      <3>3. CASE CompileEndWhile(i) \/ CompileOther(i)
        BY <3>3 DEF CompileEndWhile, CompileOther, Compiling
      <3> QED BY <1>2, <3>1, <3>2, <3>3
    <2>2. StoresPrepared(i, ms) /\ IfPrepares(i, ms)
      BY <2>1 DEF StoresPrepared, IfPrepares
    <2> QED BY <2>1, <2>2, PrintPrepared
  <1> QED BY <1>1, <1>2, LetPrepared, ForPrepared DEF Compile

-----------------------------------------------------------------------------
\* The run.

\* What a macro does to the zvals it names.
LEMMA MacroDoes ==
  ASSUME IInv, InFrame,
         InitVar \/ InitNVar \/ ObsVar \/ ObsNVar \/ Nullify \/ CpyWrt \/ Store \/ Read
  PROVE  /\ \A v \in Zvals : registered[v] > 0 => registered'[v] > 0
         /\ ~Store => \A v \in Zvals : Touches(Now, v) => registered'[v] > 0
         /\ Now.op \in {"INIT_VAR", "INIT_NVAR", "OBS_VAR", "OBS_NVAR", "NULLIFY"} =>
              \A v \in Now.vars : /\ registered'[v] > 0 /\ zv'[v] \notin Nat
                                  /\ Nulls(Now) => zv'[v] = Null
  <1> DEFINE V == Now.vars
  <1>1. /\ Running /\ step <= Len(Macros) /\ V \in SUBSET Zvals /\ Unused(V) \in SUBSET V
    <2>1. Running /\ step <= Len(Macros)
      BY WritesNamed
    <2> QED BY <2>1, MacroNow DEF Unused
  <1>2. registered \in [Zvals -> Nat] /\ zv \in [Zvals -> {Undef, Null} \cup Nat]
    BY DEF IInv, TypeOK
  <1>3. \A W : Register(W) => \A v \in Zvals : /\ registered[v] > 0 => registered'[v] > 0
                                               /\ v \in W => registered'[v] > 0
    BY <1>2 DEF Register
  <1>4. ASSUME Register(Unused(V))
        PROVE  \A v \in V : registered'[v] > 0
    <2> SUFFICES ASSUME NEW v \in V PROVE registered'[v] > 0
      OBVIOUS
    <2>1. CASE zv[v] = Undef
      BY <1>1, <1>3, <1>4, <2>1 DEF Unused
    <2>2. CASE zv[v] # Undef
      BY <1>1, <1>3, <1>4, <2>2 DEF InFrame
    <2> QED BY <2>1, <2>2
  <1>5. Null \notin Nat /\ Undef \notin Nat
    BY ValuesAssumption
  <1>6. CASE InitVar
    <2>1. Now.op = "INIT_VAR" /\ Register(V) /\ Write(V, Null)
      BY <1>6 DEF InitVar, At
    <2>2. \A v \in V : zv'[v] = Null /\ registered'[v] > 0
      BY <1>1, <1>3, <2>1 DEF Write
    <2> QED BY <1>1, <1>3, <1>5, <2>1, <2>2 DEF Touches
  <1>7. CASE InitNVar
    <2>1. Now.op = "INIT_NVAR" /\ Register(Unused(V)) /\ Write(V, Null)
      BY <1>7 DEF InitNVar, At
    <2>2. \A v \in V : zv'[v] = Null
      BY <1>1, <2>1 DEF Write
    <2> QED BY <1>1, <1>3, <1>4, <1>5, <2>1, <2>2 DEF Touches
  <1>8. CASE ObsVar
    <2>1. Now.op = "OBS_VAR" /\ Register(V) /\ zv' = zv
      BY <1>8 DEF ObsVar, At
    <2>2. \A v \in V : zv[v] \notin Nat
      <3> SUFFICES ASSUME NEW v \in V PROVE zv[v] = Undef
        BY <1>5
      <3>1. registered[v] = 0
        BY <1>1, <2>1, FirstIsFirst DEF FirstUse
      <3> QED BY <1>1, <1>2, <3>1 DEF InFrame
    <2> QED BY <1>1, <1>3, <2>1, <2>2 DEF Touches, Nulls
  <1>9. CASE ObsNVar
    <2>1. Now.op = "OBS_NVAR" /\ Register(Unused(V)) /\ Write(V \ Unused(V), Null)
      BY <1>9 DEF ObsNVar, At
    <2>2. \A v \in V : zv'[v] \in {Undef, Null}
      BY <1>1, <2>1 DEF Write, Unused
    <2> QED BY <1>1, <1>3, <1>4, <1>5, <2>1, <2>2 DEF Touches, Nulls
  <1>10. CASE Nullify
    <2>1. Now.op = "NULLIFY" /\ Register(Unused(V)) /\ Write(V, Undef)
      BY <1>10 DEF Nullify, At
    <2>2. \A v \in V : zv'[v] = Undef
      BY <1>1, <2>1 DEF Write
    <2> QED BY <1>1, <1>3, <1>4, <1>5, <2>1, <2>2 DEF Touches, Nulls
  <1>11. CASE CpyWrt
    <2>1. Now.op = "CPY_WRT" /\ Register(Unused(V))
      BY <1>11 DEF CpyWrt, At
    <2> QED BY <1>1, <1>3, <1>4, <2>1 DEF Touches
  <1>12. CASE Store \/ Read
    <2>1. registered' = registered /\ Now.op \in {"STORE", "READ"}
      BY <1>12 DEF Store, Read, At
    <2>2. Now.op = "STORE" => Store
      BY <1>12 DEF Read, At
    <2> QED BY <2>1, <2>2 DEF Touches
  <1> QED BY <1>6, <1>7, <1>8, <1>9, <1>10, <1>11, <1>12

\* A value is stored in a zval that is in the frame and has none.
LEMMA StoreOwned ==
  ASSUME OInv, MovedSafely(method), At("STORE"), NEW v \in Now.vars
  PROVE  registered[v] > 0 /\ zv[v] \notin Nat
  <1>1. /\ IInv /\ PreparedInv /\ InFrame /\ Running /\ step <= Len(Macros)
        /\ PreparedNow /\ WaitingNull /\ Now.op = "STORE"
    BY DEF OInv, OwnedInv, At, Running
  <1>2. /\ step \in 1..Len(Macros) /\ Now = Macros[step] /\ pc \in 1..(next - 1)
        /\ pc \in 1..Len(method) /\ v \in Zvals
    BY <1>1, RunFacts, MacroNow DEF Macros
  <1>3. StoresPrepared(pc, Macros)
    BY <1>1, <1>2 DEF PreparedInv, Macros
  <1>4. CASE \E h \in 1..(step - 1) : PreparedBy(Macros, h, step, v)
    BY <1>1, <1>2, <1>4 DEF PreparedNow
  <1>5. CASE /\ \A h \in 1..(step - 1) : ~Touches(Macros[h], v)
             /\ v \in Variables
             /\ \E o, j, k \in 1..Len(method) : Waits(v, o, j, k) /\ pc \in {j, k}
    <2>1. PICK o, j, k \in 1..Len(method) : Waits(v, o, j, k) /\ pc \in {j, k}
      BY <1>5
    <2>2. /\ o < j /\ method[o].to < k
          /\ method[o].to \in (o + 1)..Len(method) /\ Len(method) \in Nat
      BY <1>1, <2>1, WaitsFacts
    <2>3. pc \in (o + 1)..j \/ pc \in (method[o].to + 1)..k
      BY <1>2, <2>1, <2>2
    <2>4. zv[v] = Null
      BY <1>1, <1>5, <2>1, <2>3 DEF WaitingNull
    <2> QED BY <1>1, <1>2, <2>4, ValuesAssumption DEF InFrame
  <1> QED BY <1>1, <1>2, <1>3, <1>4, <1>5 DEF StoresPrepared

\* A macro stores in what is prepared, and keeps what waits null.
LEMMA MacroOwned ==
  ASSUME OInv, MovedSafely(method),
         InitVar \/ InitNVar \/ ObsVar \/ ObsNVar \/ Nullify \/ CpyWrt \/ Store \/ Read
  PROVE  OwnedInv'
  <1>0. IInv /\ OwnedInv /\ InFrame
    BY DEF OInv, OwnedInv
  <1>1. /\ Running /\ step <= Len(Macros) /\ Advance
        /\ \A v \in Zvals : ~Touches(Now, v) => zv'[v] = zv[v]
    BY <1>0, WritesNamed
  <1>2. /\ UNCHANGED <<method, next, code, pc>> /\ step' = step + 1
        /\ Zvals' = Zvals /\ End' = End /\ Macros' = Macros /\ Running'
    BY <1>1 DEF Advance, compiler, Zvals, Temporaries, Pool, Blocks, End, Macros, Running
  <1>3. /\ step \in 1..Len(Macros) /\ Now = Macros[step] /\ step \in Nat /\ step' - 1 = step
        /\ Len(Macros) \in Nat /\ Variables \subseteq Zvals /\ Now.vars \in SUBSET Zvals
    BY <1>0, <1>1, <1>2, RunFacts, MacroNow DEF Macros, Zvals
  <1>4. PreparedNow /\ WaitingNull
    BY <1>0, <1>1 DEF OwnedInv
  <1>5. /\ \A v \in Zvals : registered[v] > 0 => registered'[v] > 0
        /\ ~Store => \A v \in Zvals : Touches(Now, v) => registered'[v] > 0
        /\ Now.op \in {"INIT_VAR", "INIT_NVAR", "OBS_VAR", "OBS_NVAR", "NULLIFY"} =>
             \A v \in Now.vars : /\ registered'[v] > 0 /\ zv'[v] \notin Nat
                                 /\ Nulls(Now) => zv'[v] = Null
    BY <1>0, MacroDoes
  <1>6. InFrame'
    <2> SUFFICES ASSUME NEW v \in Zvals, zv'[v] # Undef
                 PROVE  registered'[v] > 0
      BY <1>2 DEF InFrame
    <2>1. CASE ~Touches(Now, v)
      BY <1>0, <1>1, <1>5, <2>1 DEF InFrame
    <2>2. CASE Touches(Now, v) /\ ~Store
      BY <1>5, <2>2
    <2>3. CASE Touches(Now, v) /\ Store
      <3>1. At("STORE") /\ v \in Now.vars
        BY <2>3 DEF Store, Touches
      <3> QED BY <1>5, <3>1, StoreOwned
    <2> QED BY <2>1, <2>2, <2>3
  <1>7. PreparedNow'
    <2> SUFFICES ASSUME NEW v \in Zvals, NEW h \in 1..step, PreparedBy(Macros, h, step + 1, v)
                 PROVE  registered'[v] > 0 /\ zv'[v] \notin Nat /\ (Nulls(Macros[h]) => zv'[v] = Null)
      <3>1. \A h, v : PreparedBy(Macros, h, step, v)' <=> PreparedBy(Macros, h, step + 1, v)
        BY <1>2 DEF PreparedBy, Touches
      <3>2. \A h : Nulls(Macros[h])' <=> Nulls(Macros[h])
        BY <1>2 DEF Nulls
      <3> QED BY <1>2, <1>3, <3>1, <3>2 DEF PreparedNow
    <2>1. CASE h = step
      BY <1>3, <1>5, <2>1 DEF PreparedBy
    <2>2. CASE h # step
      <3>1. h \in 1..(step - 1) /\ step \in (h + 1)..((step + 1) - 1)
        BY <1>3, <2>2
      <3>2. ~Touches(Now, v)
        BY <1>3, <3>1 DEF PreparedBy
      <3>3. PreparedBy(Macros, h, step, v)
        BY <1>3 DEF PreparedBy
      <3>4. registered[v] > 0 /\ zv[v] \notin Nat /\ (Nulls(Macros[h]) => zv[v] = Null)
        BY <1>4, <3>1, <3>3 DEF PreparedNow
      <3> QED BY <1>1, <1>5, <3>2, <3>4
    <2> QED BY <2>1, <2>2
  <1>8. WaitingNull'
    <2> SUFFICES ASSUME NEW x \in Variables, NEW o \in 1..Len(method), NEW j \in 1..Len(method),
                        NEW k \in 1..Len(method), Waits(x, o, j, k),
                        pc \in (o + 1)..j \/ pc \in (method[o].to + 1)..k,
                        \A h \in 1..step : ~Touches(Macros[h], x)
                 PROVE  zv'[x] = Null
      BY <1>2, <1>3 DEF WaitingNull, Waits, Touches
    <2>1. ~Touches(Now, x) /\ \A h \in 1..(step - 1) : ~Touches(Macros[h], x)
      BY <1>3
    <2>2. zv[x] = Null
      BY <1>4, <2>1 DEF WaitingNull
    <2> QED BY <1>1, <1>3, <2>1, <2>2
  <1>9. next = End
    BY <1>1 DEF Running
  <1> QED BY <1>2, <1>3, <1>6, <1>7, <1>8, <1>9 DEF OwnedInv

\* The branches of an if are entered from it, and left alone until the first let.
LEMMA GoOnOwned ==
  ASSUME OInv, MovedSafely(method), GoOn
  PROVE  OwnedInv'
  <1>0. IInv /\ TouchInv /\ PreparedInv /\ OwnedInv /\ InFrame
    BY DEF OInv, OwnedInv
  <1>1. /\ Running /\ step > Len(Macros) /\ pc' \in GoesTo(method, pc) /\ step' = 1
        /\ UNCHANGED <<method, next, code, zv, registered>>
    BY DEF GoOn, compiler, Running
  <1>2. Zvals' = Zvals /\ End' = End /\ InFrame'
    BY <1>0, <1>1 DEF Zvals, Temporaries, Pool, Blocks, End, InFrame
  <1>3. /\ pc \in 1..Len(method) /\ pc \in 1..(next - 1) /\ Len(method) \in Nat
        /\ Len(Macros) \in Nat /\ step = Len(Macros) + 1
        /\ PreparedNow /\ WaitingNull /\ Macros = code[pc]
    <2>1. step \in Nat /\ step <= Len(Macros) + 1 /\ PreparedNow /\ WaitingNull
      BY <1>0, <1>1 DEF IInv, TypeOK, OwnedInv
    <2> QED BY <1>0, <1>1, <2>1, RunFacts DEF Macros
  <1>4. ASSUME NEW x \in Variables, NEW o \in 1..Len(method), NEW j \in 1..Len(method),
               NEW k \in 1..Len(method), Waits(x, o, j, k),
               pc' \in (o + 1)..j \/ pc' \in (method[o].to + 1)..k
        PROVE  zv[x] = Null
    <2> DEFINE e == method[o].to
    <2>1. /\ method[o].op = "if" /\ e \in (o + 1)..Len(method) /\ method[e].op = "else"
          /\ o < j /\ j < e /\ e < k /\ FirstIn(method, o, x, j) /\ FirstIn(method, e, x, k)
      BY <1>0, <1>4, WaitsFacts
    <2>2. x \in Moved(method, o)
      BY <1>4 DEF Waits
    <2>3. CASE pc = o
      <3>1. IfPrepares(pc, Macros)
        BY <1>0, <1>3 DEF PreparedInv
      <3>2. PICK h \in 1..Len(Macros) : Nulls(Macros[h]) /\ PreparedBy(Macros, h, Len(Macros) + 1, x)
        BY <2>1, <2>2, <2>3, <3>1 DEF IfPrepares
      <3>3. h \in 1..(step - 1) /\ x \in Zvals
        BY <1>3 DEF Zvals
      <3> QED BY <1>3, <3>2, <3>3 DEF PreparedNow
    <2>4. pc \in (o + 1)..(j - 1) \/ pc \in (e + 1)..(k - 1) => zv[x] = Null
      <3> SUFFICES ASSUME pc \in (o + 1)..(j - 1) \/ pc \in (e + 1)..(k - 1)
                   PROVE  zv[x] = Null
        OBVIOUS
      <3>1. pc \in (o + 1)..k /\ (pc \in (o + 1)..j \/ pc \in (e + 1)..k)
        BY <1>3, <2>1
      <3>2. ~Changes(method, pc, x)
        BY <2>1 DEF FirstIn
      <3>3. method[pc].op = "if" => x \notin Moved(method, pc)
        BY <1>0, <1>4, <3>1, SkipUse
      <3>4. x \notin Touched(pc)
        <4>1. x # Heap(pc) /\ x # HeapArray(pc) /\ x # Result(pc)
          BY VariablesApart
        <4> QED BY <3>2, <3>3, <4>1 DEF Touched, Changes
      <3>5. \A h \in 1..(step - 1) : ~Touches(Macros[h], x)
        <4>1. TouchesOnly(Macros, Touched(pc)) /\ x \in Zvals
          BY <1>0, <1>3 DEF TouchInv, Zvals
        <4> QED BY <1>3, <3>4, <4>1 DEF TouchesOnly
      <3> QED BY <1>3, <1>4, <3>1, <3>5 DEF WaitingNull
    <2>5. CASE pc' \in (o + 1)..j
      <3>1. \/ pc = o \/ pc \in (o + 1)..(j - 1)
            \/ method[pc].op = "if" /\ method[pc].to = o
        BY <1>0, <1>1, <2>1, <2>5, FirstEntered
      <3>2. ~(method[pc].op = "if" /\ method[pc].to = o)
        BY <1>0, <1>3, <2>1, MethodFacts DEF IInv, WellFormed
      <3> QED BY <2>3, <2>4, <3>1, <3>2
    <2>6. CASE pc' \in (e + 1)..k
      <3>1. e \in 1..Len(method)
        BY <2>1
      <3>2. \/ (pc = e /\ pc' = e + 1)
            \/ pc \in (e + 1)..(k - 1)
            \/ method[pc].op = "if" /\ method[pc].to = e
        BY <1>0, <1>1, <2>1, <2>6, <3>1, FirstEntered
      <3>3. ~(pc = e /\ pc' = e + 1)
        <4>1. method[e].to \in (e + 1)..Len(method)
          BY <1>0, <1>4, WaitsFacts
        <4> QED BY <1>1, <2>1, <4>1 DEF GoesTo
      <3>4. method[pc].op = "if" /\ method[pc].to = e => pc = o
        BY <1>0, <1>3, <2>1, OneIf
      <3> QED BY <2>3, <2>4, <3>2, <3>3, <3>4
    <2> QED BY <1>4, <2>5, <2>6
  <1>5. Running' => step' <= Len(Macros') + 1 /\ PreparedNow' /\ WaitingNull'
    <2> SUFFICES ASSUME Running'
                 PROVE  step' <= Len(Macros') + 1 /\ PreparedNow' /\ WaitingNull'
      OBVIOUS
    <2>1. Len(Macros') \in Nat
      <3>1. pc' \in 1..Len(method)
        <4>1. pc' \in 1..End
          BY <1>0, <1>1, GoesFacts
        <4> QED BY <1>2, <1>3, <4>1 DEF Running, End
      <3> QED BY <1>0, <1>1, <3>1, RunFacts DEF Macros
    <2>2. 1..(step' - 1) = {}
      BY <1>1
    <2>3. PreparedNow'
      BY <2>2 DEF PreparedNow
    <2>4. WaitingNull'
      BY <1>1, <1>4 DEF WaitingNull, Waits
    <2> QED BY <1>1, <2>1, <2>3, <2>4
  <1>6. next = End
    BY <1>1 DEF Running
  <1> QED BY <1>1, <1>2, <1>5, <1>6 DEF OwnedInv

\* A call that fails ends the run, and loses no value.
LEMMA StopOwned ==
  ASSUME OInv, CallFails \/ UNCHANGED vars
  PROVE  OwnedInv'
  <1>0. IInv /\ OwnedInv /\ InFrame
    BY DEF OInv, OwnedInv
  <1>1. UNCHANGED <<method, next, code, zv, registered>>
    BY DEF CallFails, compiler, vars
  <1>2. Zvals' = Zvals /\ End' = End /\ InFrame'
    BY <1>0, <1>1 DEF Zvals, Temporaries, Pool, Blocks, End, InFrame
  <1>3. CASE CallFails
    <2>1. next = End /\ pc' = End
      BY <1>3 DEF CallFails, At
    <2>2. ~Running'
      <3>1. End \in Nat
        BY <1>0, MethodFacts DEF IInv, End
      <3> QED BY <1>2, <2>1, <3>1 DEF Running
    <2> QED BY <1>1, <1>2, <2>1, <2>2 DEF OwnedInv
  <1>4. CASE UNCHANGED vars
    <2>1. UNCHANGED <<pc, step>>
      BY <1>4 DEF vars
    <2>2. Macros' = Macros /\ Running' = Running
      BY <1>1, <1>2, <2>1 DEF Macros, Running
    <2>3. PreparedNow' = PreparedNow
      BY <1>1, <1>2, <2>1, <2>2 DEF PreparedNow, PreparedBy, Touches, Nulls
    <2>4. WaitingNull' = WaitingNull
      BY <1>1, <2>1, <2>2 DEF WaitingNull, Waits, Touches
    <2> QED BY <1>0, <1>1, <1>2, <2>1, <2>2, <2>3, <2>4 DEF OwnedInv
  <1> QED BY <1>3, <1>4

\* Before the method runs, its zvals are unset, and its first statement is in no if.
LEMMA CompileOwned ==
  ASSUME OInv, Compile(next), IInv'
  PROVE  OwnedInv'
  <1>0. IInv /\ OwnedInv /\ InFrame
    BY DEF OInv, OwnedInv
  <1>1. next # End /\ UNCHANGED <<method, pc, step, zv, registered>>
    <2>1. PICK ms : next < End /\ Output(next, ms)
      BY DEF Compile, LetValue, LetNumberOfOwn, LetValueOfOwn, LetCall, LetCallOfOwn, LetFetch,
        LetFetchOfOwn, LetCopy, LetItem, CompileForVariable, CompileForArray, CompileForCall,
        CompileForIterator, CompileEndFor, CompileIf, CompileWhile, CompileEndWhile,
        CompileEcho, CompileOther, Compiling
    <2>2. End \in Nat /\ next \in Nat
      BY <1>0, MethodFacts DEF IInv, TypeOK, End
    <2> QED BY <2>1, <2>2 DEF Output, running
  <1>2. pc = 1 /\ step = 1 /\ Zvals' = Zvals /\ InFrame'
    BY <1>0, <1>1 DEF OwnedInv, InFrame, Zvals, Temporaries, Pool, Blocks
  <1>3. Running' => step' <= Len(Macros') + 1 /\ PreparedNow' /\ WaitingNull'
    <2> SUFFICES ASSUME Running'
                 PROVE  step' <= Len(Macros') + 1 /\ PreparedNow' /\ WaitingNull'
      OBVIOUS
    <2>0. Len(method) \in Nat /\ WellFormed(method)
      BY <1>0, MethodFacts DEF IInv
    <2>1. Len(Macros') \in Nat
      <3>1. /\ pc' = 1 /\ pc' < End' /\ next' = End' /\ End' = Len(method) + 1
            /\ code' \in Seq(Seq(Printed')) /\ Len(code') = next' - 1
        BY <1>1, <1>2 DEF IInv, TypeOK, Running, End
      <3>2. code'[1] \in Seq(Printed')
        BY <2>0, <3>1
      <3> QED BY <3>1, <3>2 DEF Macros
    <2>2. 1..(step' - 1) = {}
      BY <1>1, <1>2
    <2>3. PreparedNow'
      BY <2>2 DEF PreparedNow
    <2>4. \A o, j, k \in 1..Len(method) : method[o].op = "if" =>
            1 \notin (o + 1)..j /\ 1 \notin (method[o].to + 1)..k
      BY <2>0 DEF WellFormed
    <2>5. WaitingNull'
      BY <1>1, <1>2, <2>4 DEF WaitingNull, Waits
    <2> QED BY <1>1, <1>2, <2>1, <2>3, <2>5
  <1> QED BY <1>1, <1>2, <1>3 DEF OwnedInv

-----------------------------------------------------------------------------
\* At first nothing is printed or skipped, and no zval is in the frame.
LEMMA OInit ==
  ASSUME Init
  PROVE  OInv
  <1>1. IInv /\ TouchInv
    BY TInit DEF TInv
  <1>2. /\ next = 1 /\ pc = 1 /\ step = 1
        /\ \A v \in Zvals : zv[v] = Undef /\ skips[v] = 0
    BY DEF Init
  <1>3. SkipsInv /\ PreparedInv
    BY <1>2 DEF SkipsInv, PreparedInv
  <1>4. ~Running
    BY <1>2 DEF Running, End
  <1> QED BY <1>1, <1>2, <1>3, <1>4 DEF OInv, OwnedInv, InFrame

\* SkipsInv and PreparedInv are the compiler's.
LEMMA PreparedKept ==
  ASSUME SkipsInv, PreparedInv, UNCHANGED <<method, next, code, skips>>
  PROVE  SkipsInv' /\ PreparedInv'
  <1>1. Zvals' = Zvals
    BY DEF Zvals, Temporaries, Pool, Blocks
  <1>2. SkipsInv'
    BY <1>1 DEF SkipsInv, Waits
  <1>3. PreparedInv'
    <2>1. \A p \in 1..(next - 1) : StoresPrepared(p, code[p])' <=> StoresPrepared(p, code[p])
      BY DEF StoresPrepared, PreparedBy, Touches, Waits
    <2>2. \A p \in 1..(next - 1) : IfPrepares(p, code[p])' <=> IfPrepares(p, code[p])
      BY DEF IfPrepares, PreparedBy, Touches, Nulls
    <2> QED BY <2>1, <2>2 DEF PreparedInv
  <1> QED BY <1>2, <1>3

\* Every step keeps what is prepared, and what waits.
LEMMA OStep ==
  ASSUME OInv, ~UnsetCopies, \A m \in Methods : ItemsCounted(m) /\ MovedSafely(m), [Next]_vars
  PROVE  OInv'
  <1>1. /\ IInv /\ TouchInv /\ SkipsInv /\ PreparedInv
        /\ ItemsCounted(method) /\ MovedSafely(method)
    BY DEF OInv, IInv
  <1>2. IInv'
    BY <1>1, StepKeeps
  <1>3. CASE Compile(next)
    BY <1>1, <1>2, <1>3, CompileTouches, CompileSkips, CompilePrepared, CompileOwned DEF OInv
  <1>4. CASE Run
    <2>1. UNCHANGED <<method, next, code, skips>>
      BY <1>4 DEF Run, InitVar, InitNVar, ObsVar, ObsNVar, Nullify, CpyWrt, Store, Read,
                  CallFails, GoOn, Advance, compiler
    <2>2. OwnedInv'
      BY <1>1, <1>4, MacroOwned, GoOnOwned, StopOwned DEF Run
    <2> QED BY <1>1, <1>2, <2>1, <2>2, TouchKept, PreparedKept DEF OInv
  <1>5. CASE UNCHANGED vars
    BY <1>1, <1>2, <1>5, TouchKept, PreparedKept, StopOwned DEF OInv, vars
  <1> QED BY <1>3, <1>4, <1>5 DEF Next

\* For every method in which what is moved out of an if is assigned by the first
\* statement of each branch to change it: no value is lost. A zval that has a
\* value is in the frame, which will release it, and a value is stored only where
\* there is none; the two skips of a moved variable are used up by those two lets.
THEOREM ValuesOwnedHolds ==
  ASSUME ~UnsetCopies, \A m \in Methods : ItemsCounted(m) /\ MovedSafely(m)
  PROVE  Spec => []ValuesOwned
  <1>1. Init => OInv
    BY OInit
  <1>2. OInv /\ [Next]_vars => OInv'
    BY OStep
  <1>3. OInv => ValuesOwned
    <2> SUFFICES ASSUME OInv
                 PROVE  ValuesOwned
      OBVIOUS
    <2>1. \A v \in Zvals : zv[v] \in Nat => registered[v] > 0
      BY ValuesAssumption DEF OInv, OwnedInv, InFrame
    <2>2. At("STORE") => \A v \in Now.vars : zv[v] \notin Nat
      BY StoreOwned DEF OInv, IInv
    <2> QED BY <2>1, <2>2 DEF ValuesOwned
  <1> QED BY <1>1, <1>2, <1>3, PTL DEF Spec
=============================================================================
