------------------------- MODULE VariableInitProofs -------------------------
(***************************************************************************)
(* VariableInit for every method, of any length and nesting: whatever path *)
(* it takes, its frame gets each of its zvals at most once.                *)
(***************************************************************************)
EXTENDS VariableInit, TLAPS, FiniteSetTheorems, SequenceTheorems

\* A macro that may put a zval in the frame, and one that does so blindly.
Registers(ma, v) ==
  ma.op \in {"INIT_VAR", "INIT_NVAR", "OBS_VAR", "OBS_NVAR", "NULLIFY", "CPY_WRT"} /\ v \in ma.vars
FirstUse(ma, v) == ma.op \in {"INIT_VAR", "OBS_VAR"} /\ v \in ma.vars

\* From macro k of ms on, v receives a value before anything else happens to it.
StoredSoon(ms, k, v) ==
  \E n \in k..Len(ms) :
    /\ ms[n].op = "STORE" /\ v \in ms[n].vars
    /\ \A j \in k..(n - 1) : ms[j].op = "READ" \/ v \notin ms[j].vars

\* What is so of all that is printed for a statement, about one zval.
WellPrinted(ms, v) ==
  \A k \in 1..Len(ms) :
    /\ FirstUse(ms[k], v) => \A j \in 1..(k - 1) : ~Registers(ms[j], v)
    /\ ms[k].op \in {"OBS_VAR", "OBS_NVAR", "NULLIFY"} /\ v \in ms[k].vars =>
         StoredSoon(ms, k + 1, v)

RegistersIn(ms, v) == \E k \in 1..Len(ms) : Registers(ms[k], v)
FirstUseIn(ms, v) == \E k \in 1..Len(ms) : FirstUse(ms[k], v)

\* The loops around statement n.
Loops(n) == {w \in 1..(n - 1) : method[w].op = "while" /\ method[w].to >= n}

\* A statement that counts the variable it writes.
Counts(p) == method[p].op \in {"let", "for"} /\ method[p].by # "item"

\* The counters: insideCycle is the number of loops around the next statement;
\* a variable that has not been counted has not been touched.
CountersInv ==
  /\ cycles = Cardinality(Loops(next))
  /\ \A v \in Zvals : skips[v] > 0 => inits[v] > 0
  /\ \A v \in Zvals : inits[v] = 0 => \A p \in 1..(next - 1) : ~RegistersIn(code[p], v)
  /\ \A p \in 1..(next - 1) : Counts(p) => inits[method[p].var] > 0

\* The code: a first use comes before all others, and in no loop.
CodeInv ==
  \A p \in 1..(next - 1) : \A v \in Zvals :
    /\ WellPrinted(code[p], v)
    /\ FirstUseIn(code[p], v) =>
         /\ \A q \in 1..(p - 1) : ~RegistersIn(code[q], v)
         /\ \A w \in 1..p : method[w].op = "while" => method[w].to < p

\* The run: a zval in the frame has its first use behind it, and if it is
\* unset, a value is on its way.
RunInv ==
  \A v \in Zvals :
    /\ registered[v] <= 1
    /\ registered[v] > 0 =>
         /\ next = End
         /\ \A p \in pc..Len(method) : \A k \in 1..Len(code[p]) :
              FirstUse(code[p][k], v) => p = pc /\ k < step
         /\ zv[v] = Undef /\ pc < End => StoredSoon(code[pc], step, v)

IInv == method \in Methods /\ TypeOK /\ CountersInv /\ CodeInv /\ RunInv

-----------------------------------------------------------------------------
\* What is known of a method.
LEMMA MethodFacts ==
  ASSUME method \in Methods
  PROVE  /\ Len(method) \in Nat /\ WellFormed(method)
         /\ \A i \in 1..Len(method) : method[i] \in Statement
  BY MethodsAssumption

LEMMA BlocksFacts ==
  ASSUME method \in Methods, NEW i \in 1..Len(method)
  PROVE  {Heap(i), HeapArray(i), Result(i)} \subseteq Zvals
  BY DEF Zvals, Temporaries, Heap, HeapArray, Result

\* The variables an if initialises are variables.
LEMMA MovedFacts ==
  ASSUME method \in Methods, NEW i \in 1..Len(method), method[i].op = "if"
  PROVE  Moved(method, i) \subseteq Variables
  <1>1. \A b, e : b \in 1..Len(method) /\ e \in 1..Len(method) =>
                    Assigned(method, b, e) \subseteq Variables
    BY MethodFacts DEF Assigned, Statement
  <1>2. method[i].to \in 1..Len(method)
    BY MethodFacts DEF WellFormed
  <1>3. method[method[i].to].op = "else" => method[method[i].to].to \in 1..Len(method)
    BY <1>2, MethodFacts DEF WellFormed
  <1> QED BY <1>1, <1>2, <1>3 DEF Moved

\* A loop is open until its end.
LEMMA LoopsFacts ==
  ASSUME method \in Methods, NEW i \in 1..Len(method)
  PROVE  /\ IsFiniteSet(Loops(i)) /\ IsFiniteSet(Loops(i + 1))
         /\ method[i].op = "while" => Loops(i + 1) = Loops(i) \cup {i} /\ i \notin Loops(i)
         /\ method[i].op = "endwhile" =>
              Loops(i + 1) = Loops(i) \ {method[i].to} /\ method[i].to \in Loops(i)
         /\ method[i].op \notin {"while", "endwhile"} => Loops(i + 1) = Loops(i)
  <1>0. Len(method) \in Nat /\ WellFormed(method)
        /\ \A j \in 1..Len(method) : method[j].to \in Nat
    BY MethodFacts DEF Statement
  <1>1. IsFiniteSet(1..Len(method))
    BY <1>0, FS_Interval
  <1>2. Loops(i) \in SUBSET (1..Len(method)) /\ Loops(i + 1) \in SUBSET (1..Len(method))
    BY <1>0 DEF Loops
  <1>3. IsFiniteSet(Loops(i)) /\ IsFiniteSet(Loops(i + 1))
    BY <1>1, <1>2, FS_Subset
  <1>4. \A w \in 1..(i - 1) : method[w].op = "while" /\ method[w].to = i =>
          method[i].op = "endwhile" /\ method[i].to = w
    BY <1>0 DEF WellFormed
  <1>5. \A w : w \in Loops(i) <=>
               w \in 1..(i - 1) /\ method[w].op = "while" /\ method[w].to >= i
    BY DEF Loops
  <1>6. \A w : w \in Loops(i + 1) <=>
               w \in 1..i /\ method[w].op = "while" /\ method[w].to >= i + 1
    BY DEF Loops
  <1>7. \A w \in 1..(i - 1) : method[w].to >= i + 1 <=> method[w].to >= i /\ method[w].to # i
    BY <1>0
  <1>8. CASE method[i].op = "while"
    <2>1. method[i].to \in (i + 1)..Len(method)
      BY <1>0, <1>8 DEF WellFormed
    <2>2. \A w : w \in Loops(i + 1) <=> w = i \/ w \in Loops(i)
      <3> TAKE w
      <3>1. CASE w = i
        BY <3>1, <2>1, <1>0, <1>8, <1>6
      <3>2. CASE w # i /\ w \in 1..(i - 1)
        BY <3>2, <1>4, <1>8, <1>5, <1>6, <1>7
      <3>3. CASE w # i /\ w \notin 1..(i - 1)
        BY <3>3, <1>5, <1>6
      <3> QED BY <3>1, <3>2, <3>3
    <2>3. i \notin Loops(i)
      BY <1>5
    <2> QED BY <2>2, <2>3, <1>3, <1>8
  <1>9. CASE method[i].op = "endwhile"
    <2>1. method[i].to \in 1..(i - 1) /\ method[method[i].to].op = "while"
          /\ method[method[i].to].to = i
      BY <1>0, <1>9 DEF WellFormed
    <2>2. \A w : w \in Loops(i + 1) <=> w \in Loops(i) /\ w # method[i].to
      <3> TAKE w
      <3>1. CASE w = i
        BY <3>1, <1>9, <1>5, <1>6
      <3>2. CASE w # i /\ w \in 1..(i - 1)
        BY <3>2, <2>1, <1>4, <1>5, <1>6, <1>7
      <3>3. CASE w # i /\ w \notin 1..(i - 1)
        BY <3>3, <1>5, <1>6
      <3> QED BY <3>1, <3>2, <3>3
    <2>3. method[i].to \in Loops(i)
      BY <2>1, <1>5
    <2> QED BY <2>2, <2>3, <1>3, <1>9
  <1>10. CASE method[i].op \notin {"while", "endwhile"}
    <2>1. \A w : w \in Loops(i + 1) <=> w \in Loops(i)
      <3> TAKE w
      <3>1. CASE w = i
        BY <3>1, <1>10, <1>5, <1>6
      <3>2. CASE w # i /\ w \in 1..(i - 1)
        <4>1. method[w].op = "while" => method[w].to # i
          BY <3>2, <1>4, <1>10
        <4>2. w \in 1..i /\ (method[w].to >= i + 1 <=> method[w].to >= i /\ method[w].to # i)
          BY <3>2, <1>7
        <4> QED BY <3>2, <4>1, <4>2, <1>5, <1>6
      <3>3. CASE w # i /\ w \notin 1..(i - 1)
        BY <3>3, <1>5, <1>6
      <3> QED BY <3>1, <3>2, <3>3
    <2> QED BY <2>1, <1>3, <1>10
  <1> QED BY <1>3, <1>8, <1>9, <1>10

-----------------------------------------------------------------------------
\* The compiler.

\* A statement keeps the invariant when it counts what it prints.
LEMMA PrintKeeps ==
  ASSUME IInv, NEW i, i = next, i < End, NEW ms \in Seq(Printed), Output(i, ms),
         inits' \in [Zvals -> Nat], skips' \in [Zvals -> Nat], cycles' \in Nat,
         cycles' = Cardinality(Loops(i + 1)),
         Counts(i) => inits'[method[i].var] > 0,
         \A v \in Zvals :
           /\ inits[v] > 0 => inits'[v] > 0
           /\ skips'[v] > 0 => inits'[v] > 0
           /\ RegistersIn(ms, v) => inits'[v] > 0
           /\ WellPrinted(ms, v)
           /\ FirstUseIn(ms, v) => inits[v] = 0 /\ cycles = 0 /\ method[i].op # "while"
  PROVE  IInv'
  <1>0. /\ method' = method /\ next' = next + 1 /\ code' = Append(code, ms)
        /\ UNCHANGED <<pc, step, zv, registered, traversed, source>>
        /\ Zvals' = Zvals /\ End' = End /\ Printed' = Printed
    BY DEF Output, running, Zvals, Temporaries, Pool, Blocks, End, Printed
  <1>a. method \in Methods /\ TypeOK /\ CountersInv /\ CodeInv /\ RunInv
    BY DEF IInv
  <1>b. Len(method) \in Nat /\ \A w \in 1..Len(method) : method[w].to \in Nat
    BY <1>a, MethodFacts DEF Statement
  <1>1. /\ next \in 1..Len(method) /\ Len(method) \in Nat
        /\ \A w \in 1..Len(method) : method[w].to \in Nat
    BY <1>a, <1>b DEF TypeOK, End
  <1>c. /\ inits \in [Zvals -> Nat] /\ registered \in [Zvals -> Nat]
        /\ inits' \in [Zvals -> Nat]
    BY <1>a DEF TypeOK
  <1>d. \A v \in Zvals : inits[v] > 0 \/ RegistersIn(ms, v) => inits'[v] > 0
    OBVIOUS
  <1>e. \A v \in Zvals : inits'[v] = 0 => inits[v] = 0 /\ ~RegistersIn(ms, v)
    <2> SUFFICES ASSUME NEW v \in Zvals, inits'[v] = 0
                 PROVE  inits[v] = 0 /\ ~RegistersIn(ms, v)
      OBVIOUS
    <2>1. inits[v] \in Nat
      BY <1>c
    <2>2. ~(inits'[v] > 0)
      OBVIOUS
    <2>3. ~(inits[v] > 0) /\ ~RegistersIn(ms, v)
      BY <1>d, <2>2
    <2> QED BY <2>1, <2>3
  <1>2. code \in Seq(Seq(Printed)) /\ Len(code) = next - 1
    BY DEF IInv, TypeOK
  <1>3. /\ Len(code') = next /\ code' \in Seq(Seq(Printed)) /\ code'[next] = ms
        /\ \A p \in 1..(next - 1) : code'[p] = code[p]
    BY <1>0, <1>1, <1>2
  <1>4. TypeOK'
    <2>1. next' \in 1..End /\ Len(code') = next' - 1
      BY <1>0, <1>1, <1>3 DEF End
    <2>2. /\ method \in Seq(Statement) /\ pc \in 1..End /\ step \in Nat \ {0}
          /\ zv \in [Zvals -> {Undef, Null} \cup Nat]
          /\ registered \in [Zvals -> Nat] /\ source \in [Variables -> {Unset} \cup Nat]
          /\ traversed \in [1..Len(method) -> {Undef, Null} \cup Nat]
      BY <1>a DEF TypeOK
    <2>3. /\ method' \in Seq(Statement) /\ next' \in 1..End'
          /\ inits' \in [Zvals' -> Nat] /\ skips' \in [Zvals' -> Nat] /\ cycles' \in Nat
      BY <1>0, <2>1, <2>2
    <2>4. /\ pc' \in 1..End' /\ step' \in Nat \ {0} /\ source' \in [Variables -> {Unset} \cup Nat]
          /\ traversed' \in [1..Len(method') -> {Undef, Null} \cup Nat]
      BY <1>0, <2>2
    <2>5. zv' \in [Zvals' -> {Undef, Null} \cup Nat] /\ registered' \in [Zvals' -> Nat]
      BY <1>0, <2>2
    <2> QED BY <1>0, <1>3, <2>1, <2>3, <2>4, <2>5 DEF TypeOK
  <1>5. CountersInv'
    <2>1. Loops(next)' = Loops(i + 1)
      BY <1>0, <1>1 DEF Loops
    <2>2. \A v \in Zvals : inits'[v] = 0 => \A p \in 1..next : ~RegistersIn(code'[p], v)
      <3> SUFFICES ASSUME NEW v \in Zvals, inits'[v] = 0, NEW p \in 1..next
                   PROVE  ~RegistersIn(code'[p], v)
        OBVIOUS
      <3>1. inits[v] = 0 /\ ~RegistersIn(ms, v)
        BY <1>e
      <3>2. CASE p = next
        BY <3>1, <3>2, <1>3
      <3>3. CASE p \in 1..(next - 1)
        BY <3>1, <3>3, <1>3 DEF IInv, CountersInv
      <3> QED BY <3>2, <3>3, <1>1
    <2>0. next' - 1 = next
      BY <1>0, <1>1
    <2>3. \A v \in Zvals : inits'[v] = 0 => \A p \in 1..(next' - 1) : ~RegistersIn(code'[p], v)
      BY <2>2, <2>0
    <2>4. cycles' = Cardinality(Loops(next)')
      BY <2>1
    <2>5. ASSUME NEW p \in 1..next, Counts(p)
          PROVE  inits'[method[p].var] > 0
      <3>1. CASE p = next
        BY <2>5, <3>1
      <3>2. CASE p \in 1..(next - 1)
        <4>1. p \in 1..Len(method) /\ method[p] \in Statement
          BY <1>1, <1>a, <3>2, MethodFacts
        <4>2. method[p].var \in Zvals
          BY <4>1 DEF Statement, Zvals
        <4>3. inits[method[p].var] > 0
          BY <2>5, <3>2, <1>a DEF CountersInv
        <4> QED BY <4>2, <4>3
      <3> QED BY <3>1, <3>2, <1>1
    <2>6. \A p \in 1..(next' - 1) : Counts(p)' => inits'[method'[p].var] > 0
      BY <1>0, <2>0, <2>5 DEF Counts
    <2> QED BY <1>0, <2>3, <2>4, <2>6 DEF CountersInv
  <1>6. CodeInv'
    <2> SUFFICES ASSUME NEW p \in 1..next, NEW v \in Zvals
                 PROVE  /\ WellPrinted(code'[p], v)
                        /\ FirstUseIn(code'[p], v) =>
                             /\ \A q \in 1..(p - 1) : ~RegistersIn(code'[q], v)
                             /\ \A w \in 1..p : method[w].op = "while" => method[w].to < p
      <3>1. next' - 1 = next
        BY <1>0, <1>1
      <3> QED BY <3>1, <1>0 DEF CodeInv
    <2>1. CASE p \in 1..(next - 1)
      <3>1. \A q \in 1..p : code'[q] = code[q]
        BY <2>1, <1>1, <1>3
      <3> QED BY <2>1, <3>1, <1>1 DEF IInv, CodeInv
    <2>2. CASE p = next
      <3>1. WellPrinted(code'[p], v)
        BY <2>2, <1>3
      <3>2. ASSUME FirstUseIn(code'[p], v)
            PROVE  /\ \A q \in 1..(p - 1) : ~RegistersIn(code'[q], v)
                   /\ \A w \in 1..p : method[w].op = "while" => method[w].to < p
        <4>1. inits[v] = 0 /\ cycles = 0 /\ method[next].op # "while"
          BY <3>2, <2>2, <1>3
        <4>2. \A q \in 1..(p - 1) : ~RegistersIn(code'[q], v)
          BY <4>1, <2>2, <1>3 DEF IInv, CountersInv
        <4>3. Loops(next) = {}
          <5>1. IsFiniteSet(Loops(next)) /\ Cardinality(Loops(next)) = 0
            BY <4>1, <1>1, LoopsFacts DEF IInv, CountersInv
          <5> QED BY <5>1, FS_EmptySet
        <4> QED BY <4>1, <4>2, <4>3, <2>2, <1>1, SMTT(60) DEF Loops
      <3> QED BY <3>1, <3>2
    <2> QED BY <2>1, <2>2, <1>1
  <1>7. RunInv'
    <2> SUFFICES ASSUME NEW v \in Zvals PROVE registered[v] = 0
      BY <1>0, <1>c DEF RunInv
    <2>1. next # End
      BY <1>1 DEF End
    <2> QED BY <2>1, <1>a, <1>c DEF RunInv
  <1> QED BY <1>0, <1>4, <1>5, <1>6, <1>7 DEF IInv

LEMMA MacroFacts ==
  ASSUME NEW op \in {"INIT_VAR", "INIT_NVAR", "OBS_VAR", "OBS_NVAR", "NULLIFY", "CPY_WRT",
                     "STORE", "READ"},
         NEW V \in SUBSET Zvals, NEW W \in SUBSET Zvals
  PROVE  [op |-> op, vars |-> V, from |-> W] \in Printed
  BY DEF Printed

\* A let that writes x by the macros of initVariant.
LEMMA InitKeeps ==
  ASSUME IInv, NEW V \in SUBSET Zvals, NEW more \in Nat, Initialized(V), Skipped(V, more)
  PROVE  /\ inits' \in [Zvals -> Nat] /\ skips' \in [Zvals -> Nat]
         /\ \A v \in Zvals : inits[v] > 0 => inits'[v] > 0
         /\ \A v \in Zvals : skips'[v] > 0 => inits'[v] > 0
         /\ \A v \in V : inits'[v] > 0
  <1>1. inits \in [Zvals -> Nat] /\ skips \in [Zvals -> Nat]
        /\ \A v \in Zvals : skips[v] > 0 => inits[v] > 0
    BY DEF IInv, TypeOK, CountersInv
  <1>2. inits' = [v \in Zvals |-> IF v \in V /\ skips[v] = 0 THEN inits[v] + 1 ELSE inits[v]]
    BY DEF Initialized
  <1>3. skips' = [v \in Zvals |->
                    IF v \notin V THEN skips[v]
                    ELSE IF skips[v] = 0 THEN more ELSE (skips[v] - 1) + more]
    BY DEF Skipped
  <1>4. inits' \in [Zvals -> Nat]
    BY <1>1, <1>2
  <1>5. skips' \in [Zvals -> Nat]
    BY <1>1, <1>3
  <1>6. \A v \in Zvals : inits[v] > 0 => inits'[v] > 0
    BY <1>1, <1>2
  <1>7. \A v \in V : inits'[v] > 0
    BY <1>1, <1>2
  <1>8. \A v \in Zvals : skips'[v] > 0 => inits'[v] > 0
    BY <1>1, <1>3, <1>6, <1>7
  <1> QED BY <1>4, <1>5, <1>6, <1>7, <1>8

LEMMA IncreaseKeeps ==
  ASSUME IInv, NEW V \in SUBSET Zvals, Increased(V), skips' = skips
  PROVE  /\ inits' \in [Zvals -> Nat] /\ skips' \in [Zvals -> Nat]
         /\ \A v \in Zvals : inits[v] > 0 => inits'[v] > 0
         /\ \A v \in Zvals : skips'[v] > 0 => inits'[v] > 0
         /\ \A v \in V : inits'[v] > 0
  <1>1. inits \in [Zvals -> Nat] /\ skips \in [Zvals -> Nat]
        /\ \A v \in Zvals : skips[v] > 0 => inits[v] > 0
    BY DEF IInv, TypeOK, CountersInv
  <1>2. inits' = [v \in Zvals |-> IF v \in V THEN inits[v] + 1 ELSE inits[v]]
    BY DEF Increased
  <1> QED BY <1>1, <1>2

LEMMA LoopsKept ==
  ASSUME IInv, NEW i, i = next, i < End, method[i].op \notin {"while", "endwhile"}
  PROVE  /\ i \in 1..Len(method) /\ method[i] \in Statement
         /\ cycles \in Nat /\ cycles = Cardinality(Loops(i + 1))
         /\ Variables \subseteq Zvals
         /\ method[i].reads \in SUBSET Zvals /\ method[i].var \in Variables
  <1>1. method \in Methods /\ next \in 1..(Len(method) + 1) /\ cycles \in Nat
        /\ cycles = Cardinality(Loops(next))
    BY DEF IInv, TypeOK, CountersInv, End
  <1>2. Len(method) \in Nat
    BY <1>1, MethodFacts
  <1>3. i \in 1..Len(method)
    BY <1>1, <1>2 DEF End
  <1>4. method[i] \in Statement
    BY <1>1, <1>3, MethodFacts
  <1>5. Loops(i + 1) = Loops(i)
    BY <1>1, <1>3, LoopsFacts
  <1> QED BY <1>1, <1>3, <1>4, <1>5 DEF Statement, Zvals

LEMMA LetValueKeeps ==
  ASSUME IInv, NEW i, i = next, LetValue(i)
  PROVE  IInv'
  <1> DEFINE x == method[i].var
             ms == <<InitVars({x}), InitNVars({x}), Macro("STORE", {x}), Reads(method[i])>>
  <1>1. /\ i < End /\ method[i].op = "let" /\ Initialized({x}) /\ Skipped({x}, 0)
        /\ Output(i, ms) /\ cycles' = cycles
    BY DEF LetValue, Compiling
  <1>2. x \in Zvals /\ method[i].reads \in SUBSET Zvals
        /\ cycles \in Nat /\ cycles = Cardinality(Loops(i + 1))
    BY <1>1, LoopsKept
  <1>3. ms \in Seq(Printed)
    <2>1. InitVars({x}) \in Printed /\ InitNVars({x}) \in Printed
      BY <1>2, MacroFacts DEF InitVars, InitNVars, Macro
    <2>2. Macro("STORE", {x}) \in Printed
      BY <1>2, MacroFacts DEF Macro
    <2>3. Reads(method[i]) \in Printed
      BY <1>2, MacroFacts DEF Reads, Macro
    <2> QED BY <2>1, <2>2, <2>3
  <1>4. /\ inits' \in [Zvals -> Nat] /\ skips' \in [Zvals -> Nat]
        /\ \A v \in Zvals : inits[v] > 0 => inits'[v] > 0
        /\ \A v \in Zvals : skips'[v] > 0 => inits'[v] > 0
        /\ inits'[x] > 0
    BY <1>1, <1>2, InitKeeps
  <1>5. ASSUME NEW v \in Zvals
        PROVE  /\ RegistersIn(ms, v) => v = x
               /\ WellPrinted(ms, v)
               /\ FirstUseIn(ms, v) => inits[v] = 0 /\ cycles = 0
    <2>1. /\ Len(ms) = 4 /\ \A k \in 1..4 : k = 1 \/ k = 2 \/ k = 3 \/ k = 4
          /\ ms[1].op = "INIT_VAR" /\ ms[1].vars = {y \in {x} : skips[y] = 0 /\ First(y)}
          /\ ms[2].op = "INIT_NVAR" /\ ms[2].vars = {y \in {x} : skips[y] = 0 /\ ~First(y)}
          /\ ms[3].op = "STORE" /\ ms[4].op = "READ"
      BY DEF InitVars, InitNVars, Macro, Reads
    <2> HIDE DEF ms
    <2>2. RegistersIn(ms, v) => v = x
      BY <2>1 DEF RegistersIn, Registers
    <2>3. FirstUseIn(ms, v) => inits[v] = 0 /\ cycles = 0
      BY <2>1 DEF FirstUseIn, FirstUse, First
    <2>4. WellPrinted(ms, v)
      BY <2>1 DEF WellPrinted, FirstUse, Registers
    <2> QED BY <2>2, <2>3, <2>4
  <1> HIDE DEF ms
  <1> QED BY <1>1, <1>2, <1>3, <1>4, <1>5, PrintKeeps

LEMMA LetNumberOfOwnKeeps ==
  ASSUME IInv, NEW i, i = next, LetNumberOfOwn(i)
  PROVE  IInv'
  <1> DEFINE x == method[i].var
             ms == <<Reads(method[i]), InitVars({x}), InitNVars({x}), Macro("STORE", {x})>>
  <1>1. /\ i < End /\ method[i].op = "let" /\ Initialized({x}) /\ Skipped({x}, 0)
        /\ Output(i, ms) /\ cycles' = cycles
    BY DEF LetNumberOfOwn, Compiling
  <1>2. x \in Zvals /\ method[i].reads \in SUBSET Zvals
        /\ cycles \in Nat /\ cycles = Cardinality(Loops(i + 1))
    BY <1>1, LoopsKept
  <1>3. ms \in Seq(Printed)
    <2>1. InitVars({x}) \in Printed /\ InitNVars({x}) \in Printed
      BY <1>2, MacroFacts DEF InitVars, InitNVars, Macro
    <2>2. Macro("STORE", {x}) \in Printed
      BY <1>2, MacroFacts DEF Macro
    <2>3. Reads(method[i]) \in Printed
      BY <1>2, MacroFacts DEF Reads, Macro
    <2> QED BY <2>1, <2>2, <2>3
  <1>4. /\ inits' \in [Zvals -> Nat] /\ skips' \in [Zvals -> Nat]
        /\ \A v \in Zvals : inits[v] > 0 => inits'[v] > 0
        /\ \A v \in Zvals : skips'[v] > 0 => inits'[v] > 0
        /\ inits'[x] > 0
    BY <1>1, <1>2, InitKeeps
  <1>5. ASSUME NEW v \in Zvals
        PROVE  /\ RegistersIn(ms, v) => v = x
               /\ WellPrinted(ms, v)
               /\ FirstUseIn(ms, v) => inits[v] = 0 /\ cycles = 0
    <2>1. /\ Len(ms) = 4 /\ \A k \in 1..4 : k = 1 \/ k = 2 \/ k = 3 \/ k = 4
          /\ ms[1].op = "READ"
          /\ ms[2].op = "INIT_VAR" /\ ms[2].vars = {y \in {x} : skips[y] = 0 /\ First(y)}
          /\ ms[3].op = "INIT_NVAR" /\ ms[3].vars = {y \in {x} : skips[y] = 0 /\ ~First(y)}
          /\ ms[4].op = "STORE"
      BY DEF InitVars, InitNVars, Macro, Reads
    <2> HIDE DEF ms
    <2>2. RegistersIn(ms, v) => v = x
      BY <2>1 DEF RegistersIn, Registers
    <2>3. FirstUseIn(ms, v) => inits[v] = 0 /\ cycles = 0
      BY <2>1 DEF FirstUseIn, FirstUse, First
    <2>4. WellPrinted(ms, v)
      BY <2>1 DEF WellPrinted, FirstUse, Registers
    <2> QED BY <2>2, <2>3, <2>4
  <1> HIDE DEF ms
  <1> QED BY <1>1, <1>2, <1>3, <1>4, <1>5, PrintKeeps

LEMMA LetCallKeeps ==
  ASSUME IInv, NEW i, i = next, LetCall(i)
  PROVE  IInv'
  <1> DEFINE x == method[i].var
             ms == <<Macro("NULLIFY", {x}), Reads(method[i]), Macro("STORE", {x})>>
  <1>1. /\ i < End /\ method[i].op = "let" /\ Output(i, ms) /\ cycles' = cycles
        /\ Initialized({x}) /\ Skipped({x}, 0)
    BY DEF LetCall, Compiling
  <1>2. /\ x \in Zvals /\ method[i].reads \in SUBSET Zvals
        /\ cycles \in Nat /\ cycles = Cardinality(Loops(i + 1))
    BY <1>1, LoopsKept
  <1>3. ms \in Seq(Printed)
    <2>1. Macro("NULLIFY", {x}) \in Printed /\ Macro("STORE", {x}) \in Printed
      BY <1>2, MacroFacts DEF Macro
    <2>2. Reads(method[i]) \in Printed
      BY <1>2, MacroFacts DEF Reads, Macro
    <2> QED BY <2>1, <2>2
  <1>4. /\ inits' \in [Zvals -> Nat] /\ skips' \in [Zvals -> Nat]
        /\ \A v \in Zvals : inits[v] > 0 => inits'[v] > 0
        /\ \A v \in Zvals : skips'[v] > 0 => inits'[v] > 0
        /\ \A v \in {x} : inits'[v] > 0
    BY <1>1, <1>2, InitKeeps
  <1>5. ASSUME NEW v \in Zvals
        PROVE  /\ RegistersIn(ms, v) => v \in {x}
               /\ WellPrinted(ms, v)
               /\ FirstUseIn(ms, v) => inits[v] = 0 /\ cycles = 0
    <2>1. /\ Len(ms) = 3 /\ \A k \in 1..3 : k = 1 \/ k = 2 \/ k = 3
          /\ ms[1].op = "NULLIFY" /\ ms[1].vars = {x} /\ ms[2].op = "READ"
          /\ ms[3].op = "STORE" /\ ms[3].vars = {x}
      BY DEF Macro, Reads
    <2> HIDE DEF ms
    <2>2. RegistersIn(ms, v) => v \in {x}
      BY <2>1 DEF RegistersIn, Registers
    <2>3. FirstUseIn(ms, v) => inits[v] = 0 /\ cycles = 0
      BY <2>1 DEF FirstUseIn, FirstUse, First
    <2>4. WellPrinted(ms, v)
      BY <2>1 DEF WellPrinted, FirstUse, Registers, StoredSoon
    <2> QED BY <2>2, <2>3, <2>4
  <1> HIDE DEF ms
  <1> QED BY <1>1, <1>2, <1>3, <1>4, <1>5, PrintKeeps

LEMMA LetFetchKeeps ==
  ASSUME IInv, NEW i, i = next, LetFetch(i)
  PROVE  IInv'
  <1> DEFINE x == method[i].var
             ms == <<ObsVars({x}), ObsNVars({x}), Reads(method[i]), Macro("STORE", {x})>>
  <1>1. /\ i < End /\ method[i].op = "let" /\ Output(i, ms) /\ cycles' = cycles
        /\ Initialized({x}) /\ Skipped({x}, 0)
    BY DEF LetFetch, Compiling
  <1>2. /\ x \in Zvals /\ method[i].reads \in SUBSET Zvals
        /\ cycles \in Nat /\ cycles = Cardinality(Loops(i + 1))
    BY <1>1, LoopsKept
  <1>3. ms \in Seq(Printed)
    <2>1. ObsVars({x}) \in Printed /\ ObsNVars({x}) \in Printed
      BY <1>2, MacroFacts DEF ObsVars, ObsNVars, Macro
    <2>2. Reads(method[i]) \in Printed
      BY <1>2, MacroFacts DEF Reads, Macro
    <2>3. Macro("STORE", {x}) \in Printed
      BY <1>2, MacroFacts DEF Macro
    <2> QED BY <2>1, <2>2, <2>3
  <1>4. /\ inits' \in [Zvals -> Nat] /\ skips' \in [Zvals -> Nat]
        /\ \A v \in Zvals : inits[v] > 0 => inits'[v] > 0
        /\ \A v \in Zvals : skips'[v] > 0 => inits'[v] > 0
        /\ \A v \in {x} : inits'[v] > 0
    BY <1>1, <1>2, InitKeeps
  <1>5. ASSUME NEW v \in Zvals
        PROVE  /\ RegistersIn(ms, v) => v \in {x}
               /\ WellPrinted(ms, v)
               /\ FirstUseIn(ms, v) => inits[v] = 0 /\ cycles = 0
    <2>1. /\ Len(ms) = 4 /\ \A k \in 1..4 : k = 1 \/ k = 2 \/ k = 3 \/ k = 4
          /\ ms[1].op = "OBS_VAR" /\ ms[1].vars = {y \in {x} : skips[y] = 0 /\ First(y)}
          /\ ms[2].op = "OBS_NVAR" /\ ms[2].vars = {y \in {x} : skips[y] = 0 /\ ~First(y)}
          /\ ms[3].op = "READ" /\ ms[4].op = "STORE" /\ ms[4].vars = {x}
      BY DEF ObsVars, ObsNVars, Macro, Reads
    <2> HIDE DEF ms
    <2>2. RegistersIn(ms, v) => v \in {x}
      BY <2>1 DEF RegistersIn, Registers
    <2>3. FirstUseIn(ms, v) => inits[v] = 0 /\ cycles = 0
      BY <2>1 DEF FirstUseIn, FirstUse, First
    <2>4. WellPrinted(ms, v)
      BY <2>1 DEF WellPrinted, FirstUse, Registers, StoredSoon
    <2> QED BY <2>2, <2>3, <2>4
  <1> HIDE DEF ms
  <1> QED BY <1>1, <1>2, <1>3, <1>4, <1>5, PrintKeeps

LEMMA LetValueOfOwnKeeps ==
  ASSUME IInv, NEW i, i = next, LetValueOfOwn(i)
  PROVE  IInv'
  <1> DEFINE x == method[i].var
             t == Heap(i)
             ms == <<InitVars({t}), InitNVars({t}), Reads(method[i]), Macro("STORE", {t}),
                     CopyOf(x, {t})>>
  <1>1. /\ i < End /\ method[i].op = "let" /\ Output(i, ms) /\ cycles' = cycles
        /\ Increased({t, x}) /\ skips' = skips
    BY DEF LetValueOfOwn, Compiling
  <1>2. /\ x \in Zvals /\ t \in Zvals /\ method[i].reads \in SUBSET Zvals
        /\ cycles \in Nat /\ cycles = Cardinality(Loops(i + 1))
    BY <1>1, LoopsKept, BlocksFacts DEF IInv
  <1>3. ms \in Seq(Printed)
    <2>1. InitVars({t}) \in Printed /\ InitNVars({t}) \in Printed
      BY <1>2, MacroFacts DEF InitVars, InitNVars, Macro
    <2>2. Reads(method[i]) \in Printed /\ Macro("STORE", {t}) \in Printed
      BY <1>2, MacroFacts DEF Reads, Macro
    <2>3. CopyOf(x, {t}) \in Printed
      BY <1>2, MacroFacts DEF CopyOf
    <2> QED BY <2>1, <2>2, <2>3
  <1>4. /\ inits' \in [Zvals -> Nat] /\ skips' \in [Zvals -> Nat]
        /\ \A v \in Zvals : inits[v] > 0 => inits'[v] > 0
        /\ \A v \in Zvals : skips'[v] > 0 => inits'[v] > 0
        /\ \A v \in {t, x} : inits'[v] > 0
    BY <1>1, <1>2, IncreaseKeeps
  <1>5. ASSUME NEW v \in Zvals
        PROVE  /\ RegistersIn(ms, v) => v \in {t, x}
               /\ WellPrinted(ms, v)
               /\ FirstUseIn(ms, v) => inits[v] = 0 /\ cycles = 0
    <2>1. /\ Len(ms) = 5 /\ \A k \in 1..5 : k = 1 \/ k = 2 \/ k = 3 \/ k = 4 \/ k = 5
          /\ ms[1].op = "INIT_VAR" /\ ms[1].vars = {y \in {t} : skips[y] = 0 /\ First(y)}
          /\ ms[2].op = "INIT_NVAR" /\ ms[2].vars = {y \in {t} : skips[y] = 0 /\ ~First(y)}
          /\ ms[3].op = "READ" /\ ms[4].op = "STORE"
          /\ ms[5].op = "CPY_WRT" /\ ms[5].vars = {x}
      BY DEF InitVars, InitNVars, CopyOf, Macro, Reads
    <2> HIDE DEF ms
    <2>2. RegistersIn(ms, v) => v \in {t, x}
      BY <2>1 DEF RegistersIn, Registers
    <2>3. FirstUseIn(ms, v) => inits[v] = 0 /\ cycles = 0
      BY <2>1 DEF FirstUseIn, FirstUse, First
    <2>4. WellPrinted(ms, v)
      BY <2>1 DEF WellPrinted, FirstUse, Registers, StoredSoon
    <2> QED BY <2>2, <2>3, <2>4
  <1> HIDE DEF ms
  <1> QED BY <1>1, <1>2, <1>3, <1>4, <1>5, PrintKeeps

LEMMA LetCallOfOwnKeeps ==
  ASSUME IInv, NEW i, i = next, LetCallOfOwn(i)
  PROVE  IInv'
  <1> DEFINE x == method[i].var
             t == Result(i)
             ms == <<Reads(method[i]), Macro("NULLIFY", {t}), Macro("STORE", {t}), CopyOf(x, {t})>>
  <1>1. /\ i < End /\ method[i].op = "let" /\ Output(i, ms) /\ cycles' = cycles
        /\ Increased({t, x}) /\ skips' = skips
    BY DEF LetCallOfOwn, Compiling
  <1>2. /\ x \in Zvals /\ t \in Zvals /\ method[i].reads \in SUBSET Zvals
        /\ cycles \in Nat /\ cycles = Cardinality(Loops(i + 1))
    BY <1>1, LoopsKept, BlocksFacts DEF IInv
  <1>3. ms \in Seq(Printed)
    <2>1. Reads(method[i]) \in Printed
      BY <1>2, MacroFacts DEF Reads, Macro
    <2>2. Macro("NULLIFY", {t}) \in Printed /\ Macro("STORE", {t}) \in Printed
      BY <1>2, MacroFacts DEF Macro
    <2>3. CopyOf(x, {t}) \in Printed
      BY <1>2, MacroFacts DEF CopyOf
    <2> QED BY <2>1, <2>2, <2>3
  <1>4. /\ inits' \in [Zvals -> Nat] /\ skips' \in [Zvals -> Nat]
        /\ \A v \in Zvals : inits[v] > 0 => inits'[v] > 0
        /\ \A v \in Zvals : skips'[v] > 0 => inits'[v] > 0
        /\ \A v \in {t, x} : inits'[v] > 0
    BY <1>1, <1>2, IncreaseKeeps
  <1>5. ASSUME NEW v \in Zvals
        PROVE  /\ RegistersIn(ms, v) => v \in {t, x}
               /\ WellPrinted(ms, v)
               /\ FirstUseIn(ms, v) => inits[v] = 0 /\ cycles = 0
    <2>1. /\ Len(ms) = 4 /\ \A k \in 1..4 : k = 1 \/ k = 2 \/ k = 3 \/ k = 4
          /\ ms[1].op = "READ" /\ ms[2].op = "NULLIFY" /\ ms[2].vars = {t}
          /\ ms[3].op = "STORE" /\ ms[3].vars = {t}
          /\ ms[4].op = "CPY_WRT" /\ ms[4].vars = {x}
      BY DEF CopyOf, Macro, Reads
    <2> HIDE DEF ms
    <2>2. RegistersIn(ms, v) => v \in {t, x}
      BY <2>1 DEF RegistersIn, Registers
    <2>3. FirstUseIn(ms, v) => inits[v] = 0 /\ cycles = 0
      BY <2>1 DEF FirstUseIn, FirstUse, First
    <2>4. WellPrinted(ms, v)
      BY <2>1 DEF WellPrinted, FirstUse, Registers, StoredSoon
    <2> QED BY <2>2, <2>3, <2>4
  <1> HIDE DEF ms
  <1> QED BY <1>1, <1>2, <1>3, <1>4, <1>5, PrintKeeps

LEMMA LetFetchOfOwnKeeps ==
  ASSUME IInv, NEW i, i = next, LetFetchOfOwn(i)
  PROVE  IInv'
  <1> DEFINE x == method[i].var
             ms == <<Reads(method[i]), CopyOf(x, {})>>
  <1>1. /\ i < End /\ method[i].op = "let" /\ Output(i, ms) /\ cycles' = cycles
        /\ Increased({x}) /\ skips' = skips
    BY DEF LetFetchOfOwn, Compiling
  <1>2. /\ x \in Zvals /\ method[i].reads \in SUBSET Zvals
        /\ cycles \in Nat /\ cycles = Cardinality(Loops(i + 1))
    BY <1>1, LoopsKept
  <1>3. ms \in Seq(Printed)
    <2>1. Reads(method[i]) \in Printed
      BY <1>2, MacroFacts DEF Reads, Macro
    <2>2. CopyOf(x, {}) \in Printed
      BY <1>2, MacroFacts DEF CopyOf
    <2> QED BY <2>1, <2>2
  <1>4. /\ inits' \in [Zvals -> Nat] /\ skips' \in [Zvals -> Nat]
        /\ \A v \in Zvals : inits[v] > 0 => inits'[v] > 0
        /\ \A v \in Zvals : skips'[v] > 0 => inits'[v] > 0
        /\ \A v \in {x} : inits'[v] > 0
    BY <1>1, <1>2, IncreaseKeeps
  <1>5. ASSUME NEW v \in Zvals
        PROVE  /\ RegistersIn(ms, v) => v \in {x}
               /\ WellPrinted(ms, v)
               /\ FirstUseIn(ms, v) => inits[v] = 0 /\ cycles = 0
    <2>1. /\ Len(ms) = 2 /\ \A k \in 1..2 : k = 1 \/ k = 2
          /\ ms[1].op = "READ" /\ ms[2].op = "CPY_WRT" /\ ms[2].vars = {x}
      BY DEF CopyOf, Macro, Reads
    <2> HIDE DEF ms
    <2>2. RegistersIn(ms, v) => v \in {x}
      BY <2>1 DEF RegistersIn, Registers
    <2>3. FirstUseIn(ms, v) => inits[v] = 0 /\ cycles = 0
      BY <2>1 DEF FirstUseIn, FirstUse, First
    <2>4. WellPrinted(ms, v)
      BY <2>1 DEF WellPrinted, FirstUse, Registers, StoredSoon
    <2> QED BY <2>2, <2>3, <2>4
  <1> HIDE DEF ms
  <1> QED BY <1>1, <1>2, <1>3, <1>4, <1>5, PrintKeeps

LEMMA LetCopyKeeps ==
  ASSUME IInv, NEW i, i = next, LetCopy(i)
  PROVE  IInv'
  <1> DEFINE x == method[i].var
             ms == <<Reads(method[i]), CopyOf(x, method[i].reads)>>
  <1>1. /\ i < End /\ method[i].op = "let" /\ Output(i, ms) /\ cycles' = cycles
        /\ Increased({x}) /\ skips' = skips
    BY DEF LetCopy, Compiling
  <1>2. /\ x \in Zvals /\ method[i].reads \in SUBSET Zvals
        /\ cycles \in Nat /\ cycles = Cardinality(Loops(i + 1))
    BY <1>1, LoopsKept
  <1>3. ms \in Seq(Printed)
    <2>1. Reads(method[i]) \in Printed
      BY <1>2, MacroFacts DEF Reads, Macro
    <2>2. CopyOf(x, method[i].reads) \in Printed
      BY <1>2, MacroFacts DEF CopyOf
    <2> QED BY <2>1, <2>2
  <1>4. /\ inits' \in [Zvals -> Nat] /\ skips' \in [Zvals -> Nat]
        /\ \A v \in Zvals : inits[v] > 0 => inits'[v] > 0
        /\ \A v \in Zvals : skips'[v] > 0 => inits'[v] > 0
        /\ \A v \in {x} : inits'[v] > 0
    BY <1>1, <1>2, IncreaseKeeps
  <1>5. ASSUME NEW v \in Zvals
        PROVE  /\ RegistersIn(ms, v) => v \in {x}
               /\ WellPrinted(ms, v)
               /\ FirstUseIn(ms, v) => inits[v] = 0 /\ cycles = 0
    <2>1. /\ Len(ms) = 2 /\ \A k \in 1..2 : k = 1 \/ k = 2
          /\ ms[1].op = "READ" /\ ms[2].op = "CPY_WRT" /\ ms[2].vars = {x}
      BY DEF CopyOf, Macro, Reads
    <2> HIDE DEF ms
    <2>2. RegistersIn(ms, v) => v \in {x}
      BY <2>1 DEF RegistersIn, Registers
    <2>3. FirstUseIn(ms, v) => inits[v] = 0 /\ cycles = 0
      BY <2>1 DEF FirstUseIn, FirstUse, First
    <2>4. WellPrinted(ms, v)
      BY <2>1 DEF WellPrinted, FirstUse, Registers, StoredSoon
    <2> QED BY <2>2, <2>3, <2>4
  <1> HIDE DEF ms
  <1> QED BY <1>1, <1>2, <1>3, <1>4, <1>5, PrintKeeps

LEMMA CompileIfKeeps ==
  ASSUME IInv, NEW i, i = next, CompileIf(i)
  PROVE  IInv'
  <1> DEFINE V == Moved(method, i)
             ms == <<Reads(method[i]), InitVars(V), InitNVars(V)>>
  <1>1. /\ i < End /\ method[i].op = "if" /\ Initialized(V) /\ Skipped(V, 2)
        /\ Output(i, ms) /\ cycles' = cycles
    BY DEF CompileIf, Compiling
  <1>2. /\ method[i].reads \in SUBSET Zvals /\ V \in SUBSET Zvals
        /\ cycles \in Nat /\ cycles = Cardinality(Loops(i + 1))
    BY <1>1, LoopsKept, MovedFacts DEF IInv
  <1> HIDE DEF V
  <1>3. ms \in Seq(Printed)
    <2>1. {y \in V : skips[y] = 0 /\ First(y)} \in SUBSET Zvals
          /\ {y \in V : skips[y] = 0 /\ ~First(y)} \in SUBSET Zvals
      BY <1>2
    <2>2. InitVars(V) \in Printed /\ InitNVars(V) \in Printed
      BY <2>1, MacroFacts DEF InitVars, InitNVars, Macro
    <2>3. Reads(method[i]) \in Printed
      BY <1>2, MacroFacts DEF Reads, Macro
    <2> QED BY <2>2, <2>3
  <1>4. /\ inits' \in [Zvals -> Nat] /\ skips' \in [Zvals -> Nat]
        /\ \A v \in Zvals : inits[v] > 0 => inits'[v] > 0
        /\ \A v \in Zvals : skips'[v] > 0 => inits'[v] > 0
        /\ \A v \in V : inits'[v] > 0
    BY <1>1, <1>2, InitKeeps
  <1>5. ASSUME NEW v \in Zvals
        PROVE  /\ RegistersIn(ms, v) => v \in V
               /\ WellPrinted(ms, v)
               /\ FirstUseIn(ms, v) => inits[v] = 0 /\ cycles = 0
    <2>1. /\ Len(ms) = 3 /\ \A k \in 1..3 : k = 1 \/ k = 2 \/ k = 3
          /\ ms[1].op = "READ"
          /\ ms[2].op = "INIT_VAR" /\ ms[2].vars = {y \in V : skips[y] = 0 /\ First(y)}
          /\ ms[3].op = "INIT_NVAR" /\ ms[3].vars = {y \in V : skips[y] = 0 /\ ~First(y)}
      BY DEF InitVars, InitNVars, Macro, Reads
    <2> HIDE DEF ms
    <2>2. RegistersIn(ms, v) => v \in V
      BY <2>1 DEF RegistersIn, Registers
    <2>3. FirstUseIn(ms, v) => inits[v] = 0 /\ cycles = 0
      BY <2>1 DEF FirstUseIn, FirstUse, First
    <2>4. WellPrinted(ms, v)
      BY <2>1 DEF WellPrinted, FirstUse, Registers
    <2> QED BY <2>2, <2>3, <2>4
  <1> HIDE DEF ms
  <1> QED BY <1>1, <1>2, <1>3, <1>4, <1>5, PrintKeeps DEF Counts

\* Statements that initialise nothing.
LEMMA PlainKeeps ==
  ASSUME IInv, NEW i, i = next, i < End, inits' = inits, skips' = skips, cycles' \in Nat,
         cycles' = Cardinality(Loops(i + 1)), ~Counts(i),
         NEW ms \in {<< >>, <<Reads(method[i])>>}, Output(i, ms)
  PROVE  IInv'
  <1>1. /\ inits \in [Zvals -> Nat] /\ skips \in [Zvals -> Nat]
        /\ \A v \in Zvals : skips[v] > 0 => inits[v] > 0
    BY DEF IInv, TypeOK, CountersInv
  <1>2. method[i].reads \in SUBSET Zvals
    <2>1. method \in Methods /\ next \in 1..(Len(method) + 1)
      BY DEF IInv, TypeOK, End
    <2>2. Len(method) \in Nat /\ \A j \in 1..Len(method) : method[j] \in Statement
      BY <2>1, MethodFacts
    <2>3. i \in 1..Len(method)
      BY <2>1, <2>2 DEF End
    <2> QED BY <2>2, <2>3 DEF Statement, Zvals
  <1>3. Reads(method[i]) \in Printed
    BY <1>2, MacroFacts DEF Reads, Macro
  <1>4. ms \in Seq(Printed)
    <2>1. << >> \in Seq(Printed) /\ <<Reads(method[i])>> \in Seq(Printed)
      BY <1>3
    <2> QED BY <2>1
  <1>5. \A k \in 1..Len(ms) : ms[k].op = "READ"
    BY DEF Reads, Macro
  <1>6. \A v \in Zvals : ~RegistersIn(ms, v) /\ ~FirstUseIn(ms, v) /\ WellPrinted(ms, v)
    BY <1>5 DEF RegistersIn, Registers, FirstUseIn, FirstUse, WellPrinted
  <1> QED BY <1>1, <1>4, <1>6, PrintKeeps

LEMMA CompileWhileKeeps ==
  ASSUME IInv, NEW i, i = next, CompileWhile(i)
  PROVE  IInv'
  <1>1. /\ i < End /\ method[i].op = "while" /\ cycles' = cycles + 1
        /\ Output(i, <<Reads(method[i])>>) /\ inits' = inits /\ skips' = skips
    BY DEF CompileWhile, Compiling
  <1>2. method \in Methods /\ i \in 1..Len(method) /\ cycles = Cardinality(Loops(i))
        /\ cycles \in Nat
    BY <1>1, MethodFacts DEF IInv, TypeOK, CountersInv, End
  <1>3. IsFiniteSet(Loops(i)) /\ Loops(i + 1) = Loops(i) \cup {i} /\ i \notin Loops(i)
    BY <1>1, <1>2, LoopsFacts
  <1>4. cycles' = Cardinality(Loops(i + 1)) /\ cycles' \in Nat
    <2> DEFINE S == Loops(i)
    <2>1. IsFiniteSet(S) /\ i \notin S /\ Loops(i + 1) = S \cup {i} /\ cycles = Cardinality(S)
      BY <1>2, <1>3
    <2> HIDE DEF S
    <2>2. Cardinality(S \cup {i}) = Cardinality(S) + 1
      BY <2>1, FS_AddElement
    <2>3. Cardinality(Loops(i + 1)) = Cardinality(S \cup {i})
      BY <2>1, Zenon
    <2> QED BY <1>1, <1>2, <2>1, <2>2, <2>3
  <1>5. ~Counts(i)
    BY <1>1 DEF Counts
  <1> QED BY <1>1, <1>4, <1>5, PlainKeeps

LEMMA CompileEndWhileKeeps ==
  ASSUME IInv, NEW i, i = next, CompileEndWhile(i)
  PROVE  IInv'
  <1>1. /\ i < End /\ method[i].op = "endwhile" /\ cycles' = cycles - 1
        /\ Output(i, << >>) /\ inits' = inits /\ skips' = skips
    BY DEF CompileEndWhile, Compiling
  <1>2. method \in Methods /\ i \in 1..Len(method) /\ cycles = Cardinality(Loops(i))
    BY <1>1, MethodFacts DEF IInv, TypeOK, CountersInv, End
  <1>3. /\ IsFiniteSet(Loops(i)) /\ IsFiniteSet(Loops(i + 1))
        /\ Loops(i + 1) = Loops(i) \ {method[i].to} /\ method[i].to \in Loops(i)
    BY <1>1, <1>2, LoopsFacts
  <1>4. Cardinality(Loops(i + 1)) = Cardinality(Loops(i)) - 1
    BY <1>3, FS_RemoveElement
  <1>5. Cardinality(Loops(i + 1)) \in Nat
    BY <1>3, FS_CardinalityType
  <1>6. cycles' = Cardinality(Loops(i + 1)) /\ cycles' \in Nat
    BY <1>1, <1>2, <1>4, <1>5
  <1> QED BY <1>1, <1>6, PlainKeeps DEF Counts

LEMMA CompileEchoKeeps ==
  ASSUME IInv, NEW i, i = next, CompileEcho(i)
  PROVE  IInv'
  <1>1. /\ i < End /\ method[i].op = "echo" /\ cycles' = cycles
        /\ Output(i, <<Reads(method[i])>>) /\ inits' = inits /\ skips' = skips
    BY DEF CompileEcho, Compiling
  <1> QED BY <1>1, LoopsKept, PlainKeeps DEF Counts

LEMMA CompileOtherKeeps ==
  ASSUME IInv, NEW i, i = next, CompileOther(i)
  PROVE  IInv'
  <1>1. /\ i < End /\ method[i].op \in {"else", "endif", "return", "break", "continue"} /\ cycles' = cycles
        /\ Output(i, << >>) /\ inits' = inits /\ skips' = skips
    BY DEF CompileOther, Compiling
  <1> QED BY <1>1, LoopsKept, PlainKeeps DEF Counts

LEMMA LetItemKeeps ==
  ASSUME IInv, ItemsCounted(method), NEW i, i = next, LetItem(i)
  PROVE  IInv'
  <1> DEFINE x == method[i].var
             ms == <<Macro("INIT_NVAR", {x}), Macro("STORE", {x})>>
  <1>1. /\ i < End /\ method[i].op = "let" /\ method[i].by = "item" /\ Output(i, ms)
        /\ inits' = inits /\ skips' = skips /\ cycles' = cycles
    BY DEF LetItem, Compiling
  <1>2. /\ x \in Zvals /\ i \in 1..Len(method) /\ cycles \in Nat
        /\ cycles = Cardinality(Loops(i + 1))
    BY <1>1, LoopsKept
  <1>3. ms \in Seq(Printed)
    <2>1. Macro("INIT_NVAR", {x}) \in Printed /\ Macro("STORE", {x}) \in Printed
      BY <1>2, MacroFacts DEF Macro
    <2> QED BY <2>1
  <1>4. /\ inits \in [Zvals -> Nat] /\ skips \in [Zvals -> Nat]
        /\ \A v \in Zvals : skips[v] > 0 => inits[v] > 0
    BY DEF IInv, TypeOK, CountersInv
  <1>5. inits[x] > 0
    <2>1. PICK j \in 1..(i - 1) : Counts(j) /\ method[j].var = x
      BY <1>1, <1>2 DEF ItemsCounted, Counts
    <2> QED BY <2>1 DEF IInv, CountersInv
  <1>6. ASSUME NEW v \in Zvals
        PROVE  /\ RegistersIn(ms, v) => v = x
               /\ WellPrinted(ms, v)
               /\ ~FirstUseIn(ms, v)
    <2>1. /\ Len(ms) = 2 /\ \A k \in 1..2 : k = 1 \/ k = 2
          /\ ms[1].op = "INIT_NVAR" /\ ms[1].vars = {x} /\ ms[2].op = "STORE"
      BY DEF Macro
    <2> HIDE DEF ms
    <2> QED BY <2>1 DEF RegistersIn, Registers, FirstUseIn, FirstUse, WellPrinted
  <1> HIDE DEF ms
  <1>7. ~Counts(i)
    BY <1>1 DEF Counts
  <1> QED BY <1>1, <1>2, <1>3, <1>4, <1>5, <1>6, <1>7, PrintKeeps

LEMMA CompileForVariableKeeps ==
  ASSUME IInv, NEW i, i = next, CompileForVariable(i)
  PROVE  IInv'
  <1> DEFINE x == method[i].var
             ms == <<Reads(method[i])>>
  <1>1. /\ i < End /\ method[i].op = "for" /\ Output(i, ms) /\ cycles' = cycles
        /\ Increased({x}) /\ skips' = skips
    BY DEF CompileForVariable, Compiling
  <1>2. /\ x \in Zvals /\ method[i].reads \in SUBSET Zvals
        /\ cycles \in Nat /\ cycles = Cardinality(Loops(i + 1))
    BY <1>1, LoopsKept
  <1>3. ms \in Seq(Printed)
    <2>1. Reads(method[i]) \in Printed
      BY <1>2, MacroFacts DEF Reads, Macro
    <2> QED BY <2>1
  <1>4. /\ inits' \in [Zvals -> Nat] /\ skips' \in [Zvals -> Nat]
        /\ \A v \in Zvals : inits[v] > 0 => inits'[v] > 0
        /\ \A v \in Zvals : skips'[v] > 0 => inits'[v] > 0
        /\ \A v \in {x} : inits'[v] > 0
    BY <1>1, <1>2, IncreaseKeeps
  <1>5. \A v \in Zvals : ~RegistersIn(ms, v) /\ ~FirstUseIn(ms, v) /\ WellPrinted(ms, v)
    BY DEF Reads, Macro, RegistersIn, Registers, FirstUseIn, FirstUse, WellPrinted
  <1> HIDE DEF ms
  <1> QED BY <1>1, <1>2, <1>3, <1>4, <1>5, PrintKeeps

LEMMA CompileForArrayKeeps ==
  ASSUME IInv, NEW i, i = next, CompileForArray(i)
  PROVE  IInv'
  <1> DEFINE x == method[i].var
             t == HeapArray(i)
             ms == <<InitVars({t}), InitNVars({t}), Reads(method[i]), Macro("STORE", {t})>>
  <1>1. /\ i < End /\ method[i].op = "for" /\ Output(i, ms) /\ cycles' = cycles
        /\ Increased({t, x}) /\ skips' = skips
    BY DEF CompileForArray, Compiling
  <1>2. /\ x \in Zvals /\ t \in Zvals /\ method[i].reads \in SUBSET Zvals
        /\ cycles \in Nat /\ cycles = Cardinality(Loops(i + 1))
    BY <1>1, LoopsKept, BlocksFacts DEF IInv
  <1>3. ms \in Seq(Printed)
    <2>1. InitVars({t}) \in Printed /\ InitNVars({t}) \in Printed
      BY <1>2, MacroFacts DEF InitVars, InitNVars, Macro
    <2>2. Reads(method[i]) \in Printed /\ Macro("STORE", {t}) \in Printed
      BY <1>2, MacroFacts DEF Reads, Macro
    <2> QED BY <2>1, <2>2
  <1>4. /\ inits' \in [Zvals -> Nat] /\ skips' \in [Zvals -> Nat]
        /\ \A v \in Zvals : inits[v] > 0 => inits'[v] > 0
        /\ \A v \in Zvals : skips'[v] > 0 => inits'[v] > 0
        /\ \A v \in {t, x} : inits'[v] > 0
    BY <1>1, <1>2, IncreaseKeeps
  <1>5. ASSUME NEW v \in Zvals
        PROVE  /\ RegistersIn(ms, v) => v \in {t, x}
               /\ WellPrinted(ms, v)
               /\ FirstUseIn(ms, v) => inits[v] = 0 /\ cycles = 0
    <2>1. /\ Len(ms) = 4 /\ \A k \in 1..4 : k = 1 \/ k = 2 \/ k = 3 \/ k = 4
          /\ ms[1].op = "INIT_VAR" /\ ms[1].vars = {y \in {t} : skips[y] = 0 /\ First(y)}
          /\ ms[2].op = "INIT_NVAR" /\ ms[2].vars = {y \in {t} : skips[y] = 0 /\ ~First(y)}
          /\ ms[3].op = "READ" /\ ms[4].op = "STORE"
      BY DEF InitVars, InitNVars, Macro, Reads
    <2> HIDE DEF ms
    <2>2. RegistersIn(ms, v) => v \in {t, x}
      BY <2>1 DEF RegistersIn, Registers
    <2>3. FirstUseIn(ms, v) => inits[v] = 0 /\ cycles = 0
      BY <2>1 DEF FirstUseIn, FirstUse, First
    <2>4. WellPrinted(ms, v)
      BY <2>1 DEF WellPrinted, FirstUse, Registers
    <2> QED BY <2>2, <2>3, <2>4
  <1> HIDE DEF ms
  <1> QED BY <1>1, <1>2, <1>3, <1>4, <1>5, PrintKeeps

LEMMA CompileForCallKeeps ==
  ASSUME IInv, NEW i, i = next, CompileForCall(i)
  PROVE  IInv'
  <1> DEFINE x == method[i].var
             t == Result(i)
             ms == <<Reads(method[i]), Macro("NULLIFY", {t}), Macro("STORE", {t})>>
  <1>1. /\ i < End /\ method[i].op = "for" /\ Output(i, ms) /\ cycles' = cycles
        /\ Increased({t, x}) /\ skips' = skips
    BY DEF CompileForCall, Compiling
  <1>2. /\ x \in Zvals /\ t \in Zvals /\ method[i].reads \in SUBSET Zvals
        /\ cycles \in Nat /\ cycles = Cardinality(Loops(i + 1))
    BY <1>1, LoopsKept, BlocksFacts DEF IInv
  <1>3. ms \in Seq(Printed)
    <2>1. Reads(method[i]) \in Printed
      BY <1>2, MacroFacts DEF Reads, Macro
    <2>2. Macro("NULLIFY", {t}) \in Printed /\ Macro("STORE", {t}) \in Printed
      BY <1>2, MacroFacts DEF Macro
    <2> QED BY <2>1, <2>2
  <1>4. /\ inits' \in [Zvals -> Nat] /\ skips' \in [Zvals -> Nat]
        /\ \A v \in Zvals : inits[v] > 0 => inits'[v] > 0
        /\ \A v \in Zvals : skips'[v] > 0 => inits'[v] > 0
        /\ \A v \in {t, x} : inits'[v] > 0
    BY <1>1, <1>2, IncreaseKeeps
  <1>5. ASSUME NEW v \in Zvals
        PROVE  /\ RegistersIn(ms, v) => v \in {t, x}
               /\ WellPrinted(ms, v)
               /\ ~FirstUseIn(ms, v)
    <2>1. /\ Len(ms) = 3 /\ \A k \in 1..3 : k = 1 \/ k = 2 \/ k = 3
          /\ ms[1].op = "READ" /\ ms[2].op = "NULLIFY" /\ ms[2].vars = {t}
          /\ ms[3].op = "STORE" /\ ms[3].vars = {t}
      BY DEF Macro, Reads
    <2> HIDE DEF ms
    <2>2. (RegistersIn(ms, v) => v \in {t, x}) /\ ~FirstUseIn(ms, v)
      BY <2>1 DEF RegistersIn, Registers, FirstUseIn, FirstUse
    <2>3. WellPrinted(ms, v)
      BY <2>1 DEF WellPrinted, FirstUse, Registers, StoredSoon
    <2> QED BY <2>2, <2>3
  <1> HIDE DEF ms
  <1> QED BY <1>1, <1>2, <1>3, <1>4, <1>5, PrintKeeps

LEMMA CompileForIteratorKeeps ==
  ASSUME IInv, NEW i, i = next, CompileForIterator(i)
  PROVE  IInv'
  <1>1. /\ i < End /\ method[i].op = "for" /\ method[i].by = "item" /\ cycles' = cycles
        /\ Output(i, <<Reads(method[i])>>) /\ inits' = inits /\ skips' = skips
    BY DEF CompileForIterator, Compiling
  <1> QED BY <1>1, LoopsKept, PlainKeeps DEF Counts

LEMMA CompileEndForKeeps ==
  ASSUME IInv, NEW i, i = next, CompileEndFor(i)
  PROVE  IInv'
  <1> DEFINE x == method[i].var
             ms == <<Macro("INIT_NVAR", {v \in {x} : skips[v] = 0})>>
  <1>1. /\ i < End /\ method[i].op = "endfor" /\ Output(i, ms) /\ cycles' = cycles
        /\ Initialized({x}) /\ Skipped({x}, 0)
    BY DEF CompileEndFor, Compiling
  <1>2. x \in Zvals /\ cycles \in Nat /\ cycles = Cardinality(Loops(i + 1))
    BY <1>1, LoopsKept
  <1>3. ms \in Seq(Printed)
    <2>1. Macro("INIT_NVAR", {v \in {x} : skips[v] = 0}) \in Printed
      BY <1>2, MacroFacts DEF Macro
    <2> QED BY <2>1
  <1>4. /\ inits' \in [Zvals -> Nat] /\ skips' \in [Zvals -> Nat]
        /\ \A v \in Zvals : inits[v] > 0 => inits'[v] > 0
        /\ \A v \in Zvals : skips'[v] > 0 => inits'[v] > 0
        /\ \A v \in {x} : inits'[v] > 0
    BY <1>1, <1>2, InitKeeps
  <1>5. ASSUME NEW v \in Zvals
        PROVE  /\ RegistersIn(ms, v) => v \in {x}
               /\ WellPrinted(ms, v)
               /\ ~FirstUseIn(ms, v)
    <2>1. /\ Len(ms) = 1 /\ \A k \in 1..1 : k = 1
          /\ ms[1].op = "INIT_NVAR" /\ ms[1].vars = {y \in {x} : skips[y] = 0}
      BY DEF Macro
    <2> HIDE DEF ms
    <2> QED BY <2>1 DEF RegistersIn, Registers, FirstUseIn, FirstUse, WellPrinted
  <1> HIDE DEF ms
  <1>6. ~Counts(i)
    BY <1>1 DEF Counts
  <1> QED BY <1>1, <1>2, <1>3, <1>4, <1>5, <1>6, PrintKeeps

LEMMA CompileKeeps ==
  ASSUME IInv, ItemsCounted(method), Compile(next)
  PROVE  IInv'
  BY LetItemKeeps, CompileForVariableKeeps, CompileForArrayKeeps, CompileForCallKeeps,
     CompileForIteratorKeeps, CompileEndForKeeps, LetValueKeeps,
     LetNumberOfOwnKeeps, LetValueOfOwnKeeps, LetCallKeeps, LetCallOfOwnKeeps, LetFetchKeeps,
     LetFetchOfOwnKeeps, LetCopyKeeps, CompileIfKeeps, CompileWhileKeeps,
     CompileEndWhileKeeps, CompileEchoKeeps, CompileOtherKeeps DEF Compile

-----------------------------------------------------------------------------
\* The run.

Running == next = End /\ pc < End

LEMMA RunFacts ==
  ASSUME IInv, Running
  PROVE  /\ pc \in 1..Len(method) /\ pc \in 1..(next - 1) /\ next - 1 = Len(method)
         /\ Len(method) \in Nat
         /\ \A p \in 1..Len(method) : code[p] \in Seq(Printed) /\ Len(code[p]) \in Nat
  <1>1. /\ method \in Methods /\ pc \in 1..End /\ next = Len(method) + 1
        /\ code \in Seq(Seq(Printed)) /\ Len(code) = next - 1
    BY DEF IInv, TypeOK, Running, End
  <1>2. Len(method) \in Nat
    BY <1>1, MethodFacts
  <1>3. pc \in 1..Len(method)
    BY <1>1, <1>2 DEF Running, End
  <1>4. \A p \in 1..Len(method) : code[p] \in Seq(Printed)
    BY <1>1, <1>2
  <1> QED BY <1>1, <1>2, <1>3, <1>4

LEMMA MacroNow ==
  ASSUME IInv, Running, step <= Len(Macros)
  PROVE  /\ step \in 1..Len(code[pc]) /\ Now \in Printed /\ Now = code[pc][step]
         /\ Now.vars \in SUBSET Zvals /\ Now.from \in SUBSET Zvals
  <1>1. step \in Nat \ {0}
    BY DEF IInv, TypeOK
  <1>2. code[pc] \in Seq(Printed) /\ Len(code[pc]) \in Nat
    BY RunFacts
  <1>3. step \in 1..Len(code[pc])
    BY <1>1, <1>2 DEF Macros
  <1>4. code[pc][step] \in Printed
    BY <1>2, <1>3
  <1> QED BY <1>3, <1>4 DEF Now, Macros, Printed

\* A macro printed for a first use is one.
LEMMA FirstIsFirst ==
  ASSUME IInv, Running, step <= Len(Macros), NEW v \in Zvals, FirstUse(Now, v)
  PROVE  registered[v] = 0
  <1>1. registered[v] \in Nat
    BY DEF IInv, TypeOK
  <1>2. pc \in pc..Len(method) /\ step \in 1..Len(code[pc]) /\ FirstUse(code[pc][step], v)
    BY RunFacts, MacroNow
  <1>3. registered[v] > 0 => step < step
    BY <1>2 DEF IInv, RunInv
  <1>4. step \in Nat
    BY DEF IInv, TypeOK
  <1> QED BY <1>1, <1>3, <1>4

\* A zval that other macros find unset is not in the frame.
LEMMA UnsetIsNew ==
  ASSUME IInv, Running, step <= Len(Macros), NEW v \in Now.vars,
         Now.op \notin {"READ", "STORE"}, zv[v] = Undef
  PROVE  registered[v] = 0
  <1>0. v \in Zvals /\ step \in 1..Len(code[pc]) /\ Now = code[pc][step] /\ step \in Nat
    BY MacroNow DEF IInv, TypeOK
  <1>1. registered[v] \in Nat
    BY <1>0 DEF IInv, TypeOK
  <1>2. registered[v] > 0 => StoredSoon(code[pc], step, v)
    BY <1>0 DEF IInv, RunInv, Running
  <1>3. ~StoredSoon(code[pc], step, v)
    <2> SUFFICES ASSUME NEW n \in step..Len(code[pc]), code[pc][n].op = "STORE",
                        \A j \in step..(n - 1) :
                          code[pc][j].op = "READ" \/ v \notin code[pc][j].vars
                 PROVE  FALSE
      BY DEF StoredSoon
    <2>1. n # step
      BY <1>0
    <2>2. step \in step..(n - 1)
      BY <1>0, <2>1
    <2> QED BY <1>0, <2>2
  <1> QED BY <1>1, <1>2, <1>3

\* What is unset and in the frame gets its value soon, step by step.
LEMMA StillSoon ==
  ASSUME IInv, Running, step <= Len(Macros), NEW v \in Zvals,
         registered[v] > 0, zv[v] = Undef, ~(Now.op = "STORE" /\ v \in Now.vars)
  PROVE  StoredSoon(code[pc], step + 1, v)
  <1>0. step \in 1..Len(code[pc]) /\ Now = code[pc][step] /\ step \in Nat
    BY MacroNow DEF IInv, TypeOK
  <1>1. StoredSoon(code[pc], step, v)
    BY DEF IInv, RunInv, Running
  <1>2. PICK n \in step..Len(code[pc]) :
          /\ code[pc][n].op = "STORE" /\ v \in code[pc][n].vars
          /\ \A j \in step..(n - 1) : code[pc][j].op = "READ" \/ v \notin code[pc][j].vars
    BY <1>1 DEF StoredSoon
  <1>3. n # step
    BY <1>0, <1>2
  <1>4. n \in (step + 1)..Len(code[pc])
    BY <1>0, <1>3
  <1>5. \A j \in (step + 1)..(n - 1) : code[pc][j].op = "READ" \/ v \notin code[pc][j].vars
    BY <1>0, <1>2
  <1> QED BY <1>2, <1>4, <1>5 DEF StoredSoon

\* A macro keeps the invariant when it registers what is not registered.
LEMMA MacroKeeps ==
  ASSUME IInv, Running, step <= Len(Macros), Advance,
         NEW V \in SUBSET Zvals, Register(V),
         \A v \in V : registered[v] = 0 /\ Registers(Now, v),
         zv' \in [Zvals -> {Undef, Null} \cup Nat],
         \A v \in Zvals : registered'[v] > 0 /\ zv'[v] = Undef => StoredSoon(code[pc], step + 1, v)
  PROVE  IInv'
  <1>0. /\ UNCHANGED <<method, next, inits, skips, cycles, code, pc, traversed, source>>
        /\ step' = step + 1
    BY DEF Advance, compiler
  <1>1. Zvals' = Zvals /\ End' = End /\ Printed' = Printed
    BY <1>0 DEF Zvals, Temporaries, Pool, Blocks, End, Printed
  <1>2. method \in Methods /\ TypeOK /\ CountersInv /\ CodeInv /\ RunInv
    BY DEF IInv
  <1>3. registered \in [Zvals -> Nat] /\ step \in Nat \ {0}
    BY <1>2 DEF TypeOK
  <1>4. registered' = [v \in Zvals |-> IF v \in V THEN registered[v] + 1 ELSE registered[v]]
    BY DEF Register
  <1>5. registered' \in [Zvals -> Nat]
    BY <1>3, <1>4
  <1>6. TypeOK'
    BY <1>0, <1>1, <1>2, <1>3, <1>5 DEF TypeOK
  <1>7. CountersInv'
    BY <1>0, <1>1, <1>2 DEF CountersInv, Loops, Counts
  <1>8. CodeInv'
    BY <1>0, <1>1, <1>2 DEF CodeInv
  <1>9. ASSUME NEW v \in Zvals
        PROVE  /\ registered'[v] <= 1
               /\ registered'[v] > 0 =>
                    \A p \in pc..Len(method) : \A k \in 1..Len(code[p]) :
                      FirstUse(code[p][k], v) => p = pc /\ k < step + 1
    <2>1. CASE v \notin V
      <3>1. registered'[v] = registered[v]
        BY <2>1, <1>4
      <3>2. /\ registered[v] <= 1
            /\ registered[v] > 0 =>
                 \A p \in pc..Len(method) : \A k \in 1..Len(code[p]) :
                   FirstUse(code[p][k], v) => p = pc /\ k < step
        BY <1>2 DEF RunInv
      <3>3. \A p \in pc..Len(method) : \A k \in 1..Len(code[p]) : k < step => k < step + 1
        BY <1>3, RunFacts
      <3> QED BY <3>1, <3>2, <3>3
    <2>2. CASE v \in V
      <3>1. registered'[v] = 1
        BY <2>2, <1>3, <1>4
      <3>2. step \in 1..Len(code[pc]) /\ Registers(code[pc][step], v)
        BY <2>2, MacroNow
      <3>3. ASSUME NEW p \in pc..Len(method), NEW k \in 1..Len(code[p]),
                   FirstUse(code[p][k], v)
            PROVE  p = pc /\ k < step + 1
        <4>1. /\ p \in 1..(next - 1) /\ pc \in 1..Len(method) /\ Len(method) \in Nat
              /\ Len(code[p]) \in Nat
          BY RunFacts
        <4>2. FirstUseIn(code[p], v)
          BY <3>3 DEF FirstUseIn
        <4>3. /\ WellPrinted(code[p], v)
              /\ \A q \in 1..(p - 1) : ~RegistersIn(code[q], v)
          BY <4>1, <4>2, <1>2 DEF CodeInv
        <4>4. RegistersIn(code[pc], v)
          BY <3>2 DEF RegistersIn
        <4>5. p = pc
          BY <4>1, <4>3, <4>4
        <4>6. \A j \in 1..(k - 1) : ~Registers(code[pc][j], v)
          BY <4>3, <4>5, <3>3 DEF WellPrinted
        <4> QED BY <4>1, <4>5, <4>6, <3>2, <1>3
      <3> QED BY <3>1, <3>3
    <2> QED BY <2>1, <2>2
  <1>10. RunInv'
    <2>1. next = End
      BY DEF Running
    <2> QED BY <1>0, <1>1, <1>9, <2>1 DEF RunInv
  <1> QED BY <1>0, <1>2, <1>6, <1>7, <1>8, <1>10 DEF IInv

LEMMA WriteFacts ==
  ASSUME IInv, NEW V \in SUBSET Zvals, NEW c \in {Undef, Null} \cup Nat, Write(V, c)
  PROVE  /\ zv' \in [Zvals -> {Undef, Null} \cup Nat]
         /\ \A v \in V : zv'[v] = c
         /\ \A v \in Zvals \ V : zv'[v] = zv[v]
  BY DEF IInv, TypeOK, Write

LEMMA RegisterFacts ==
  ASSUME IInv, NEW V \in SUBSET Zvals, Register(V)
  PROVE  \A v \in Zvals \ V : registered'[v] = registered[v]
  BY DEF IInv, TypeOK, Register

\* What a macro has for other zvals goes on.
LEMMA OthersSoon ==
  ASSUME IInv, Running, step <= Len(Macros), NEW v \in Zvals \ Now.vars,
         registered[v] > 0, zv[v] = Undef
  PROVE  StoredSoon(code[pc], step + 1, v)
  BY StillSoon

\* A macro that leaves a zval unset is followed by the value.
LEMMA OwnSoon ==
  ASSUME IInv, Running, step <= Len(Macros), NEW v \in Now.vars,
         Now.op \in {"OBS_VAR", "OBS_NVAR", "NULLIFY"}
  PROVE  StoredSoon(code[pc], step + 1, v)
  <1>1. /\ pc \in 1..(next - 1) /\ v \in Zvals
        /\ step \in 1..Len(code[pc]) /\ Now = code[pc][step]
    BY RunFacts, MacroNow
  <1>2. WellPrinted(code[pc], v)
    BY <1>1 DEF IInv, CodeInv
  <1> QED BY <1>1, <1>2 DEF WellPrinted

LEMMA InitVarKeeps ==
  ASSUME IInv, InitVar
  PROVE  IInv'
  <1> DEFINE V == Now.vars
  <1>1. /\ Running /\ step <= Len(Macros) /\ Now.op = "INIT_VAR"
        /\ Register(V) /\ Write(V, Null) /\ Advance
    BY DEF InitVar, At, Running
  <1>2. V \in SUBSET Zvals
    BY <1>1, MacroNow
  <1>3. \A v \in V : registered[v] = 0 /\ Registers(Now, v)
    BY <1>1, <1>2, FirstIsFirst DEF FirstUse, Registers
  <1>4. /\ zv' \in [Zvals -> {Undef, Null} \cup Nat]
        /\ \A v \in V : zv'[v] = Null
        /\ \A v \in Zvals \ V : zv'[v] = zv[v]
    BY <1>1, <1>2, WriteFacts
  <1>5. ASSUME NEW v \in Zvals, registered'[v] > 0, zv'[v] = Undef
        PROVE  StoredSoon(code[pc], step + 1, v)
    <2>1. v \in Zvals \ V
      BY <1>4, <1>5, ValuesAssumption
    <2>2. registered[v] > 0 /\ zv[v] = Undef
      BY <1>1, <1>2, <1>4, <1>5, <2>1, RegisterFacts
    <2> QED BY <1>1, <2>1, <2>2, OthersSoon
  <1> QED BY <1>1, <1>2, <1>3, <1>4, <1>5, MacroKeeps

LEMMA InitNVarKeeps ==
  ASSUME IInv, InitNVar
  PROVE  IInv'
  <1> DEFINE V == Now.vars
  <1>1. /\ Running /\ step <= Len(Macros) /\ Now.op = "INIT_NVAR"
        /\ Register(Unused(V)) /\ Write(V, Null) /\ Advance
    BY DEF InitNVar, At, Running
  <1>2. V \in SUBSET Zvals /\ Unused(V) \in SUBSET V
    BY <1>1, MacroNow DEF Unused
  <1>3. \A v \in Unused(V) : registered[v] = 0 /\ Registers(Now, v)
    BY <1>1, <1>2, UnsetIsNew DEF Unused, Registers
  <1>4. /\ zv' \in [Zvals -> {Undef, Null} \cup Nat]
        /\ \A v \in V : zv'[v] = Null
        /\ \A v \in Zvals \ V : zv'[v] = zv[v]
    BY <1>1, <1>2, WriteFacts
  <1>5. ASSUME NEW v \in Zvals, registered'[v] > 0, zv'[v] = Undef
        PROVE  StoredSoon(code[pc], step + 1, v)
    <2>1. v \in Zvals \ V
      BY <1>4, <1>5, ValuesAssumption
    <2>2. registered[v] > 0 /\ zv[v] = Undef
      BY <1>1, <1>2, <1>4, <1>5, <2>1, RegisterFacts
    <2> QED BY <1>1, <2>1, <2>2, OthersSoon
  <1> QED BY <1>1, <1>2, <1>3, <1>4, <1>5, MacroKeeps

LEMMA ObsVarKeeps ==
  ASSUME IInv, ObsVar
  PROVE  IInv'
  <1> DEFINE V == Now.vars
  <1>1. /\ Running /\ step <= Len(Macros) /\ Now.op = "OBS_VAR"
        /\ Register(V) /\ zv' = zv /\ Advance
    BY DEF ObsVar, At, Running
  <1>2. V \in SUBSET Zvals /\ zv' \in [Zvals -> {Undef, Null} \cup Nat]
    BY <1>1, MacroNow DEF IInv, TypeOK
  <1>3. \A v \in V : registered[v] = 0 /\ Registers(Now, v)
    BY <1>1, <1>2, FirstIsFirst DEF FirstUse, Registers
  <1>4. ASSUME NEW v \in Zvals, registered'[v] > 0, zv'[v] = Undef
        PROVE  StoredSoon(code[pc], step + 1, v)
    <2>1. CASE v \in V
      BY <1>1, <2>1, OwnSoon
    <2>2. CASE v \notin V
      <3>1. registered[v] > 0 /\ zv[v] = Undef
        BY <1>1, <1>2, <1>4, <2>2, RegisterFacts
      <3> QED BY <1>1, <2>2, <3>1, OthersSoon
    <2> QED BY <2>1, <2>2
  <1> QED BY <1>1, <1>2, <1>3, <1>4, MacroKeeps

LEMMA ObsNVarKeeps ==
  ASSUME IInv, ObsNVar
  PROVE  IInv'
  <1> DEFINE V == Now.vars
  <1>1. /\ Running /\ step <= Len(Macros) /\ Now.op = "OBS_NVAR"
        /\ Register(Unused(V)) /\ Write(V \ Unused(V), Null) /\ Advance
    BY DEF ObsNVar, At, Running
  <1>2. V \in SUBSET Zvals /\ Unused(V) \in SUBSET V
    BY <1>1, MacroNow DEF Unused
  <1>3. \A v \in Unused(V) : registered[v] = 0 /\ Registers(Now, v)
    BY <1>1, <1>2, UnsetIsNew DEF Unused, Registers
  <1>4. /\ zv' \in [Zvals -> {Undef, Null} \cup Nat]
        /\ \A v \in Zvals \ V : zv'[v] = zv[v]
    <2>1. V \ Unused(V) \in SUBSET Zvals /\ Null \in {Undef, Null} \cup Nat
      BY <1>2
    <2>2. /\ zv' \in [Zvals -> {Undef, Null} \cup Nat]
          /\ \A v \in Zvals \ (V \ Unused(V)) : zv'[v] = zv[v]
      BY <1>1, <2>1, WriteFacts
    <2> QED BY <2>2
  <1>5. ASSUME NEW v \in Zvals, registered'[v] > 0, zv'[v] = Undef
        PROVE  StoredSoon(code[pc], step + 1, v)
    <2>1. CASE v \in V
      BY <1>1, <2>1, OwnSoon
    <2>2. CASE v \notin V
      <3>1. registered[v] > 0 /\ zv[v] = Undef
        BY <1>1, <1>2, <1>4, <1>5, <2>2, RegisterFacts
      <3> QED BY <1>1, <2>2, <3>1, OthersSoon
    <2> QED BY <2>1, <2>2
  <1> QED BY <1>1, <1>2, <1>3, <1>4, <1>5, MacroKeeps

LEMMA NullifyKeeps ==
  ASSUME IInv, Nullify
  PROVE  IInv'
  <1> DEFINE V == Now.vars
  <1>1. /\ Running /\ step <= Len(Macros) /\ Now.op = "NULLIFY"
        /\ Register(Unused(V)) /\ Write(V, Undef) /\ Advance
    BY DEF Nullify, At, Running
  <1>2. V \in SUBSET Zvals /\ Unused(V) \in SUBSET V
    BY <1>1, MacroNow DEF Unused
  <1>3. \A v \in Unused(V) : registered[v] = 0 /\ Registers(Now, v)
    BY <1>1, <1>2, UnsetIsNew DEF Unused, Registers
  <1>4. /\ zv' \in [Zvals -> {Undef, Null} \cup Nat]
        /\ \A v \in Zvals \ V : zv'[v] = zv[v]
    BY <1>1, <1>2, WriteFacts
  <1>5. ASSUME NEW v \in Zvals, registered'[v] > 0, zv'[v] = Undef
        PROVE  StoredSoon(code[pc], step + 1, v)
    <2>1. CASE v \in V
      BY <1>1, <2>1, OwnSoon
    <2>2. CASE v \notin V
      <3>1. registered[v] > 0 /\ zv[v] = Undef
        BY <1>1, <1>2, <1>4, <1>5, <2>2, RegisterFacts
      <3> QED BY <1>1, <2>2, <3>1, OthersSoon
    <2> QED BY <2>1, <2>2
  <1> QED BY <1>1, <1>2, <1>3, <1>4, <1>5, MacroKeeps

LEMMA CpyWrtKeeps ==
  ASSUME IInv, ~UnsetCopies, CpyWrt
  PROVE  IInv'
  <1> DEFINE V == Now.vars
  <1>1. /\ Running /\ step <= Len(Macros) /\ Now.op = "CPY_WRT"
        /\ Register(Unused(V)) /\ Advance
    BY DEF CpyWrt, At, Running
  <1>2. /\ V \in SUBSET Zvals /\ Unused(V) \in SUBSET V
        /\ Now.from \in SUBSET Zvals
    BY <1>1, MacroNow DEF Unused
  <1>3. \A v \in Unused(V) : registered[v] = 0 /\ Registers(Now, v)
    BY <1>1, <1>2, UnsetIsNew DEF Unused, Registers
  <1>4. \E c \in {Null} \cup Nat : Write(V, c)
    <2>1. CASE Now.from = {} /\ Write(V, pc)
      <3>1. pc \in Nat
        BY <1>1, RunFacts
      <3> QED BY <2>1, <3>1
    <2>2. ASSUME NEW y \in Now.from, zv[y] # Undef, Write(V, zv[y])
          PROVE  \E c \in {Null} \cup Nat : Write(V, c)
      <3>1. zv[y] \in {Undef, Null} \cup Nat
        BY <1>2 DEF IInv, TypeOK
      <3> QED BY <2>2, <3>1
    <2> QED BY <2>1, <2>2 DEF CpyWrt
  <1>5. PICK c \in {Null} \cup Nat : Write(V, c)
    BY <1>4
  <1>6. /\ zv' \in [Zvals -> {Undef, Null} \cup Nat]
        /\ \A v \in V : zv'[v] = c
        /\ \A v \in Zvals \ V : zv'[v] = zv[v]
    BY <1>2, <1>5, WriteFacts
  <1>7. ASSUME NEW v \in Zvals, registered'[v] > 0, zv'[v] = Undef
        PROVE  StoredSoon(code[pc], step + 1, v)
    <2>1. v \in Zvals \ V
      BY <1>5, <1>6, <1>7, ValuesAssumption
    <2>2. registered[v] > 0 /\ zv[v] = Undef
      BY <1>1, <1>2, <1>6, <1>7, <2>1, RegisterFacts
    <2> QED BY <1>1, <2>1, <2>2, OthersSoon
  <1> QED BY <1>1, <1>2, <1>3, <1>6, <1>7, MacroKeeps

LEMMA StoreKeeps ==
  ASSUME IInv, Store
  PROVE  IInv'
  <1> DEFINE V == Now.vars
  <1>1. /\ Running /\ step <= Len(Macros) /\ Now.op = "STORE"
        /\ Write(V, pc) /\ registered' = registered /\ Advance
    BY DEF Store, At, Running
  <1>2. V \in SUBSET Zvals /\ pc \in Nat
    BY <1>1, MacroNow DEF IInv, TypeOK
  <1>3. /\ zv' \in [Zvals -> {Undef, Null} \cup Nat]
        /\ \A v \in V : zv'[v] = pc
        /\ \A v \in Zvals \ V : zv'[v] = zv[v]
    BY <1>1, <1>2, WriteFacts
  <1>4. Register({})
    BY <1>1 DEF Register, IInv, TypeOK
  <1>5. ASSUME NEW v \in Zvals, registered'[v] > 0, zv'[v] = Undef
        PROVE  StoredSoon(code[pc], step + 1, v)
    <2>1. v \in Zvals \ V
      BY <1>2, <1>3, <1>5, ValuesAssumption
    <2> QED BY <1>1, <1>3, <1>5, <2>1, OthersSoon
  <1> QED BY <1>1, <1>3, <1>4, <1>5, MacroKeeps

LEMMA ReadKeeps ==
  ASSUME IInv, Read
  PROVE  IInv'
  <1>1. /\ Running /\ step <= Len(Macros) /\ Now.op = "READ"
        /\ zv' = zv /\ registered' = registered /\ Advance
    BY DEF Read, At, Running
  <1>2. zv' \in [Zvals -> {Undef, Null} \cup Nat] /\ Register({})
    BY <1>1 DEF Register, IInv, TypeOK
  <1>3. ASSUME NEW v \in Zvals, registered'[v] > 0, zv'[v] = Undef
        PROVE  StoredSoon(code[pc], step + 1, v)
    BY <1>1, <1>3, StillSoon
  <1> QED BY <1>1, <1>2, <1>3, MacroKeeps

\* Where a statement may go on, and what it may do to the source.
LEMMA GoesFacts ==
  ASSUME IInv, Running
  PROVE  /\ \A p \in GoesTo(method, pc) : p \in 1..End /\ (p > pc \/ method[pc].op = "endwhile")
         /\ method[pc].op = "endwhile" =>
              \A p \in GoesTo(method, pc) : p < pc /\ method[p].op = "while" /\ method[p].to = pc
         /\ Means(pc) \in [Variables -> {Unset} \cup Nat]
         /\ Traverses(pc) \in [1..Len(method) -> {Undef, Null} \cup Nat]
  <1>1. pc \in 1..Len(method) /\ Len(method) \in Nat /\ WellFormed(method)
        /\ method[pc] \in Statement
    BY RunFacts, MethodFacts DEF IInv
  <1>2. /\ method[pc].op \in {"if", "else", "while"} => method[pc].to \in (pc + 1)..Len(method)
        /\ method[pc].op = "endwhile" =>
             /\ method[pc].to \in 1..(pc - 1) /\ method[method[pc].to].op = "while"
             /\ method[method[pc].to].to = pc
        /\ method[pc].op \in {"break", "continue"} => method[pc].to \in (pc + 1)..Len(method)
    BY <1>1 DEF WellFormed
  <1>3. \A p \in GoesTo(method, pc) : p \in 1..End /\ (p > pc \/ method[pc].op = "endwhile")
    BY <1>1, <1>2 DEF GoesTo, End
  <1>4. method[pc].op = "endwhile" =>
          \A p \in GoesTo(method, pc) : p < pc /\ method[p].op = "while" /\ method[p].to = pc
    BY <1>1, <1>2 DEF GoesTo
  <1>5. Means(pc) \in [Variables -> {Unset} \cup Nat]
    <2>1. source \in [Variables -> {Unset} \cup Nat] /\ method[pc].var \in Variables
      BY <1>1 DEF IInv, TypeOK, Statement
    <2>2. CASE method[pc].op # "let"
      BY <2>1, <2>2 DEF Means
    <2>3. CASE method[pc].by # "copy"
      BY <1>1, <2>1, <2>3 DEF Means
    <2>4. CASE method[pc].by = "copy"
      <3>1. (CHOOSE y \in method[pc].reads : TRUE) \in Variables
        <4>1. PICK y \in Variables : method[pc].reads = {y}
          BY <1>1, <2>4 DEF WellFormed
        <4> QED BY <4>1
      <3> DEFINE z == source[CHOOSE y \in method[pc].reads : TRUE]
      <3>2. z \in {Unset} \cup Nat
        BY <2>1, <3>1
      <3>3. Means(pc) = source \/ Means(pc) = [source EXCEPT ![method[pc].var] = z]
        BY <2>4 DEF Means
      <3> HIDE DEF z
      <3> QED BY <2>1, <3>2, <3>3
    <2> QED BY <2>2, <2>3, <2>4
  <1>6. Traverses(pc) \in [1..Len(method) -> {Undef, Null} \cup Nat]
    <2>1. /\ traversed \in [1..Len(method) -> {Undef, Null} \cup Nat]
          /\ zv \in [Zvals -> {Undef, Null} \cup Nat]
      BY DEF IInv, TypeOK
    <2>2. CASE method[pc].op # "for" \/ method[pc].by = "item"
      BY <2>1, <2>2 DEF Traverses
    <2>3. CASE method[pc].op = "for" /\ method[pc].by # "item"
      <3>1. method[pc].by \in {"value", "call", "copy"}
        BY <1>1, <2>3 DEF WellFormed, Statement, Kinds, Numbers
      <3>2. {HeapArray(pc), Result(pc)} \subseteq Zvals
        BY <1>1, BlocksFacts DEF IInv
      <3>3. method[pc].by = "copy" => (CHOOSE y \in method[pc].reads : TRUE) \in Zvals
        <4>1. SUFFICES ASSUME method[pc].by = "copy"
                       PROVE  (CHOOSE y \in method[pc].reads : TRUE) \in Variables
          BY DEF Zvals
        <4>2. PICK y \in Variables : method[pc].reads = {y}
          BY <1>1, <4>1 DEF WellFormed
        <4> QED BY <4>2
      <3>4. Array(pc) \in Zvals
        BY <3>1, <3>2, <3>3 DEF Array
      <3>5. zv[Array(pc)] \in {Undef, Null} \cup Nat
        BY <2>1, <3>4
      <3> DEFINE z == zv[Array(pc)]
      <3>6. Traverses(pc) = [traversed EXCEPT ![pc] = z]
        BY <2>3 DEF Traverses
      <3> HIDE DEF z
      <3> QED BY <2>1, <3>5, <3>6 DEF z
    <2> QED BY <2>2, <2>3
  <1> QED BY <1>3, <1>4, <1>5, <1>6

\* A jump keeps the invariant when nothing first used lies between.
LEMMA JumpKeeps ==
  ASSUME IInv, Running, UNCHANGED <<compiler, zv, registered>>, step' = 1,
         pc' \in 1..End, source' \in [Variables -> {Unset} \cup Nat],
         traversed' \in [1..Len(method) -> {Undef, Null} \cup Nat],
         \A v \in Zvals : registered[v] > 0 =>
           /\ \A p \in pc'..Len(method) : ~FirstUseIn(code[p], v)
           /\ pc' < End => zv[v] # Undef
  PROVE  IInv'
  <1>0. UNCHANGED <<method, next, inits, skips, cycles, code, zv, registered>>
    BY DEF compiler
  <1>1. Zvals' = Zvals /\ End' = End /\ Printed' = Printed
    BY <1>0 DEF Zvals, Temporaries, Pool, Blocks, End, Printed
  <1>2. method \in Methods /\ TypeOK /\ CountersInv /\ CodeInv /\ RunInv
    BY DEF IInv
  <1>3. TypeOK'
    BY <1>0, <1>1, <1>2 DEF TypeOK
  <1>4. CountersInv'
    BY <1>0, <1>1, <1>2 DEF CountersInv, Loops, Counts
  <1>5. CodeInv'
    BY <1>0, <1>1, <1>2 DEF CodeInv
  <1>6. ASSUME NEW v \in Zvals, registered[v] > 0
        PROVE  /\ \A p \in pc'..Len(method) : \A k \in 1..Len(code[p]) : ~FirstUse(code[p][k], v)
               /\ ~(zv[v] = Undef /\ pc' < End)
    BY <1>6 DEF FirstUseIn
  <1>7. \A v \in Zvals : registered[v] <= 1 /\ (registered[v] > 0 => next = End)
    BY <1>2 DEF RunInv
  <1>8. RunInv'
    BY <1>0, <1>1, <1>6, <1>7 DEF RunInv
  <1> QED BY <1>0, <1>2, <1>3, <1>4, <1>5, <1>8 DEF IInv

LEMMA CallFailsKeeps ==
  ASSUME IInv, CallFails
  PROVE  IInv'
  <1>1. /\ Running /\ UNCHANGED <<compiler, zv, registered, traversed, source>>
        /\ pc' = End /\ step' = 1
    BY DEF CallFails, At, Running
  <1>2. /\ Len(method) \in Nat /\ End \in 1..End /\ source \in [Variables -> {Unset} \cup Nat]
        /\ traversed \in [1..Len(method) -> {Undef, Null} \cup Nat]
    BY <1>1, RunFacts DEF End, IInv, TypeOK
  <1>3. pc'..Len(method) = {} /\ ~(pc' < End)
    BY <1>1, <1>2 DEF End
  <1> QED BY <1>1, <1>2, <1>3, JumpKeeps

LEMMA GoOnKeeps ==
  ASSUME IInv, GoOn
  PROVE  IInv'
  <1>1. /\ Running /\ UNCHANGED <<compiler, zv, registered>> /\ step > Len(Macros)
        /\ pc' \in GoesTo(method, pc) /\ step' = 1 /\ source' = Means(pc)
        /\ traversed' = Traverses(pc)
    BY DEF GoOn, Running
  <1>2. /\ pc' \in 1..End /\ source' \in [Variables -> {Unset} \cup Nat]
        /\ traversed' \in [1..Len(method) -> {Undef, Null} \cup Nat]
        /\ pc' > pc \/ (pc' < pc /\ method[pc'].op = "while" /\ method[pc'].to = pc)
    BY <1>1, GoesFacts
  <1>3. /\ pc \in 1..Len(method) /\ Len(method) \in Nat /\ next - 1 = Len(method)
        /\ \A p \in 1..Len(method) : Len(code[p]) \in Nat
        /\ step \in Nat
    BY <1>1, RunFacts DEF IInv, TypeOK
  <1>4. ASSUME NEW v \in Zvals, registered[v] > 0, NEW p \in pc'..Len(method)
        PROVE  ~FirstUseIn(code[p], v)
    <2>1. ASSUME p > pc
          PROVE  ~FirstUseIn(code[p], v)
      <3>1. p \in pc..Len(method)
        BY <1>3, <2>1
      <3>2. \A k \in 1..Len(code[p]) : FirstUse(code[p][k], v) => p = pc
        BY <1>4, <3>1 DEF IInv, RunInv
      <3> QED BY <2>1, <3>2, <1>3 DEF FirstUseIn
    <2>2. ASSUME p <= pc
          PROVE  ~FirstUseIn(code[p], v)
      <3>1. pc' \in 1..p /\ method[pc'].op = "while" /\ method[pc'].to = pc
        BY <1>2, <1>3, <2>2
      <3>2. p \in 1..(next - 1)
        BY <1>2, <1>3
      <3>3. FirstUseIn(code[p], v) => pc < p
        BY <3>1, <3>2 DEF IInv, CodeInv
      <3> QED BY <1>2, <1>3, <2>2, <3>3
    <2> QED BY <1>2, <1>3, <2>1, <2>2
  <1>5. ASSUME NEW v \in Zvals, registered[v] > 0
        PROVE  zv[v] # Undef
    <2>1. zv[v] = Undef => StoredSoon(code[pc], step, v)
      BY <1>1, <1>5 DEF IInv, RunInv, Running
    <2>2. step..Len(code[pc]) = {}
      BY <1>1, <1>3 DEF Macros
    <2> QED BY <2>1, <2>2 DEF StoredSoon
  <1> QED BY <1>1, <1>2, <1>4, <1>5, JumpKeeps

-----------------------------------------------------------------------------
LEMMA InitHolds ==
  ASSUME Init
  PROVE  IInv
  <1>0. method \in Methods /\ Len(method) \in Nat /\ method \in Seq(Statement)
        /\ next = 1 /\ code = << >> /\ cycles = 0
    BY MethodFacts, MethodsAssumption DEF Init
  <1>1. TypeOK
    BY <1>0 DEF Init, TypeOK, End
  <1>2. Loops(next) = {}
    BY <1>0 DEF Loops
  <1>3. CountersInv
    <2>1. \A v \in Zvals : skips[v] = 0
      BY DEF Init
    <2>2. 1..(next - 1) = {}
      BY <1>0
    <2>3. cycles = Cardinality(Loops(next))
      BY <1>0, <1>2, FS_EmptySet, Zenon
    <2> QED BY <2>1, <2>2, <2>3 DEF CountersInv
  <1>4. CodeInv
    BY <1>0 DEF CodeInv
  <1>5. RunInv
    BY DEF Init, RunInv
  <1> QED BY <1>0, <1>1, <1>3, <1>4, <1>5 DEF IInv

LEMMA StepKeeps ==
  ASSUME IInv, ~UnsetCopies, \A m \in Methods : ItemsCounted(m), [Next]_vars
  PROVE  IInv'
  <1>1. CASE Compile(next)
    BY <1>1, CompileKeeps DEF IInv
  <1>2. CASE Run
    BY <1>2, InitVarKeeps, InitNVarKeeps, ObsVarKeeps, ObsNVarKeeps, NullifyKeeps, CpyWrtKeeps,
       StoreKeeps, ReadKeeps, CallFailsKeeps, GoOnKeeps DEF Run
  <1>3. CASE UNCHANGED vars
    <2>1. UNCHANGED <<method, next, inits, skips, cycles, code, pc, step, zv, registered, traversed, source>>
      BY <1>3 DEF vars
    <2>2. Zvals' = Zvals /\ End' = End /\ Printed' = Printed
      BY <2>1 DEF Zvals, Temporaries, Pool, Blocks, End, Printed
    <2>3. TypeOK'
      BY <2>1, <2>2 DEF IInv, TypeOK
    <2>4. CountersInv' /\ CodeInv'
      BY <2>1, <2>2 DEF IInv, CountersInv, CodeInv, Loops, Counts
    <2>5. RunInv'
      BY <2>1, <2>2 DEF IInv, RunInv
    <2> QED BY <2>1, <2>3, <2>4, <2>5 DEF IInv
  <1> QED BY <1>1, <1>2, <1>3 DEF Next

\* For every method whose variables are assigned before they are copied, and
\* before a loop over an iterator assigns them: the
\* counters of the compiler stay natural numbers, and the code they lead to is
\* made of the macros the run knows.
THEOREM TypeCorrect ==
  ASSUME ~UnsetCopies, \A m \in Methods : ItemsCounted(m)
  PROVE  Spec => []TypeOK
  <1>1. Init => IInv
    BY InitHolds
  <1>2. IInv /\ [Next]_vars => IInv'
    BY StepKeeps
  <1>3. IInv => TypeOK
    BY DEF IInv
  <1> QED BY <1>1, <1>2, <1>3, PTL DEF Spec

\* For every such method, of any length and nesting, with any number of
\* variables, and on every path: a zval is in the frame at most once. A first
\* use is printed before all others and in no loop, so no path comes to it
\* twice; and a registered zval is unset only while its value is on its way.
THEOREM RegisteredOnceHolds ==
  ASSUME ~UnsetCopies, \A m \in Methods : ItemsCounted(m)
  PROVE  Spec => []RegisteredOnce
  <1>1. Init => IInv
    BY InitHolds
  <1>2. IInv /\ [Next]_vars => IInv'
    BY StepKeeps
  <1>3. IInv => RegisteredOnce
    BY DEF IInv, RunInv, RegisteredOnce
  <1> QED BY <1>1, <1>2, <1>3, PTL DEF Spec
=============================================================================
