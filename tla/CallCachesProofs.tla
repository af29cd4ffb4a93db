-------------------------- MODULE CallCachesProofs --------------------------
(***************************************************************************)
(* CallCaches for every hierarchy of classes, program and number of slots: *)
(* the slots of callables differ, recursive_lock counts the calls that     *)
(* run, and with the objects the caches count on a call reaches the        *)
(* function PHP would find.                                                *)
(***************************************************************************)
EXTENDS CallCaches, TLAPS, FiniteSetTheorems, SequenceTheorems

Receiver == Classes \cup {NoClass}

\* What is known of a site.
LEMMA SiteFacts ==
  ASSUME program \in Programs, NEW i \in Sites
  PROVE  /\ program[i] \in Site /\ program[i].in \in Defined
         /\ program[i].in[1] \in Extension /\ program[i].in[1] \in Classes
         /\ program[i].name \in Names
         /\ program[i].on \in {"this", "typed", "new"} => program[i].class \in Classes
         /\ program[i].on = "function" => program[i].name \in Functions
         /\ Len(program) \in Nat
  <1>1. program \in Seq(Site)
    BY ProgramsAssumption
  <1>2. program[i] \in Site /\ Len(program) \in Nat
    BY <1>1 DEF Sites
  <1> QED BY <1>2, ProgramsAssumption, ClassesAssumption DEF Site, Sites

\* The compiler takes a site for at most one callable.
LEMMA TargetFacts ==
  ASSUME program \in Programs, NEW i \in Sites
  PROVE  /\ \A t \in Target(program[i]) : t \in Callables
         /\ \A t, u \in Target(program[i]) : t = u
  <1>1. \A c \in Classes : \A n : Has(c, n) => Table[c][n] \in Defined
    BY ClassesAssumption DEF Has
  <1> QED BY <1>1, SiteFacts, ClassesAssumption DEF Target, Callables

\* What PHP finds is a method or function.
LEMMA MethodFacts ==
  ASSUME NEW scope \in Classes, NEW c \in Receiver, NEW n, Found(scope, c, n)
  PROVE  /\ Method(scope, c, n) \in Callables
         /\ c = NoClass => Method(scope, c, n) \notin Defined
  <1>1. CASE c = NoClass
    <2>1. <<NoClass, n>> \notin Defined
      BY ClassesAssumption, MethodsAssumption
    <2> QED BY <1>1, <2>1 DEF Method, Found, Callables
  <1>2. CASE c # NoClass
    <2>1. c \in Classes /\ n \in DOMAIN Table[c] /\ Table[c][n] \in Defined
      BY <1>2, ClassesAssumption DEF Receiver, Found, Has
    <2> QED BY <1>2, <2>1, MethodsAssumption DEF Method, Callables
  <1> QED BY <1>1, <1>2

\* The scope that a key leaves out does not matter.
LEMMA KeyFacts ==
  ASSUME NEW scope \in Classes, NEW c \in Receiver, NEW n \in Names
  PROVE  /\ Key(scope, c, n) \in Names \X Receiver \X Receiver
         /\ LET k == Key(scope, c, n)
            IN  Method(k[2], k[3], k[1]) = Method(scope, c, n)
  <1> DEFINE s == IF c = NoClass \/ scope \in Ancestors[c] \/ c \in Ancestors[scope]
                  THEN scope ELSE NoClass
  <1>1. Key(scope, c, n) = <<n, s, c>>
    BY DEF Key
  <1>2. s \in Receiver
    BY DEF Receiver
  <1>3. Method(s, c, n) = Method(scope, c, n)
    <2>1. CASE s = scope
      BY <2>1
    <2>2. CASE s # scope
      <3>1. c \in Classes /\ c # NoClass /\ scope \notin Ancestors[c] /\ s = NoClass
        BY <2>2 DEF Receiver
      <3>2. NoClass \notin Ancestors[c]
        BY <3>1, ClassesAssumption
      <3> QED BY <3>1, <3>2 DEF Method
    <2> QED BY <2>1, <2>2
  <1> HIDE DEF s
  <1> QED BY <1>1, <1>2, <1>3

-----------------------------------------------------------------------------
(* The compiler.                                                           *)

\* What SlotsCache and the caches of a method hold, and what sites were given.
SlotsTaken ==
  /\ \A t \in Callables : slotOf[t] # None => slotOf[t] < nextSlot
  /\ \A t, u \in Callables : slotOf[t] = slotOf[u] /\ slotOf[t] # None => t = u
MemoRight ==
  \A k \in DOMAIN memo : memo[k] # None =>
    program[memo[k]].in = k[1] /\ k[2] \in Target(program[memo[k]])
SlotRight(i) ==
  code[i].slot # None => \E t \in Target(program[i]) : slotOf[t] = code[i].slot
InlineRight(i, j) ==
  /\ program[j].in = program[i].in /\ Target(program[j]) = Target(program[i])
  /\ Target(program[i]) = {} => j = i
Compiled ==
  /\ next = Len(code) + 1 /\ Len(code) <= Len(program) /\ nextSlot >= 1
  /\ SlotsTaken /\ MemoRight
  /\ \A i \in 1..Len(code) :
       SlotRight(i) /\ (code[i].inline # None => InlineRight(i, code[i].inline))
  /\ request > 0 => Len(code) = Len(program)
  /\ stack # <<>> => request > 0

CodeType == [inline : {None} \cup Sites, slot : Slots]

LEMMA SlotsFact == MaxSlots \in Nat /\ None \in Slots /\ Slots \subseteq Nat
  BY BoundsAssumption DEF None, Slots

\* A callable gets a slot.
LEMMA GetSlotFacts ==
  ASSUME TypeOK, SlotsTaken, nextSlot >= 1, NEW t \in Callables, GetSlot(t)
  PROVE  /\ slotOf' \in [Callables -> Slots] /\ nextSlot' \in Nat /\ nextSlot' >= 1
         /\ SlotsTaken' /\ NewSlot(t) \in Slots /\ slotOf'[t] = NewSlot(t)
         /\ \A u \in Callables : slotOf[u] # None => slotOf'[u] = slotOf[u]
  <1>1. /\ slotOf \in [Callables -> Slots] /\ nextSlot \in Nat
        /\ slotOf' = [slotOf EXCEPT ![t] = NewSlot(t)]
        /\ nextSlot' = IF slotOf[t] = None THEN nextSlot + 1 ELSE nextSlot
    BY DEF TypeOK, GetSlot
  <1>2. NewSlot(t) \in Slots /\ None = 0
    BY <1>1, SlotsFact DEF NewSlot, Slots, None
  <1>3. slotOf[t] # None => NewSlot(t) = slotOf[t]
    BY DEF NewSlot
  <1>4. slotOf[t] = None => NewSlot(t) \in {nextSlot, None}
    BY DEF NewSlot
  <1>5. \A u \in Callables : slotOf[u] \in Nat /\ (slotOf[u] # None => slotOf[u] < nextSlot)
    BY <1>1, SlotsFact DEF SlotsTaken
  <1> HIDE DEF NewSlot, Slots, Callables, None
  <1>6. /\ slotOf' \in [Callables -> Slots] /\ slotOf'[t] = NewSlot(t)
        /\ \A u \in Callables : u # t => slotOf'[u] = slotOf[u]
    BY <1>1, <1>2
  <1>7. nextSlot' \in Nat /\ nextSlot' >= 1
    BY <1>1
  <1>8. \A u \in Callables : slotOf[u] # None => slotOf'[u] = slotOf[u]
    BY <1>3, <1>6
  <1>9. \A u \in Callables : slotOf'[u] # None => slotOf'[u] < nextSlot'
    BY <1>1, <1>3, <1>4, <1>5, <1>6
  <1>10. ASSUME NEW u \in Callables, NEW v \in Callables,
                slotOf'[u] = slotOf'[v], slotOf'[u] # None
         PROVE  u = v
    <2>1. CASE slotOf[t] # None
      BY <2>1, <1>3, <1>6, <1>10 DEF SlotsTaken
    <2>2. CASE slotOf[t] = None
      <3>1. \A w \in Callables : w # t => slotOf'[w] # nextSlot
        BY <1>1, <1>5, <1>6, <1>2
      <3> QED BY <3>1, <2>2, <1>4, <1>6, <1>10 DEF SlotsTaken
    <2> QED BY <2>1, <2>2
  <1> QED BY <1>2, <1>6, <1>7, <1>8, <1>9, <1>10 DEF SlotsTaken

\* A site is given its arguments.
LEMMA GenerateFacts ==
  ASSUME TypeOK, NEW i \in Sites, i = Len(code) + 1, NEW inline \in {None} \cup Sites,
         NEW slot \in Slots, Generate(i, inline, slot)
  PROVE  /\ code' \in Seq(CodeType) /\ Len(code') = i
         /\ \A j \in 1..Len(code) : code'[j] = code[j]
         /\ code'[i].inline = inline /\ code'[i].slot = slot
  <1> DEFINE new == [inline |-> inline, slot |-> slot]
  <1>1. code \in Seq(CodeType) /\ new \in CodeType /\ code' = Append(code, new)
    BY DEF TypeOK, CodeType, Generate
  <1>2. new.inline = inline /\ new.slot = slot
    OBVIOUS
  <1> HIDE DEF new, CodeType
  <1>3. /\ code' \in Seq(CodeType) /\ Len(code') = Len(code) + 1
        /\ \A j \in 1..Len(code) : code'[j] = code[j]
        /\ code'[Len(code) + 1] = new
    BY <1>1
  <1> QED BY <1>2, <1>3

\* A step of the compiler keeps what was, when what it adds is right.
LEMMA CompilerStep ==
  ASSUME TypeOK, Compiled, NEW i \in Sites, i = next,
         NEW inline \in {None} \cup Sites, NEW slot \in Slots,
         Generate(i, inline, slot),
         slotOf' \in [Callables -> Slots], nextSlot' \in Nat, nextSlot' >= 1,
         SlotsTaken', MemoRight',
         DOMAIN memo' \subseteq Defined \X Callables,
         memo' \in [DOMAIN memo' -> {None} \cup Sites],
         \A u \in Callables : slotOf[u] # None => slotOf'[u] = slotOf[u],
         slot # None => \E t \in Target(program[i]) : slotOf'[t] = slot,
         inline # None => InlineRight(i, inline)
  PROVE  TypeOK' /\ Compiled'
  <1>1. /\ program' = program /\ next' = next + 1
        /\ UNCHANGED <<request, scache, fcache, lock, bailed, stack>>
        /\ program \in Programs /\ next \in Nat
    BY DEF TypeOK, Generate, globals
  <1>2. Sites' = Sites /\ i = Len(code) + 1 /\ Len(code) \in Nat /\ Len(program) \in Nat
    BY <1>1, SiteFacts DEF Sites, Compiled, TypeOK
  <1>3. /\ code' \in Seq(CodeType) /\ Len(code') = i
        /\ \A j \in 1..Len(code) : code'[j] = code[j]
        /\ code'[i].inline = inline /\ code'[i].slot = slot
    BY <1>2, GenerateFacts
  <1>4. Frame' = Frame
    BY <1>1, <1>2 DEF Frame
  <1>5. TypeOK'
    BY <1>1, <1>2, <1>3, <1>4 DEF TypeOK, CodeType
  <1>6. \A j \in Sites : \A t \in Target(program[j]) : t \in Callables
    BY <1>1, TargetFacts
  <1>7. ASSUME NEW j \in 1..Len(code')
        PROVE  (SlotRight(j) /\ (code[j].inline # None => InlineRight(j, code[j].inline)))'
    <2>1. CASE j = i
      BY <2>1, <1>1, <1>3 DEF SlotRight, InlineRight, Target
    <2>2. CASE j # i
      <3>1. j \in 1..Len(code) /\ code'[j] = code[j] /\ j \in Sites
        BY <2>2, <1>2, <1>3 DEF Sites
      <3>2. SlotRight(j) /\ (code[j].inline # None => InlineRight(j, code[j].inline))
        BY <3>1 DEF Compiled
      <3>3. code[j].slot # None => \E t \in Target(program[j]) : slotOf'[t] = code[j].slot
        BY <3>1, <3>2, <1>6 DEF SlotRight
      <3> QED BY <3>1, <3>2, <3>3, <1>1 DEF SlotRight, InlineRight
    <2> QED BY <2>1, <2>2
  <1>8. request = 0 /\ stack = <<>>
    <2>1. Len(code) # Len(program)
      BY <1>2 DEF Sites
    <2> QED BY <2>1 DEF Compiled, TypeOK
  <1> QED BY <1>1, <1>2, <1>3, <1>5, <1>7, <1>8 DEF Compiled, Sites

\* The compiler's actions, one for each place a site gets its arguments.
LEMMA CompilerKeeps ==
  ASSUME TypeOK, Compiled, NEW i \in Sites,
         Unresolved(i) \/ Memoized(i) \/ MethodCache(i) \/ FunctionCache(i)
  PROVE  TypeOK' /\ Compiled'
  <1>1. /\ i = next /\ slotOf \in [Callables -> Slots] /\ nextSlot \in Nat
        /\ DOMAIN memo \subseteq Defined \X Callables
        /\ memo \in [DOMAIN memo -> {None} \cup Sites]
        /\ nextSlot >= 1 /\ SlotsTaken /\ MemoRight
        /\ program \in Programs
    BY DEF TypeOK, Compiled, Unresolved, Memoized, MethodCache, FunctionCache
  <1>2. program[i].in \in Defined
        /\ (\A t \in Target(program[i]) : t \in Callables)
        /\ (\A t, u \in Target(program[i]) : t = u)
    BY <1>1, SiteFacts, TargetFacts
  <1>3. InlineRight(i, i) /\ i # None
    BY DEF InlineRight, Sites, None
  <1>4. program' = program
    BY DEF Unresolved, Memoized, MethodCache, FunctionCache, Generate
  <1>5. UNCHANGED <<nextSlot, slotOf>> => SlotsTaken'
    BY <1>1 DEF SlotsTaken
  <1>6. UNCHANGED memo => MemoRight'
    BY <1>1, <1>4 DEF MemoRight
  <1>7. CASE Unresolved(i)
    <2> DEFINE inline == IF program[i].cycle /\ program[i].fixed THEN i ELSE None
    <2>1. Generate(i, inline, None) /\ UNCHANGED <<nextSlot, slotOf, memo>>
      BY <1>7 DEF Unresolved
    <2>2. inline \in {None} \cup Sites /\ (inline # None => inline = i)
      OBVIOUS
    <2> HIDE DEF inline
    <2> QED BY <2>1, <2>2, <1>1, <1>3, <1>5, <1>6, SlotsFact, CompilerStep
  <1>8. CASE Memoized(i)
    <2>1. PICK t \in Target(program[i]) :
            <<program[i].in, t>> \in DOMAIN memo
            /\ Generate(i, memo[<<program[i].in, t>>], slotOf[t])
      BY <1>8 DEF Memoized
    <2>2. UNCHANGED <<nextSlot, slotOf, memo>>
      BY <1>8 DEF Memoized
    <2> DEFINE j == memo[<<program[i].in, t>>]
    <2>3. j \in {None} \cup Sites /\ slotOf[t] \in Slots
      BY <2>1, <1>1, <1>2
    <2>4. ASSUME j # None PROVE InlineRight(i, j)
      <3>1. j \in Sites /\ program[j].in = program[i].in /\ t \in Target(program[j])
        BY <2>1, <2>3, <2>4, <1>1 DEF MemoRight
      <3>2. /\ \A u, w \in Target(program[i]) : u = w
            /\ \A u, w \in Target(program[j]) : u = w
        BY <3>1, <1>1, <1>2, TargetFacts
      <3>3. Target(program[i]) = {t} /\ Target(program[j]) = {t}
        BY <3>1, <3>2, <2>1, Zenon
      <3> QED BY <3>1, <3>3 DEF InlineRight
    <2>5. slotOf'[t] = slotOf[t]
      BY <2>2
    <2> HIDE DEF j
    <2>6. Generate(i, j, slotOf[t])
      BY <2>1 DEF j
    <2> QED BY <2>1, <2>2, <2>3, <2>4, <2>5, <2>6, <1>1, <1>5, <1>6, CompilerStep
  <1>9. ASSUME NEW t \in Target(program[i]), NEW new,
               new = [k \in DOMAIN memo \cup {<<program[i].in, t>>} |->
                        IF k \in DOMAIN memo THEN memo[k] ELSE Inline(i, t)],
               memo' = new
        PROVE  /\ DOMAIN memo' \subseteq Defined \X Callables /\ MemoRight'
               /\ memo' \in [DOMAIN memo' -> {None} \cup Sites]
    <2>1. Inline(i, t) \in {None, i}
      BY DEF Inline
    <2>2. DOMAIN memo' = DOMAIN memo \cup {<<program[i].in, t>>}
          /\ (\A k \in DOMAIN memo' :
                memo'[k] = IF k \in DOMAIN memo THEN memo[k] ELSE Inline(i, t))
      BY <1>9
    <2>3. memo' \in [DOMAIN memo' -> {None} \cup Sites]
      <3>1. \A k \in DOMAIN memo' : memo'[k] \in {None} \cup Sites
        BY <2>1, <2>2, <1>1
      <3>2. memo' = [k \in DOMAIN memo' |-> memo'[k]]
        BY <1>9, <2>2
      <3> QED BY <3>1, <3>2
    <2>4. <<program[i].in, t>> \in Defined \X Callables
      BY <1>2
    <2>5. ASSUME NEW k \in DOMAIN memo', memo'[k] # None
          PROVE  program[memo'[k]].in = k[1] /\ k[2] \in Target(program[memo'[k]])
      <3>1. CASE k \in DOMAIN memo
        BY <3>1, <2>2, <2>5, <1>1 DEF MemoRight
      <3>2. CASE k \notin DOMAIN memo
        <4>1. k = <<program[i].in, t>> /\ memo'[k] = i
          BY <3>2, <2>1, <2>2, <2>5
        <4> QED BY <4>1
      <3> QED BY <3>1, <3>2
    <2> QED BY <2>2, <2>3, <2>4, <2>5, <1>1, <1>4 DEF MemoRight
  <1>10. ASSUME NEW t \in Target(program[i]), NEW slot \in Slots,
                Generate(i, Inline(i, t), slot),
                slotOf' \in [Callables -> Slots], nextSlot' \in Nat, nextSlot' >= 1,
                SlotsTaken', MemoRight', DOMAIN memo' \subseteq Defined \X Callables,
                memo' \in [DOMAIN memo' -> {None} \cup Sites],
                \A u \in Callables : slotOf[u] # None => slotOf'[u] = slotOf[u],
                slot # None => slotOf'[t] = slot
         PROVE  TypeOK' /\ Compiled'
    <2>1. Inline(i, t) \in {None} \cup Sites /\ (Inline(i, t) # None => Inline(i, t) = i)
      BY DEF Inline
    <2> DEFINE inline == Inline(i, t)
    <2> HIDE DEF inline
    <2>2. inline \in {None} \cup Sites /\ (inline # None => inline = i)
          /\ Generate(i, inline, slot)
      BY <2>1, <1>10 DEF inline
    <2> QED BY <2>2, <1>1, <1>3, <1>10, CompilerStep
  <1>11. CASE MethodCache(i)
    <2>1. PICK t \in Target(program[i]) :
            /\ memo' = [k \in DOMAIN memo \cup {<<program[i].in, t>>} |->
                          IF k \in DOMAIN memo THEN memo[k] ELSE Inline(i, t)]
            /\ IF StaticCacheable(program[i], t)
               THEN GetSlot(t) /\ Generate(i, Inline(i, t), NewSlot(t))
               ELSE UNCHANGED <<nextSlot, slotOf>> /\ Generate(i, Inline(i, t), None)
      BY <1>11 DEF MethodCache
    <2>2. CASE StaticCacheable(program[i], t)
      <3>1. t \in Callables /\ GetSlot(t) /\ Generate(i, Inline(i, t), NewSlot(t))
        BY <2>1, <2>2, <1>2
      <3> QED BY <3>1, <2>1, <1>1, <1>9, <1>10, GetSlotFacts
    <2>3. CASE ~StaticCacheable(program[i], t)
      <3>1. UNCHANGED <<nextSlot, slotOf>> /\ Generate(i, Inline(i, t), None)
        BY <2>1, <2>3
      <3> QED BY <3>1, <2>1, <1>1, <1>5, <1>9, <1>10, SlotsFact
    <2> QED BY <2>2, <2>3
  <1>12. CASE FunctionCache(i)
    <2>1. PICK t \in Target(program[i]) :
            /\ memo' = IF Inline(i, t) = None THEN memo
                       ELSE [k \in DOMAIN memo \cup {<<program[i].in, t>>} |->
                               IF k \in DOMAIN memo THEN memo[k] ELSE Inline(i, t)]
            /\ GetSlot(t) /\ Generate(i, Inline(i, t), NewSlot(t))
      BY <1>12 DEF FunctionCache
    <2>2. t \in Callables
      BY <1>2
    <2>3. /\ DOMAIN memo' \subseteq Defined \X Callables /\ MemoRight'
          /\ memo' \in [DOMAIN memo' -> {None} \cup Sites]
      <3>1. CASE Inline(i, t) = None
        <4>1. memo' = memo
          BY <3>1, <2>1
        <4> QED BY <4>1, <1>1, <1>6
      <3>2. CASE Inline(i, t) # None
        BY <3>2, <2>1, <1>9
      <3> QED BY <3>1, <3>2
    <2> QED BY <2>1, <2>2, <2>3, <1>1, <1>10, GetSlotFacts
  <1> QED BY <1>7, <1>8, <1>11, <1>12

-----------------------------------------------------------------------------
(* The stack.                                                              *)

\* A sequence with its last element replaced and another one behind it.
LEMMA Pushed ==
  ASSUME NEW S, NEW s \in Seq(S), s # <<>>, NEW x \in S, NEW y \in S, NEW r,
         r = Append([s EXCEPT ![Len(s)] = x], y)
  PROVE  /\ r \in Seq(S) /\ Len(s) \in Nat \ {0} /\ Len(r) = Len(s) + 1
         /\ \A k \in 1..(Len(s) - 1) : r[k] = s[k]
         /\ r[Len(s)] = x /\ r[Len(s) + 1] = y
  <1>1. Len(s) \in Nat \ {0} /\ Len(s) \in 1..Len(s)
    BY EmptySeq
  <1> DEFINE m == [s EXCEPT ![Len(s)] = x]
  <1>2. m \in Seq(S) /\ Len(m) = Len(s) /\ m[Len(s)] = x
        /\ \A k \in 1..(Len(s) - 1) : m[k] = s[k]
    BY <1>1, ExceptSeq
  <1> HIDE DEF m
  <1>3. r = Append(m, y)
    BY DEF m
  <1> QED BY <1>1, <1>2, <1>3

\* A sequence without its last element.
LEMMA Popped ==
  ASSUME NEW S, NEW s \in Seq(S), s # <<>>, NEW r, r = SubSeq(s, 1, Len(s) - 1)
  PROVE  /\ r \in Seq(S) /\ Len(s) \in Nat \ {0} /\ Len(r) = Len(s) - 1
         /\ \A k \in 1..(Len(s) - 1) : r[k] = s[k]
  <1> DEFINE m == Len(s) - 1
  <1>1. Len(s) \in Nat \ {0} /\ m \in Nat /\ \A k \in 1..m : s[k] \in S
    BY EmptySeq, ElementOfSeq
  <1> HIDE DEF m
  <1>2. /\ SubSeq(s, 1, m) \in Seq(S)
        /\ Len(SubSeq(s, 1, m)) = IF 1 <= m THEN m - 1 + 1 ELSE 0
        /\ \A k \in 1..(m - 1 + 1) : SubSeq(s, 1, m)[k] = s[1 + k - 1]
    BY <1>1, SubSeqProperties
  <1>3. /\ Len(SubSeq(s, 1, m)) = m
        /\ \A k \in 1..m : SubSeq(s, 1, m)[k] = s[k]
    BY <1>1, <1>2
  <1> QED BY <1>1, <1>2, <1>3 DEF m

\* A sequence without its last element, the one below it replaced.
LEMMA PoppedInto ==
  ASSUME NEW S, NEW s \in Seq(S), Len(s) > 1, NEW x \in S, NEW r,
         r = [SubSeq(s, 1, Len(s) - 1) EXCEPT ![Len(s) - 1] = x]
  PROVE  /\ r \in Seq(S) /\ Len(s) \in Nat \ {0} /\ Len(r) = Len(s) - 1
         /\ \A k \in 1..(Len(s) - 2) : r[k] = s[k]
         /\ r[Len(s) - 1] = x
  <1> DEFINE p == SubSeq(s, 1, Len(s) - 1)
  <1>1. s # <<>> /\ Len(s) \in Nat
    OBVIOUS
  <1>2. /\ p \in Seq(S) /\ Len(p) = Len(s) - 1
        /\ \A k \in 1..(Len(s) - 1) : p[k] = s[k]
    BY <1>1, Popped
  <1> HIDE DEF p
  <1>3. r = [p EXCEPT ![Len(s) - 1] = x]
    BY DEF p
  <1>4. Len(s) - 1 \in 1..Len(p) /\ Len(s) - 1 = Len(p)
    BY <1>1, <1>2
  <1>5. r = [p EXCEPT ![Len(p)] = x] /\ Len(p) \in 1..Len(p)
    BY <1>3, <1>4
  <1>6. p \in Seq(S)
    BY <1>2
  <1>7. /\ r \in Seq(S) /\ Len(r) = Len(p) /\ r[Len(p)] = x
        /\ \A k \in 1..Len(p) : k # Len(p) => r[k] = p[k]
    <2> DEFINE q == [p EXCEPT ![Len(p)] = x]
    <2>1. /\ q \in Seq(S) /\ Len(q) = Len(p)
          /\ \A k \in 1..Len(p) : q[k] = IF k = Len(p) THEN x ELSE p[k]
      BY <1>5, <1>6, ExceptSeq
    <2>2. r = q
      BY <1>5
    <2> HIDE DEF q
    <2> QED BY <1>5, <2>1, <2>2
  <1>8. \A k \in 1..(Len(s) - 2) : r[k] = s[k]
    <2> TAKE k \in 1..(Len(s) - 2)
    <2>1. k \in 1..Len(p) /\ k # Len(p) /\ k \in 1..(Len(s) - 1)
      BY <1>1, <1>4
    <2> QED BY <2>1, <1>2, <1>7
  <1> QED BY <1>1, <1>2, <1>4, <1>7, <1>8

\* The stack without its last activation.
LEMMA StackPopped ==
  ASSUME stack \in Seq(Frame), stack # <<>>
  PROVE  /\ Pop \in Seq(Frame) /\ Len(stack) \in Nat \ {0} /\ Len(Pop) = Len(stack) - 1
         /\ \A k \in 1..(Len(stack) - 1) : Pop[k] = stack[k]
  <1> DEFINE m == Len(stack) - 1
  <1>1. Len(stack) \in Nat \ {0} /\ m \in Nat /\ \A k \in 1..m : stack[k] \in Frame
    BY EmptySeq, ElementOfSeq
  <1> HIDE DEF m
  <1>2. /\ SubSeq(stack, 1, m) \in Seq(Frame)
        /\ Len(SubSeq(stack, 1, m)) = IF 1 <= m THEN m - 1 + 1 ELSE 0
        /\ \A k \in 1..(m - 1 + 1) : SubSeq(stack, 1, m)[k] = stack[1 + k - 1]
    BY <1>1, SubSeqProperties
  <1>3. /\ Len(SubSeq(stack, 1, m)) = m
        /\ \A k \in 1..m : SubSeq(stack, 1, m)[k] = stack[k]
    BY <1>1, <1>2
  <1> QED BY <1>1, <1>2, <1>3 DEF m, Pop

Keys == {NoKey} \cup (Names \X Receiver \X Receiver)
LEMMA FrameType ==
  /\ Frame = [callable : Pointer, this : Receiver, inline : [Sites -> Pointer \cup {NoFunction}],
              holds : [Sites -> Receiver], site : {None} \cup Sites, counted : BOOLEAN,
              key : Keys, cached : BOOLEAN]
  BY DEF Frame, Receiver, Keys

\* A new activation.
LEMMA ActivationFacts ==
  ASSUME NEW f \in Pointer, NEW c \in Receiver, NEW i \in {None} \cup Sites,
         NEW counted \in BOOLEAN, NEW key \in Keys, NEW cached \in BOOLEAN
  PROVE  LET a == Activation(f, c, i, counted, key, cached)
         IN  /\ a \in Frame /\ a.callable = f /\ a.this = c /\ a.site = i
             /\ a.counted = counted /\ a.key = key /\ a.cached = cached
             /\ \A s \in Sites : a.inline[s] = NoFunction /\ a.holds[s] = NoClass
  <1>1. [s \in Sites |-> NoFunction] \in [Sites -> Pointer \cup {NoFunction}]
        /\ [s \in Sites |-> NoClass] \in [Sites -> Receiver]
    BY DEF Receiver
  <1> QED BY <1>1, FrameType DEF Activation

\* What a call of the kernel needs.
LEMMA MayCallFacts ==
  ASSUME TypeOK, Compiled, NEW i, NEW c, MayCall(i, c)
  PROVE  /\ i \in Sites /\ Len(code) = Len(program) /\ code[i] \in CodeType
         /\ stack \in Seq(Frame) /\ stack # <<>> /\ Top \in Frame
         /\ Len(stack) \in Nat \ {0} /\ c \in Receiver
         /\ Top.callable.callable = program[i].in
         /\ Found(program[i].in[1], c, program[i].name)
         /\ SlotRight(i) /\ (code[i].inline # None => InlineRight(i, code[i].inline))
         /\ Asked(i, c) \in Pointer
  <1>1. i \in Sites /\ stack \in Seq(Frame) /\ stack # <<>> /\ program \in Programs
        /\ code \in Seq(CodeType) /\ request \in Nat
    BY DEF MayCall, TypeOK, CodeType
  <1>2. Len(code) = Len(program) /\ Len(stack) \in Nat \ {0} /\ Top \in Frame
    BY <1>1, EmptySeq, ElementOfSeq DEF Compiled, TypeOK, Top
  <1>3. i \in 1..Len(code) /\ code[i] \in CodeType
    BY <1>1, <1>2 DEF Sites
  <1>4. c \in Receiver
    <2>1. Top.this \in Receiver
      BY <1>2, FrameType
    <2>2. program[i].on \in Kinds
      BY <1>1, SiteFacts DEF Site
    <2>3. c \in Receivers(program[i], Top.this)
      BY DEF MayCall
    <2> QED BY <1>1, <2>1, <2>2, <2>3, SiteFacts DEF Receivers, Receiver, Kinds
  <1>5. Found(program[i].in[1], c, program[i].name)
        /\ Top.callable.callable = program[i].in
    BY DEF MayCall
  <1>6. Asked(i, c) \in Pointer
    <2>1. Method(program[i].in[1], c, program[i].name) \in Callables
      BY <1>1, <1>4, <1>5, SiteFacts, MethodFacts
    <2> QED BY <2>1, <1>1 DEF Asked, Pointer
  <1> QED BY <1>1, <1>2, <1>3, <1>4, <1>5, <1>6 DEF Compiled

\* The stack after a call of the kernel that begins the activation a.
Pushes(i, c, p, a) ==
  LET t == stack'[Len(stack)]
  IN  /\ stack' \in Seq(Frame) /\ Len(stack') = Len(stack) + 1
      /\ \A k \in 1..(Len(stack) - 1) : stack'[k] = stack[k]
      /\ t.callable = Top.callable /\ t.this = Top.this /\ t.site = Top.site
      /\ t.counted = Top.counted /\ t.key = Top.key /\ t.cached = Top.cached
      /\ \A s \in Sites :
           /\ t.inline[s] = IF s = code[i].inline THEN p ELSE Top.inline[s]
           /\ t.holds[s] = IF s = i THEN c ELSE Top.holds[s]
      /\ stack'[Len(stack) + 1] = a /\ a \in Frame
      /\ UNCHANGED <<compiler, globals, bailed>>

LEMMA Entered ==
  ASSUME TypeOK, Compiled, NEW i, NEW c, MayCall(i, c),
         NEW p \in Pointer \cup {NoFunction}, NEW f \in Pointer,
         NEW counted \in BOOLEAN, NEW key \in Keys, NEW cached \in BOOLEAN,
         Enter(i, c, p, f, counted, key, cached)
  PROVE  Pushes(i, c, p, Activation(f, c, i, counted, key, cached))
  <1> DEFINE t == [Top EXCEPT !.holds = [s \in Sites |-> IF s = i THEN c ELSE Top.holds[s]],
                              !.inline = [s \in Sites |->
                                 IF s = code[i].inline THEN p ELSE Top.inline[s]]]
             a == Activation(f, c, i, counted, key, cached)
  <1>1. /\ i \in Sites /\ stack \in Seq(Frame) /\ stack # <<>> /\ Top \in Frame
        /\ c \in Receiver
    BY MayCallFacts
  <1>2. a \in Frame
    BY <1>1, ActivationFacts
  <1>3. /\ Top.holds \in [Sites -> Receiver]
        /\ Top.inline \in [Sites -> Pointer \cup {NoFunction}]
    BY <1>1, FrameType
  <1>4. /\ t \in Frame
        /\ t.callable = Top.callable /\ t.this = Top.this /\ t.site = Top.site
        /\ t.counted = Top.counted /\ t.key = Top.key /\ t.cached = Top.cached
        /\ t.holds = [s \in Sites |-> IF s = i THEN c ELSE Top.holds[s]]
        /\ t.inline = [s \in Sites |-> IF s = code[i].inline THEN p ELSE Top.inline[s]]
    <2> DEFINE h == [s \in Sites |-> IF s = i THEN c ELSE Top.holds[s]]
               l == [s \in Sites |-> IF s = code[i].inline THEN p ELSE Top.inline[s]]
    <2>1. h \in [Sites -> Receiver] /\ l \in [Sites -> Pointer \cup {NoFunction}]
      BY <1>1, <1>3
    <2>2. t = [Top EXCEPT !.holds = h, !.inline = l]
      OBVIOUS
    <2> HIDE DEF h, l, t
    <2>3. /\ t \in Frame /\ t.holds = h /\ t.inline = l
          /\ t.callable = Top.callable /\ t.this = Top.this /\ t.site = Top.site
          /\ t.counted = Top.counted /\ t.key = Top.key /\ t.cached = Top.cached
      BY <1>1, <2>1, <2>2, FrameType
    <2> QED BY <2>3 DEF h, l
  <1>5. stack' = Append([stack EXCEPT ![Len(stack)] = t], a)
    BY DEF Enter, Remembering
  <1> HIDE DEF t, a
  <1>6. /\ stack' \in Seq(Frame) /\ Len(stack') = Len(stack) + 1
        /\ \A k \in 1..(Len(stack) - 1) : stack'[k] = stack[k]
        /\ stack'[Len(stack)] = t /\ stack'[Len(stack) + 1] = a
    BY <1>1, <1>2, <1>4, <1>5, Pushed
  <1>7. UNCHANGED <<compiler, globals, bailed>>
    BY DEF Enter
  <1>8. \A s \in Sites :
          /\ t.inline[s] = IF s = code[i].inline THEN p ELSE Top.inline[s]
          /\ t.holds[s] = IF s = i THEN c ELSE Top.holds[s]
    BY <1>4
  <1>9. Pushes(i, c, p, a)
    BY <1>2, <1>4, <1>6, <1>7, <1>8 DEF Pushes
  <1> QED BY <1>9 DEF a

-----------------------------------------------------------------------------
(* The types, the slots and the lock.                                      *)

\* The kernel counts its own calls, and none of them is at the bottom.
Linked ==
  \A k \in 1..Len(stack) :
    /\ stack[k].site # None => k > 1
    /\ stack[k].counted => stack[k].site # None
LockInv == TypeOK /\ Compiled /\ Linked /\ LockIsDepth

\* A step of the kernel leaves what the compiler did.
LEMMA CompilerSame ==
  ASSUME TypeOK, Compiled, UNCHANGED compiler, request' \in Nat,
         request' > 0 => Len(code) = Len(program),
         stack' # <<>> => request' > 0,
         scache' \in [Slots -> Pointer \cup {NoFunction}], fcache' \in [DOMAIN fcache' -> Pointer],
         lock' \in Nat, bailed' \in BOOLEAN, stack' \in Seq(Frame)
  PROVE  TypeOK' /\ Compiled'
  <1>1. /\ program' = program /\ next' = next /\ nextSlot' = nextSlot
        /\ slotOf' = slotOf /\ memo' = memo /\ code' = code
    BY DEF compiler
  <1>2. Frame' = Frame /\ Sites' = Sites
    BY <1>1 DEF Frame, Sites
  <1>3. TypeOK'
    BY <1>1, <1>2 DEF TypeOK
  <1>4. SlotsTaken' /\ MemoRight'
    BY <1>1 DEF Compiled, SlotsTaken, MemoRight
  <1>5. \A i \in 1..Len(code) :
          /\ SlotRight(i) => SlotRight(i)'
          /\ (code[i].inline # None => InlineRight(i, code[i].inline))
               => (code[i].inline # None => InlineRight(i, code[i].inline))'
    BY <1>1, ZenonT(60) DEF SlotRight, InlineRight, Target
  <1> QED BY <1>1, <1>3, <1>4, <1>5 DEF Compiled

\* The stack is finite, and so are the calls that are counted.
LEMMA CountedFinite ==
  ASSUME stack \in Seq(Frame)
  PROVE  IsFiniteSet(Counted) /\ Cardinality(Counted) \in Nat
  <1>1. Len(stack) \in Nat /\ 1 \in Int
    OBVIOUS
  <1>2. IsFiniteSet(1..Len(stack))
    BY <1>1, FS_Interval
  <1>3. Counted \subseteq 1..Len(stack)
    BY DEF Counted
  <1>4. IsFiniteSet(Counted)
    BY <1>2, <1>3, FS_Subset
  <1> QED BY <1>4, FS_CardinalityType

\* One more activation.
LEMMA CountedPushed ==
  ASSUME stack \in Seq(Frame), stack' \in Seq(Frame), Len(stack') = Len(stack) + 1,
         \A k \in 1..Len(stack) : stack'[k].counted = stack[k].counted
  PROVE  Cardinality(Counted') = IF stack'[Len(stack) + 1].counted
                                 THEN Cardinality(Counted) + 1 ELSE Cardinality(Counted)
  <1> DEFINE n == Len(stack) + 1
  <1>1. Len(stack) \in Nat /\ n \notin Counted /\ IsFiniteSet(Counted)
    BY CountedFinite DEF Counted
  <1>2. Counted' = IF stack'[n].counted THEN Counted \cup {n} ELSE Counted
    <2>1. \A k : k \in 1..Len(stack') <=> k \in 1..Len(stack) \/ k = n
      BY <1>1
    <2>2. \A k : k \in Counted' <=> k \in 1..Len(stack') /\ stack'[k].counted
      BY DEF Counted
    <2>3. \A k : k \in Counted <=> k \in 1..Len(stack) /\ stack[k].counted
      BY DEF Counted
    <2> HIDE DEF n
    <2> QED BY <2>1, <2>2, <2>3
  <1> HIDE DEF n
  <1>3. Cardinality(Counted \cup {n}) = Cardinality(Counted) + 1
    BY <1>1, FS_AddElement
  <1>4. stack'[n].counted \/ ~stack'[n].counted
    OBVIOUS
  <1> QED BY <1>2, <1>3, <1>4 DEF n

\* One activation less.
LEMMA CountedPopped ==
  ASSUME stack \in Seq(Frame), stack # <<>>, stack' \in Seq(Frame),
         Len(stack') = Len(stack) - 1,
         \A k \in 1..Len(stack') : stack'[k].counted = stack[k].counted
  PROVE  /\ Cardinality(Counted') = IF Top.counted THEN Cardinality(Counted) - 1
                                    ELSE Cardinality(Counted)
         /\ Top.counted => Cardinality(Counted) >= 1
  <1> DEFINE n == Len(stack)
  <1>1. n \in Nat \ {0} /\ IsFiniteSet(Counted) /\ Cardinality(Counted) \in Nat
    BY EmptySeq, CountedFinite
  <1>2. Counted' = Counted \ {n} /\ (n \in Counted <=> Top.counted)
    <2>1. \A k : k \in 1..Len(stack') <=> k \in 1..n /\ k # n
      BY <1>1
    <2>2. \A k : k \in Counted' <=> k \in 1..Len(stack') /\ stack'[k].counted
      BY DEF Counted
    <2>3. \A k : k \in Counted <=> k \in 1..n /\ stack[k].counted
      BY DEF Counted
    <2>4. n \in 1..n
      BY <1>1
    <2> HIDE DEF n
    <2>5. Counted' = Counted \ {n}
      BY <2>1, <2>2, <2>3
    <2>6. n \in Counted <=> stack[n].counted
      BY <2>3, <2>4
    <2> QED BY <2>5, <2>6 DEF Top, n
  <1> HIDE DEF n
  <1>3. CASE Top.counted
    <2>1. Cardinality(Counted \ {n}) = Cardinality(Counted) - 1
      BY <1>1, <1>2, <1>3, FS_RemoveElement
    <2>2. Cardinality(Counted) # 0
      BY <1>1, <1>2, <1>3, FS_EmptySet
    <2> QED BY <1>1, <1>2, <1>3, <2>1, <2>2
  <1>4. CASE ~Top.counted
    <2>1. Counted \ {n} = Counted
      BY <1>2, <1>4
    <2> QED BY <1>2, <1>4, <2>1
  <1> QED BY <1>3, <1>4

\* A call of the kernel.
LEMMA EnterKeeps ==
  ASSUME LockInv, NEW i, NEW c, MayCall(i, c),
         NEW p \in Pointer \cup {NoFunction}, NEW f \in Pointer,
         NEW counted \in BOOLEAN, NEW key \in Keys, NEW cached \in BOOLEAN,
         Enter(i, c, p, f, counted, key, cached),
         lock' = IF counted THEN lock + 1 ELSE lock
  PROVE  LockInv'
  <1> DEFINE a == Activation(f, c, i, counted, key, cached)
  <1>1. /\ TypeOK /\ Compiled /\ Linked /\ LockIsDepth /\ i \in Sites /\ stack \in Seq(Frame)
        /\ stack # <<>> /\ Len(stack) \in Nat \ {0} /\ c \in Receiver /\ lock \in Nat
        /\ request \in Nat /\ request > 0 /\ Len(code) = Len(program)
        /\ program \in Programs /\ bailed \in BOOLEAN
    BY MayCallFacts DEF LockInv, TypeOK, Compiled
  <1>2. /\ stack' \in Seq(Frame) /\ Len(stack') = Len(stack) + 1
        /\ \A k \in 1..(Len(stack) - 1) : stack'[k] = stack[k]
        /\ stack'[Len(stack)].site = Top.site /\ stack'[Len(stack)].counted = Top.counted
        /\ stack'[Len(stack) + 1] = a
        /\ UNCHANGED <<compiler, globals, bailed>>
    <2>1. Pushes(i, c, p, a)
      BY <1>1, Entered
    <2> HIDE DEF a
    <2> QED BY <2>1 DEF Pushes
  <1>3. a.site = i /\ a.counted = counted
    BY <1>1, ActivationFacts
  <1>4. i # None /\ Top = stack[Len(stack)]
    BY <1>1 DEF Sites, None, Top
  <1> HIDE DEF a
  <1>5. \A k \in 1..Len(stack) :
          stack'[k].counted = stack[k].counted /\ stack'[k].site = stack[k].site
    BY <1>1, <1>2, <1>4
  <1>6. Linked'
    <2> SUFFICES ASSUME NEW k \in 1..Len(stack')
                 PROVE  /\ stack'[k].site # None => k > 1
                        /\ stack'[k].counted => stack'[k].site # None
      BY DEF Linked, None
    <2>1. CASE k \in 1..Len(stack)
      BY <2>1, <1>1, <1>5 DEF Linked
    <2>2. CASE k = Len(stack) + 1
      BY <2>2, <1>1, <1>2, <1>3, <1>4
    <2> QED BY <2>1, <2>2, <1>1, <1>2
  <1>7. Cardinality(Counted') = IF counted THEN Cardinality(Counted) + 1
                                ELSE Cardinality(Counted)
    BY <1>1, <1>2, <1>3, <1>5, CountedPushed
  <1>8. Cardinality(Counted) \in Nat
    BY <1>1, CountedFinite
  <1>9. LockIsDepth'
    BY <1>1, <1>2, <1>7, <1>8 DEF LockIsDepth
  <1>10. /\ UNCHANGED compiler /\ request' = request /\ lock' \in Nat /\ bailed' \in BOOLEAN
         /\ scache' \in [Slots -> Pointer \cup {NoFunction}]
         /\ fcache' \in [DOMAIN fcache' -> Pointer]
    BY <1>1, <1>2 DEF globals, TypeOK
  <1>11. TypeOK' /\ Compiled'
    BY <1>1, <1>2, <1>10, CompilerSame
  <1> QED BY <1>6, <1>9, <1>11 DEF LockInv

\* The calls, one for each place the function is found.
LEMMA CallFacts ==
  ASSUME LockInv, NEW i, NEW c
  PROVE  /\ CallInline(i, c) =>
              LET f == Top.inline[code[i].inline]
                  counted == program[i].on # "function"
              IN  /\ MayCall(i, c) /\ Cached(i) /\ f \in Pointer /\ code[i].inline \in Sites
                  /\ counted \in BOOLEAN
                  /\ lock' = IF counted THEN lock + 1 ELSE lock
                  /\ Enter(i, c, f, f, counted, NoKey, TRUE)
         /\ CallSlot(i, c) =>
              LET p == scache[code[i].slot]
                  f == IF code[i].inline = None THEN Asked(i, c) ELSE p
              IN  /\ MayCall(i, c) /\ code[i].slot # None /\ p \in Pointer /\ f \in Pointer
                  /\ lock' = lock + 1
                  /\ Enter(i, c, p, f, TRUE, NoKey, TRUE)
         /\ CallTable(i, c) =>
              LET k == SiteKey(i, c)
              IN  /\ MayCall(i, c) /\ k \in Keys /\ lock' = lock + 1
                  /\ \/ /\ k \in DOMAIN fcache /\ fcache[k] \in Pointer
                        /\ Enter(i, c, NoFunction, fcache[k], TRUE, k, TRUE)
                     \/ /\ Asked(i, c) \in Pointer
                        /\ Enter(i, c, NoFunction, Asked(i, c), TRUE, k, FALSE)
  <1>1. TypeOK /\ Compiled
    BY DEF LockInv
  <1>2. CASE CallInline(i, c)
    <2>1. MayCall(i, c) /\ Cached(i)
      BY <1>2 DEF CallInline
    <2>2. code[i].inline \in Sites
      BY <1>1, <2>1, MayCallFacts DEF Cached, CodeType
    <2>3. Top.inline[code[i].inline] \in Pointer
      BY <1>1, <2>1, <2>2, MayCallFacts, FrameType DEF Cached
    <2> QED BY <1>2, <2>1, <2>2, <2>3 DEF CallInline, CallSlot, CallTable
  <1>3. CASE CallSlot(i, c)
    <2>1. MayCall(i, c) /\ InSlot(i) /\ ~Cached(i)
      BY <1>3 DEF CallSlot
    <2>2. code[i].slot \in Slots
      BY <1>1, <2>1, MayCallFacts DEF CodeType
    <2>3. scache[code[i].slot] \in Pointer /\ code[i].slot # None
      BY <1>1, <2>1, <2>2 DEF InSlot, TypeOK
    <2>4. Asked(i, c) \in Pointer
      BY <1>1, <2>1, MayCallFacts
    <2> QED BY <1>3, <2>1, <2>3, <2>4 DEF CallInline, CallSlot, CallTable
  <1>4. CASE CallTable(i, c)
    <2>1. MayCall(i, c) /\ ~InSlot(i) /\ ~Cached(i)
      BY <1>4 DEF CallTable
    <2>2. SiteKey(i, c) \in Keys
      <3>1. program \in Programs
        BY <1>1 DEF TypeOK
      <3>2. program[i].in[1] \in Classes /\ program[i].name \in Names
        BY <1>1, <2>1, <3>1, MayCallFacts, SiteFacts
      <3> QED BY <3>2, <1>1, <2>1, MayCallFacts, KeyFacts DEF SiteKey, Keys
    <2>3. Asked(i, c) \in Pointer
      BY <1>1, <2>1, MayCallFacts
    <2>4. SiteKey(i, c) \in DOMAIN fcache => fcache[SiteKey(i, c)] \in Pointer
      BY <1>1 DEF TypeOK
    <2> QED BY <1>4, <2>1, <2>2, <2>3, <2>4 DEF CallInline, CallSlot, CallTable
  <1> QED BY <1>2, <1>3, <1>4

\* A call of the kernel returns: what is stored, if it was not found before.
LEMMA Returned ==
  ASSUME LockInv, ReturnToSite
  PROVE  LET r == stack[Len(stack) - 1]
             t == stack'[Len(stack) - 1]
         IN  /\ Top \in Frame /\ Top.site \in Sites /\ Len(stack) > 1
             /\ stack' \in Seq(Frame) /\ Len(stack') = Len(stack) - 1
             /\ \A k \in 1..(Len(stack) - 2) : stack'[k] = stack[k]
             /\ r \in Frame /\ t \in Frame
             /\ t.callable = r.callable /\ t.this = r.this /\ t.holds = r.holds
             /\ t.site = r.site /\ t.counted = r.counted /\ t.key = r.key
             /\ t.cached = r.cached
             /\ \A s \in Sites : \/ t.inline[s] = r.inline[s]
                                 \/ /\ ~Top.cached /\ s = code[Top.site].inline
                                    /\ t.inline[s] = Top.callable
             /\ fcache' \in [DOMAIN fcache' -> Pointer]
             /\ \A k \in DOMAIN fcache' : \/ k \in DOMAIN fcache /\ fcache'[k] = fcache[k]
                                          \/ /\ ~Top.cached /\ k = Top.key
                                             /\ fcache'[k] = Top.callable
             /\ scache' \in [Slots -> Pointer \cup {NoFunction}]
             /\ \A s \in Slots : \/ scache'[s] = scache[s]
                                 \/ /\ ~Top.cached /\ s = code[Top.site].slot /\ s # None
                                    /\ scache'[s] = Top.callable
  <1> DEFINE n == Len(stack)
             r == stack[n - 1]
             inline == code[Top.site].inline
             slot == code[Top.site].slot
             l == [s \in Sites |-> IF s = inline THEN Top.callable ELSE r.inline[s]]
             m == [r EXCEPT !.inline = l]
  <1>1. /\ stack \in Seq(Frame) /\ stack # <<>> /\ n \in Nat \ {0} /\ Top \in Frame
        /\ Top.site # None /\ Top = stack[n] /\ Linked
        /\ fcache \in [DOMAIN fcache -> Pointer] /\ scache \in [Slots -> Pointer \cup {NoFunction}]
    BY EmptySeq, ElementOfSeq DEF LockInv, TypeOK, ReturnToSite, Top
  <1>2. n > 1
    BY <1>1 DEF Linked
  <1>3. r \in Frame
    BY <1>1, <1>2, ElementOfSeq
  <1>4. Top.site \in Sites /\ Top.callable \in Pointer
        /\ r.inline \in [Sites -> Pointer \cup {NoFunction}]
    BY <1>1, <1>3, FrameType
  <1>5. l \in [Sites -> Pointer \cup {NoFunction}]
        /\ (\A s \in Sites : l[s] = IF s = inline THEN Top.callable ELSE r.inline[s])
    BY <1>4
  <1>6. \/ /\ stack' = Pop /\ UNCHANGED <<scache, fcache>>
        \/ /\ ~Top.cached
           /\ fcache' = [k \in DOMAIN fcache \cup {Top.key} |->
                           IF k = Top.key THEN Top.callable ELSE fcache[k]]
           /\ stack' = [Pop EXCEPT ![n - 1] = m]
           /\ scache' = IF inline = None \/ slot = None THEN scache
                        ELSE [scache EXCEPT ![slot] = Top.callable]
    BY DEF ReturnToSite
  <1> HIDE DEF inline, slot, l
  <1>7. /\ m \in Frame /\ m.callable = r.callable /\ m.this = r.this /\ m.holds = r.holds
        /\ m.site = r.site /\ m.counted = r.counted /\ m.key = r.key
        /\ m.cached = r.cached /\ m.inline = l
    <2> HIDE DEF r
    <2> QED BY <1>3, <1>5, FrameType
  <1> HIDE DEF m
  <1>8. CASE stack' = Pop /\ UNCHANGED <<scache, fcache>>
    <2>1. stack' \in Seq(Frame) /\ Len(stack') = n - 1
          /\ \A k \in 1..(n - 1) : stack'[k] = stack[k]
      BY <1>1, <1>8, StackPopped
    <2>2. stack'[n - 1] = r /\ \A k \in 1..(n - 2) : stack'[k] = stack[k]
      BY <2>1, <1>1, <1>2
    <2> HIDE DEF r
    <2> QED BY <2>1, <2>2, <1>1, <1>2, <1>3, <1>4, <1>8 DEF r
  <1>9. CASE /\ ~Top.cached
             /\ fcache' = [k \in DOMAIN fcache \cup {Top.key} |->
                             IF k = Top.key THEN Top.callable ELSE fcache[k]]
             /\ stack' = [Pop EXCEPT ![n - 1] = m]
             /\ scache' = IF inline = None \/ slot = None THEN scache
                          ELSE [scache EXCEPT ![slot] = Top.callable]
    <2>1. stack' \in Seq(Frame) /\ Len(stack') = n - 1 /\ stack'[n - 1] = m
          /\ \A k \in 1..(n - 2) : stack'[k] = stack[k]
      <3>1. stack' = [SubSeq(stack, 1, Len(stack) - 1) EXCEPT ![Len(stack) - 1] = m]
        BY <1>9 DEF Pop
      <3>2. Len(stack) > 1 /\ m \in Frame
        BY <1>2, <1>7
      <3> QED BY <3>1, <3>2, <1>1, PoppedInto
    <2>2. /\ fcache' \in [DOMAIN fcache' -> Pointer]
          /\ \A k \in DOMAIN fcache' : \/ k \in DOMAIN fcache /\ fcache'[k] = fcache[k]
                                       \/ k = Top.key /\ fcache'[k] = Top.callable
      <3>1. DOMAIN fcache' = DOMAIN fcache \cup {Top.key}
            /\ \A k \in DOMAIN fcache \cup {Top.key} :
                 fcache'[k] = IF k = Top.key THEN Top.callable ELSE fcache[k]
        BY <1>9
      <3>2. \A k \in DOMAIN fcache' : fcache'[k] \in Pointer
        BY <3>1, <1>1, <1>4
      <3>3. fcache' = [k \in DOMAIN fcache' |-> fcache'[k]]
        BY <3>1, <1>9
      <3> QED BY <3>1, <3>2, <3>3
    <2>3. /\ scache' \in [Slots -> Pointer \cup {NoFunction}]
          /\ \A s \in Slots : \/ scache'[s] = scache[s]
                              \/ /\ s = slot /\ s # None
                                 /\ scache'[s] = Top.callable
      <3>1. CASE inline = None \/ slot = None
        BY <3>1, <1>1, <1>9
      <3>2. CASE ~(inline = None \/ slot = None)
        BY <3>2, <1>1, <1>4, <1>9
      <3> QED BY <3>1, <3>2
    <2>4. \A s \in Sites : \/ m.inline[s] = r.inline[s]
                          \/ (s = inline /\ m.inline[s] = Top.callable)
      BY <1>5, <1>7
    <2> HIDE DEF r
    <2> QED BY <2>1, <2>2, <2>3, <2>4, <1>1, <1>2, <1>3, <1>4, <1>7, <1>9
            DEF r, inline, slot
  <1> QED BY <1>6, <1>8, <1>9

\* Every step of the compiler and the kernel.
LEMMA LockStep ==
  ASSUME LockInv, [Next]_vars
  PROVE  LockInv'
  <1>1. /\ TypeOK /\ Compiled /\ Linked /\ LockIsDepth
        /\ stack \in Seq(Frame) /\ request \in Nat /\ lock \in Nat /\ bailed \in BOOLEAN
        /\ scache \in [Slots -> Pointer \cup {NoFunction}]
        /\ fcache \in [DOMAIN fcache -> Pointer]
        /\ (request > 0 => Len(code) = Len(program))
        /\ (stack # <<>> => request > 0)
        /\ program \in Programs
    BY DEF LockInv, TypeOK, Compiled
  <1>2. Cardinality(Counted) \in Nat
    BY <1>1, CountedFinite
  <1>3. ASSUME stack' = <<>>, lock' \in Nat
        PROVE  /\ Linked' /\ stack' \in Seq(Frame) /\ Cardinality(Counted') = 0
    <2>1. Len(stack') = 0 /\ Counted' = {} /\ stack' \in Seq(Frame)
      BY <1>3 DEF Counted
    <2>2. Cardinality(Counted') = 0
      BY <2>1, FS_EmptySet
    <2> QED BY <2>1, <2>2 DEF Linked
  <1>4. ASSUME stack # <<>>, stack' \in Seq(Frame), Len(stack') = Len(stack) - 1,
               \A k \in 1..Len(stack') : /\ stack'[k].counted = stack[k].counted
                                         /\ stack'[k].site = stack[k].site,
               lock' = IF Top.counted THEN lock - 1 ELSE lock, UNCHANGED bailed
        PROVE  Linked' /\ LockIsDepth' /\ lock' \in Nat
    <2>1. Linked'
      <3>1. SUFFICES ASSUME NEW k \in 1..Len(stack')
                     PROVE  /\ stack'[k].site # None => k > 1
                            /\ stack'[k].counted => stack'[k].site # None
        BY DEF Linked
      <3>2. Len(stack) \in Nat
        BY <1>1
      <3>3. k \in 1..Len(stack)
        BY <1>4, <3>1, <3>2
      <3>4. stack'[k].counted = stack[k].counted /\ stack'[k].site = stack[k].site
        BY <1>4, <3>1
      <3> QED BY <1>1, <3>3, <3>4, Zenon DEF Linked
    <2>2. /\ Cardinality(Counted') = IF Top.counted THEN Cardinality(Counted) - 1
                                     ELSE Cardinality(Counted)
          /\ Top.counted => Cardinality(Counted) >= 1
      BY <1>1, <1>4, CountedPopped
    <2>3. lock >= Cardinality(Counted) /\ (~bailed => lock = Cardinality(Counted))
      BY <1>1 DEF LockIsDepth
    <2>4. lock' \in Nat
      BY <1>1, <1>2, <1>4, <2>2, <2>3
    <2>5. LockIsDepth'
      BY <1>1, <1>2, <1>4, <2>2, <2>3 DEF LockIsDepth
    <2> QED BY <2>1, <2>4, <2>5
  <1>5. CASE \E i \in Sites :
               Unresolved(i) \/ Memoized(i) \/ MethodCache(i) \/ FunctionCache(i)
    <2>1. TypeOK' /\ Compiled'
      BY <1>1, <1>5, CompilerKeeps
    <2>2. UNCHANGED <<lock, bailed, stack>>
      BY <1>5 DEF Unresolved, Memoized, MethodCache, FunctionCache, Generate
    <2>3. Linked' /\ LockIsDepth'
      BY <1>1, <2>2 DEF Linked, LockIsDepth, Counted
    <2> QED BY <2>1, <2>3 DEF LockInv
  <1>6. CASE StartRequest
    <2>1. /\ stack' = <<>> /\ lock' = 0 /\ bailed' = FALSE /\ UNCHANGED compiler
          /\ request' = request + 1 /\ next > Len(program)
          /\ scache' = [s \in Slots |-> NoFunction]
          /\ fcache' = [k \in {} |-> NoFunction]
      BY <1>6 DEF StartRequest
    <2>2. Linked' /\ stack' \in Seq(Frame) /\ Cardinality(Counted') = 0
      BY <2>1, <1>3
    <2>3. LockIsDepth'
      BY <2>1, <2>2 DEF LockIsDepth
    <2>4. Len(code) = Len(program)
      <3>1. code \in Seq(CodeType) /\ program \in Seq(Site)
        BY <1>1, ProgramsAssumption DEF TypeOK, CodeType
      <3> QED BY <3>1, <1>1, <2>1 DEF Compiled
    <2>5. /\ scache' \in [Slots -> Pointer \cup {NoFunction}]
          /\ fcache' \in [DOMAIN fcache' -> Pointer]
      BY <2>1
    <2>6. /\ request' \in Nat /\ lock' \in Nat /\ bailed' \in BOOLEAN
          /\ UNCHANGED compiler /\ (stack' # <<>> => request' > 0)
      <3>1. bailed' \in BOOLEAN
        BY <2>1, Zenon
      <3>2. stack' = <<>> /\ request' = request + 1 /\ lock' = 0 /\ UNCHANGED compiler
        BY <2>1
      <3> QED BY <1>1, <3>1, <3>2
    <2> QED BY <1>1, <2>2, <2>3, <2>4, <2>5, <2>6, CompilerSame DEF LockInv
  <1>7. CASE ReturnToPHP
    <2>1. /\ stack # <<>> /\ Top.site = None
          /\ stack' = Pop
          /\ UNCHANGED <<compiler, request, scache, fcache, lock, bailed>>
      BY <1>7 DEF ReturnToPHP, globals
    <2>2. /\ stack' \in Seq(Frame) /\ Len(stack) \in Nat \ {0}
          /\ Len(stack') = Len(stack) - 1
          /\ \A k \in 1..(Len(stack) - 1) : stack'[k] = stack[k]
      BY <1>1, <2>1, StackPopped
    <2>3. ~Top.counted
      <3>1. Len(stack) \in 1..Len(stack) /\ Top = stack[Len(stack)]
        BY <2>2 DEF Top
      <3> QED BY <3>1, <2>1, <1>1 DEF Linked
    <2>4. Linked' /\ LockIsDepth' /\ lock' \in Nat
      BY <1>4, <2>1, <2>2, <2>3
    <2> QED BY <1>1, <2>1, <2>2, <2>4, CompilerSame DEF LockInv
  <1>8. CASE ReturnToSite
    <2> DEFINE n == Len(stack)
    <2>1. /\ stack # <<>> /\ UNCHANGED <<compiler, request, bailed>>
          /\ lock' = IF Top.counted THEN lock - 1 ELSE lock
      BY <1>8 DEF ReturnToSite
    <2>2. /\ n > 1 /\ stack' \in Seq(Frame) /\ Len(stack') = n - 1
          /\ fcache' \in [DOMAIN fcache' -> Pointer]
          /\ scache' \in [Slots -> Pointer \cup {NoFunction}]
      BY <1>8, Returned
    <2>3. \A k \in 1..(n - 2) : stack'[k] = stack[k]
      BY <1>8, Returned
    <2>4. /\ stack'[n - 1].site = stack[n - 1].site
          /\ stack'[n - 1].counted = stack[n - 1].counted
      BY <1>8, Returned
    <2>5. n \in Nat
      BY <1>1
    <2> HIDE DEF n
    <2>6. \A k \in 1..Len(stack') : /\ stack'[k].counted = stack[k].counted
                                    /\ stack'[k].site = stack[k].site
      BY <2>2, <2>3, <2>4, <2>5
    <2>7. Linked' /\ LockIsDepth' /\ lock' \in Nat
      BY <1>4, <2>1, <2>2, <2>6 DEF n
    <2> QED BY <1>1, <2>1, <2>2, <2>7, CompilerSame DEF LockInv
  <1>9. CASE Bailout
    <2>1. /\ stack' = <<>> /\ bailed' = TRUE
          /\ UNCHANGED <<compiler, request, scache, fcache, lock>>
      BY <1>9 DEF Bailout, globals
    <2>2. Linked' /\ stack' \in Seq(Frame) /\ Cardinality(Counted') = 0
      BY <2>1, <1>1, <1>3
    <2>3. LockIsDepth'
      BY <1>1, <2>1, <2>2 DEF LockIsDepth
    <2> QED BY <1>1, <2>1, <2>2, <2>3, CompilerSame DEF LockInv
  <1>10. CASE \E c \in Classes, n \in Names : FromPHP(c, n)
    <2>1. PICK c \in Classes, n \in Names : FromPHP(c, n)
      BY <1>10
    <2> DEFINE f == [callable |-> Table[c][n], of |-> request]
               a == Activation(f, c, None, FALSE, NoKey, FALSE)
    <2>2. /\ request > 0 /\ Has(c, n) /\ stack' = Append(stack, a)
          /\ UNCHANGED <<compiler, request, scache, fcache, lock, bailed>>
      BY <2>1 DEF FromPHP, globals
    <2>3. f \in Pointer
      BY <1>1, <2>2, ClassesAssumption DEF Has, Pointer, Callables
    <2>4. a \in Frame /\ a.site = None /\ a.counted = FALSE
      <3> HIDE DEF f
      <3>1. /\ c \in Receiver /\ None \in {None} \cup Sites /\ FALSE \in BOOLEAN
            /\ NoKey \in Keys
        BY DEF Receiver, Keys
      <3>2. [s \in Sites |-> NoFunction] \in [Sites -> Pointer \cup {NoFunction}]
            /\ [s \in Sites |-> NoClass] \in [Sites -> Receiver]
        BY DEF Receiver
      <3> QED BY <2>3, <3>1, <3>2, FrameType DEF Activation
    <2> HIDE DEF f, a
    <2>5. /\ stack' \in Seq(Frame) /\ Len(stack') = Len(stack) + 1
          /\ stack'[Len(stack) + 1] = a
          /\ \A k \in 1..Len(stack) : stack'[k] = stack[k]
      BY <1>1, <2>2, <2>4
    <2>6. Linked'
      BY <1>1, <2>4, <2>5 DEF Linked
    <2>7. Cardinality(Counted') = Cardinality(Counted)
      BY <1>1, <2>4, <2>5, CountedPushed
    <2>8. LockIsDepth'
      BY <1>1, <2>2, <2>7 DEF LockIsDepth
    <2> QED BY <1>1, <2>2, <2>5, <2>6, <2>8, CompilerSame DEF LockInv
  <1>11. ASSUME NEW i \in Sites, NEW c \in Classes \cup {NoClass},
                CallInline(i, c) \/ CallSlot(i, c) \/ CallTable(i, c) \/ TooDeep(i, c)
         PROVE  LockInv'
    <2>1. NoFunction \in Pointer \cup {NoFunction} /\ NoKey \in Keys
      BY DEF Keys
    <2>2. CASE CallInline(i, c)
      BY <2>1, <2>2, CallFacts, EnterKeeps, ZenonT(60)
    <2>3. CASE CallSlot(i, c)
      BY <2>1, <2>3, CallFacts, EnterKeeps, ZenonT(60)
    <2>4. CASE CallTable(i, c)
      BY <2>1, <2>4, CallFacts, EnterKeeps, ZenonT(60)
    <2>5. CASE TooDeep(i, c)
      <3>1. /\ stack' = <<>> /\ bailed' = TRUE /\ lock' = lock + 1
            /\ UNCHANGED <<compiler, request, scache, fcache>>
        BY <2>5 DEF TooDeep, globals
      <3>2. Linked' /\ stack' \in Seq(Frame) /\ Cardinality(Counted') = 0
        BY <3>1, <1>1, <1>3
      <3>3. LockIsDepth'
        BY <1>1, <3>1, <3>2 DEF LockIsDepth
      <3> QED BY <1>1, <3>1, <3>2, <3>3, CompilerSame DEF LockInv
    <2> QED BY <1>11, <2>2, <2>3, <2>4, <2>5
  <1>12. CASE UNCHANGED vars
    BY <1>12, <1>1, CompilerSame DEF vars, compiler, LockInv, Linked, LockIsDepth, Counted
  <1> QED BY <1>5, <1>6, <1>7, <1>8, <1>9, <1>10, <1>11, <1>12 DEF Next

LEMMA LockInitially == Init => LockInv
  <1> SUFFICES ASSUME Init PROVE LockInv
    OBVIOUS
  <1>1. /\ program \in Programs /\ next = 1 /\ nextSlot = 1
        /\ slotOf = [t \in Callables |-> None] /\ memo = [k \in {} |-> None] /\ code = <<>>
        /\ request = 0 /\ scache = [s \in Slots |-> NoFunction]
        /\ fcache = [k \in {} |-> NoFunction] /\ lock = 0 /\ bailed = FALSE /\ stack = <<>>
    BY DEF Init
  <1>2. program \in Seq(Site)
    BY <1>1, ProgramsAssumption
  <1>3. TypeOK
    <2>1. /\ slotOf \in [Callables -> Slots]
          /\ scache \in [Slots -> Pointer \cup {NoFunction}]
      BY <1>1, SlotsFact
    <2>2. /\ memo \in [DOMAIN memo -> {None} \cup Sites] /\ DOMAIN memo = {}
          /\ fcache \in [DOMAIN fcache -> Pointer]
      BY <1>1
    <2>3. code \in Seq([inline : {None} \cup Sites, slot : Slots]) /\ stack \in Seq(Frame)
      BY <1>1
    <2>4. bailed \in BOOLEAN /\ next \in Nat /\ nextSlot \in Nat /\ request \in Nat
          /\ lock \in Nat /\ program \in Programs
      BY <1>1
    <2> QED BY <2>1, <2>2, <2>3, <2>4 DEF TypeOK
  <1>4. Compiled
    BY <1>1, <1>2, SlotsFact DEF Compiled, SlotsTaken, MemoRight, None
  <1>5. Counted = {} /\ Linked
    BY <1>1 DEF Counted, Linked
  <1>6. LockIsDepth
    BY <1>1, <1>5, FS_EmptySet DEF LockIsDepth
  <1> QED BY <1>3, <1>4, <1>5, <1>6 DEF LockInv

LEMMA LockInvariant == Spec => []LockInv
  <1>1. Init => LockInv
    BY LockInitially
  <1>2. LockInv /\ [Next]_vars => LockInv'
    BY LockStep
  <1> QED BY <1>1, <1>2, PTL DEF Spec

\* The types hold: slots stay inside scache, and recursive_lock, which is
\* unsigned, never passes below zero.
THEOREM TypeCorrect == Spec => []TypeOK
  <1>1. LockInv => TypeOK
    BY DEF LockInv
  <1> QED BY <1>1, LockInvariant, PTL

\* recursive_lock is the number of the calls of the kernel that run, and after
\* exit or a fatal error it is at least that.
THEOREM LockCounts == Spec => []LockIsDepth
  <1>1. LockInv => LockIsDepth
    BY DEF LockInv
  <1> QED BY <1>1, LockInvariant, PTL

\* No two callables share a slot of scache, whatever the number of slots.
THEOREM SlotsAreDistinct == Spec => []SlotsDistinct
  <1>1. ASSUME LockInv PROVE SlotsDistinct
    <2>1. TypeOK /\ Compiled
      BY <1>1 DEF LockInv
    <2> SUFFICES ASSUME NEW i \in 1..Len(code), NEW j \in 1..Len(code),
                        code[i].slot = code[j].slot, code[i].slot # None
                 PROVE  Target(program[i]) = Target(program[j])
      BY DEF SlotsDistinct
    <2>2. program \in Programs /\ code \in Seq(CodeType)
      BY <2>1 DEF TypeOK, CodeType
    <2>3. i \in Sites /\ j \in Sites
      BY <2>1, <2>2, ProgramsAssumption DEF Compiled, Sites
    <2>4. PICK t \in Target(program[i]) : slotOf[t] = code[i].slot
      BY <2>1 DEF Compiled, SlotRight
    <2>5. PICK u \in Target(program[j]) : slotOf[u] = code[j].slot
      BY <2>1 DEF Compiled, SlotRight
    <2>6. t = u
      BY <2>1, <2>2, <2>3, <2>4, <2>5, TargetFacts DEF Compiled, SlotsTaken
    <2>7. /\ \A x \in Target(program[i]) : x = t
          /\ \A x \in Target(program[j]) : x = u
      BY <2>2, <2>3, <2>4, <2>5, TargetFacts
    <2>8. \A x : x \in Target(program[i]) <=> x \in Target(program[j])
      BY <2>4, <2>5, <2>6, <2>7
    <2> HIDE DEF Target
    <2> QED BY <2>8
  <1>2. LockInv => SlotsDistinct
    BY <1>1
  <1> QED BY <1>2, LockInvariant, PTL

-----------------------------------------------------------------------------
(* What the caches hold, when the objects are those they count on.         *)

Right(i, c) == [callable |-> Method(program[i].in[1], c, program[i].name), of |-> request]

\* A function in the cache of site j of an activation f.
Holds(f, j, p) ==
  /\ p.of = request
  /\ IF Target(program[j]) = {} THEN f.holds[j] \in Classes /\ p = Right(j, f.holds[j])
     ELSE p.callable \in Target(program[j])

SlotsRight ==
  \A s \in Slots : scache[s] # NoFunction =>
    /\ scache[s].of = request /\ s # None
    /\ scache[s].callable \in Callables /\ slotOf[scache[s].callable] = s
TableRight ==
  \A k \in DOMAIN fcache :
    fcache[k] = [callable |-> Method(k[2], k[3], k[1]), of |-> request]
InlinesRight ==
  \A k \in 1..Len(stack) : \A j \in Sites :
    stack[k].inline[j] # NoFunction => Holds(stack[k], j, stack[k].inline[j])
FrameRight(below, f) ==
  /\ f.site = None => f.this \in Classes
  /\ f.site # None =>
       /\ f.this = below.holds[f.site]
       /\ f.callable = Right(f.site, f.this)
       /\ \A t \in Target(program[f.site]) : f.callable.callable = t
       /\ Target(program[f.site]) = {} => f.this \in Classes
       /\ ~f.cached => f.key = SiteKey(f.site, f.this)
FramesRight == \A k \in 1..Len(stack) : FrameRight(stack[k - 1], stack[k])
Idle == request = 0 => (\A s \in Slots : scache[s] = NoFunction) /\ DOMAIN fcache = {}

CacheInv ==
  LockInv /\ SlotsRight /\ TableRight /\ InlinesRight /\ FramesRight /\ Idle

\* What is right of the stack depends on the program and the request alone.
LEMMA StackRight ==
  ASSUME UNCHANGED <<compiler, request>>,
         \A k \in 1..Len(stack') : \A j \in Sites :
           stack'[k].inline[j] # NoFunction =>
             Holds(stack'[k], j, stack'[k].inline[j]),
         \A k \in 1..Len(stack') : FrameRight(stack'[k - 1], stack'[k])
  PROVE  InlinesRight' /\ FramesRight'
  <1>1. program' = program /\ request' = request /\ Sites' = Sites
    BY DEF compiler, Sites
  <1>2. InlinesRight'
    BY <1>1, ZenonT(60) DEF InlinesRight, Holds, Right, Target
  <1>3. FramesRight'
    BY <1>1 DEF FramesRight, FrameRight, Right, SiteKey, Target
  <1> QED BY <1>2, <1>3

\* The object of a call is one the caches count on.
LEMMA Counting ==
  ASSUME Polymorphic = FALSE, CacheInv, NEW i, NEW c, MayCall(i, c)
  PROVE  /\ \A t \in Target(program[i]) : Right(i, c).callable = t
         /\ Target(program[i]) = {} => c \in Classes /\ Top.holds[i] \in {NoClass, c}
         /\ Asked(i, c) = Right(i, c) /\ Right(i, c) \in Pointer
  <1>1. TypeOK /\ Compiled
    BY DEF CacheInv, LockInv
  <1>2. /\ i \in Sites /\ Top \in Frame /\ Len(stack) \in Nat \ {0} /\ program \in Programs
        /\ Top.callable.callable = program[i].in /\ Asked(i, c) \in Pointer
    BY <1>1, MayCallFacts DEF TypeOK
  <1>3. Monomorphic(i, c)
    BY Zenon DEF MayCall
  <1>4. Asked(i, c) = Right(i, c)
    BY DEF Asked, Right
  <1>5. \A t \in Target(program[i]) : Right(i, c).callable = t
    BY <1>3 DEF Monomorphic, Right
  <1>6. ASSUME Target(program[i]) = {} PROVE c \in Classes /\ Top.holds[i] \in {NoClass, c}
    <2>1. program[i].on \in Kinds /\ program[i].on # "function"
      BY <1>2, <1>6, SiteFacts DEF Site, Target
    <2>2. CASE program[i].on = "this"
      <3>1. Top = stack[Len(stack)] /\ Len(stack) \in 1..Len(stack)
        BY <1>2 DEF Top
      <3>2. FrameRight(stack[Len(stack) - 1], Top)
        BY <3>1 DEF CacheInv, FramesRight
      <3>3. program[i].in \in Defined
        BY <1>2, SiteFacts
      <3>4. Top.this \in Classes
        <4>1. CASE Top.site = None
          BY <3>2, <4>1 DEF FrameRight
        <4>2. CASE Top.site # None
          <5>1. Top.callable = Right(Top.site, Top.this)
            BY <3>2, <4>2 DEF FrameRight
          <5>2. Method(program[Top.site].in[1], Top.this, program[Top.site].name)
                  = program[i].in
            BY <5>1, <1>2 DEF Right
          <5>3. Top.this # NoClass
            <6>1. \A n : <<NoClass, n>> \notin Defined
              BY ClassesAssumption, MethodsAssumption
            <6> QED BY <6>1, <5>2, <3>3 DEF Method
          <5>4. Top.this \in Receiver
            BY <1>2, FrameType
          <5> QED BY <5>3, <5>4 DEF Receiver
        <4> QED BY <4>1, <4>2
      <3>5. c = Top.this
        BY <2>2 DEF MayCall, Receivers
      <3> QED BY <3>4, <3>5, <1>3, <1>6 DEF Monomorphic
    <2>3. CASE program[i].on # "this"
      <3>1. c \in Receivers(program[i], Top.this)
        BY DEF MayCall
      <3>2. c \in Classes
        BY <2>1, <2>3, <3>1, <1>2, SiteFacts DEF Receivers, Kinds
      <3> QED BY <3>2, <1>3, <1>6 DEF Monomorphic
    <2> QED BY <2>2, <2>3
  <1> QED BY <1>2, <1>4, <1>5, <1>6

\* A call that reaches the right function leaves the caches right.
LEMMA EnterRight ==
  ASSUME Polymorphic = FALSE, CacheInv, NEW i, NEW c, MayCall(i, c),
         NEW p \in {NoFunction, Right(i, c)}, NEW f, f = Right(i, c),
         NEW counted \in BOOLEAN, NEW key \in Keys, NEW cached \in BOOLEAN,
         ~cached => key = SiteKey(i, c),
         Enter(i, c, p, f, counted, key, cached), LockInv'
  PROVE  CacheInv'
  <1> DEFINE n == Len(stack)
             a == Activation(f, c, i, counted, key, cached)
             g == stack'[n]
  <1>1. LockInv /\ TypeOK /\ Compiled
    BY DEF CacheInv, LockInv
  <1>2. /\ i \in Sites /\ stack \in Seq(Frame) /\ n \in Nat \ {0} /\ c \in Receiver
        /\ Top = stack[n] /\ f \in Pointer /\ p \in Pointer \cup {NoFunction}
        /\ code[i] \in CodeType
        /\ (code[i].inline # None => InlineRight(i, code[i].inline))
    BY <1>1, MayCallFacts, Counting DEF Top
  <1>3. Pushes(i, c, p, a)
    BY <1>1, <1>2, Entered
  <1>4. /\ stack' \in Seq(Frame) /\ Len(stack') = n + 1
        /\ \A k \in 1..(n - 1) : stack'[k] = stack[k]
        /\ stack'[n + 1] = a /\ UNCHANGED <<compiler, globals, bailed>>
    <2> HIDE DEF a
    <2> QED BY <1>3 DEF Pushes
  <1>5. /\ g.callable = Top.callable /\ g.this = Top.this /\ g.site = Top.site
        /\ g.key = Top.key /\ g.cached = Top.cached
        /\ \A s \in Sites : g.inline[s] = IF s = code[i].inline THEN p ELSE Top.inline[s]
        /\ \A s \in Sites : g.holds[s] = IF s = i THEN c ELSE Top.holds[s]
    <2> HIDE DEF a
    <2> QED BY <1>3 DEF Pushes
  <1>7. /\ a.callable = f /\ a.this = c /\ a.site = i /\ a.key = key /\ a.cached = cached
        /\ \A s \in Sites : a.inline[s] = NoFunction
    BY <1>2, ActivationFacts
  <1>8. /\ \A t \in Target(program[i]) : Right(i, c).callable = t
        /\ Target(program[i]) = {} => c \in Classes /\ Top.holds[i] \in {NoClass, c}
        /\ Right(i, c).of = request
    BY <1>2, Counting DEF Right
  <1> HIDE DEF n, a
  <1>9. ASSUME NEW j \in Sites, g.inline[j] # NoFunction PROVE Holds(g, j, g.inline[j])
    <2>1. CASE j = code[i].inline
      <3>1. g.inline[j] = Right(i, c)
        BY <2>1, <1>5, <1>9
      <3>2. /\ Target(program[j]) = Target(program[i])
            /\ Target(program[i]) = {} => j = i
        BY <2>1, <1>2 DEF InlineRight, Sites, None
      <3>3. CASE Target(program[i]) = {}
        <4>1. g.holds[j] = c /\ c \in Classes /\ j = i
          BY <3>2, <3>3, <1>5, <1>8
        <4> QED BY <3>1, <3>2, <3>3, <4>1, <1>8 DEF Holds
      <3>4. CASE Target(program[i]) # {}
        BY <3>1, <3>2, <3>4, <1>8 DEF Holds
      <3> QED BY <3>3, <3>4
    <2>2. CASE j # code[i].inline
      <3>1. g.inline[j] = Top.inline[j] /\ Top.inline[j] # NoFunction
        BY <2>2, <1>5, <1>9
      <3>2. n \in 1..Len(stack)
        BY <1>2 DEF n
      <3>3. Holds(Top, j, Top.inline[j])
        BY <3>1, <3>2, <1>2 DEF CacheInv, InlinesRight
      <3>4. CASE Target(program[j]) = {}
        <4>1. Top.holds[j] \in Classes /\ Top.inline[j] = Right(j, Top.holds[j])
          BY <3>3, <3>4 DEF Holds
        <4>2. g.holds[j] = Top.holds[j]
          BY <4>1, <3>4, <1>5, <1>8, ClassesAssumption, ZenonT(60)
        <4> QED BY <3>1, <3>3, <4>2 DEF Holds
      <3>5. CASE Target(program[j]) # {}
        BY <3>1, <3>3, <3>5 DEF Holds
      <3> QED BY <3>4, <3>5
    <2> QED BY <2>1, <2>2
  <1>10. ASSUME NEW k \in 1..Len(stack'), NEW j \in Sites, stack'[k].inline[j] # NoFunction
         PROVE  Holds(stack'[k], j, stack'[k].inline[j])
    <2>1. CASE k \in 1..(n - 1)
      <3>1. stack'[k] = stack[k] /\ k \in 1..Len(stack)
        BY <2>1, <1>2, <1>4 DEF n
      <3> QED BY <3>1, <1>10 DEF CacheInv, InlinesRight
    <2>2. CASE k = n
      BY <2>2, <1>9, <1>10
    <2>3. CASE k = n + 1
      BY <2>3, <1>4, <1>7, <1>10
    <2> QED BY <2>1, <2>2, <2>3, <1>2, <1>4
  <1>11. ASSUME NEW k \in 1..Len(stack') PROVE FrameRight(stack'[k - 1], stack'[k])
    <2>1. CASE k \in 1..(n - 1)
      <3>1. stack'[k] = stack[k] /\ k \in 1..Len(stack)
            /\ (k > 1 => stack'[k - 1] = stack[k - 1])
        BY <2>1, <1>2, <1>4 DEF n
      <3>2. FrameRight(stack[k - 1], stack[k]) /\ (stack[k].site # None => k > 1)
        BY <3>1 DEF CacheInv, FramesRight, LockInv, Linked
      <3> QED BY <3>1, <3>2 DEF FrameRight
    <2>2. CASE k = n
      <3>1. n \in 1..Len(stack) /\ (n > 1 => stack'[n - 1] = stack[n - 1])
        BY <1>2, <1>4 DEF n
      <3>2. FrameRight(stack[n - 1], Top) /\ (Top.site # None => n > 1)
        BY <3>1, <1>2 DEF CacheInv, FramesRight, LockInv, Linked
      <3>3. FrameRight(stack'[n - 1], g)
        BY <3>1, <3>2, <1>5 DEF FrameRight
      <3> QED BY <2>2, <3>3
    <2>3. CASE k = n + 1
      <3>1. g.holds[i] = c /\ i # None
        BY <1>2, <1>5 DEF Sites, None
      <3>2. FrameRight(g, a)
        BY <3>1, <1>7, <1>8 DEF FrameRight
      <3>3. k - 1 = n
        BY <2>3, <1>2
      <3> QED BY <2>3, <3>2, <3>3, <1>4
    <2> QED BY <2>1, <2>2, <2>3, <1>2, <1>4
  <1>12. InlinesRight' /\ FramesRight'
    <2>1. UNCHANGED <<compiler, request>>
      BY <1>4 DEF globals
    <2> QED BY <2>1, <1>10, <1>11, StackRight
  <1>13. SlotsRight' /\ TableRight' /\ Idle'
    <2>1. slotOf' = slotOf /\ scache' = scache /\ fcache' = fcache /\ request' = request
      BY <1>4 DEF compiler, globals
    <2> QED BY <2>1 DEF CacheInv, SlotsRight, TableRight, Idle
  <1> QED BY <1>12, <1>13 DEF CacheInv

\* A call that returns stores what is right for its key, site and slot.
LEMMA ReturnRight ==
  ASSUME CacheInv, ReturnToSite, LockInv'
  PROVE  CacheInv'
  <1> DEFINE n == Len(stack)
             i == Top.site
             r == stack[n - 1]
             g == stack'[n - 1]
  <1>1. /\ LockInv /\ TypeOK /\ Compiled /\ SlotsRight /\ TableRight /\ InlinesRight
        /\ FramesRight /\ Idle /\ program \in Programs
        /\ slotOf \in [Callables -> Slots]
        /\ UNCHANGED <<compiler, request>> /\ stack # <<>> /\ stack \in Seq(Frame)
    BY DEF CacheInv, LockInv, TypeOK, ReturnToSite
  <1>2. /\ Top \in Frame /\ i \in Sites /\ n > 1 /\ n \in Nat
        /\ stack' \in Seq(Frame) /\ Len(stack') = n - 1
        /\ \A k \in 1..(n - 2) : stack'[k] = stack[k]
    BY <1>1, Returned
  <1>3. /\ g.callable = r.callable /\ g.this = r.this /\ g.holds = r.holds
        /\ g.site = r.site /\ g.key = r.key /\ g.cached = r.cached
    BY <1>1, Returned
  <1>4. \A s \in Sites : \/ g.inline[s] = r.inline[s]
                         \/ /\ ~Top.cached /\ s = code[Top.site].inline
                            /\ g.inline[s] = Top.callable
    BY <1>1, Returned
  <1>5. \A k \in DOMAIN fcache' : \/ k \in DOMAIN fcache /\ fcache'[k] = fcache[k]
                                  \/ /\ ~Top.cached /\ k = Top.key
                                     /\ fcache'[k] = Top.callable
    BY <1>1, Returned
  <1>6. \A s \in Slots : \/ scache'[s] = scache[s]
                         \/ /\ ~Top.cached /\ s = code[Top.site].slot /\ s # None
                            /\ scache'[s] = Top.callable
    BY <1>1, Returned
  <1>7. /\ Top.this = r.holds[i] /\ Top.callable = Right(i, Top.this)
        /\ \A t \in Target(program[i]) : Top.callable.callable = t
        /\ Target(program[i]) = {} => Top.this \in Classes
        /\ ~Top.cached => Top.key = SiteKey(i, Top.this)
    <2>1. n \in 1..Len(stack) /\ Top = stack[n] /\ i # None
      BY <1>2 DEF Top, Sites, None
    <2>2. FrameRight(r, Top)
      BY <1>1, <2>1 DEF FramesRight
    <2> QED BY <2>1, <2>2 DEF FrameRight
  <1>8. /\ SlotRight(i) /\ (code[i].inline # None => InlineRight(i, code[i].inline))
        /\ request > 0
    BY <1>1, <1>2 DEF Compiled, Sites
  <1>9. Top.callable.of = request /\ Top.callable \in Pointer /\ Top.this \in Receiver
    BY <1>2, <1>7, FrameType DEF Right
  <1> HIDE DEF n, i
  <1>10. ASSUME NEW j \in Sites, g.inline[j] # NoFunction PROVE Holds(g, j, g.inline[j])
    <2>1. CASE g.inline[j] = r.inline[j]
      <3>1. n - 1 \in 1..Len(stack)
        BY <1>2 DEF n
      <3>2. Holds(r, j, r.inline[j])
        BY <2>1, <3>1, <1>1, <1>10 DEF InlinesRight
      <3> QED BY <2>1, <3>2, <1>3 DEF Holds
    <2>2. CASE j = code[i].inline /\ g.inline[j] = Top.callable
      <3>1. /\ Target(program[j]) = Target(program[i])
            /\ Target(program[i]) = {} => j = i
        BY <2>2, <1>8 DEF InlineRight, Sites, None
      <3>2. CASE Target(program[i]) = {}
        <4>1. j = i /\ g.holds[j] = Top.this /\ Top.this \in Classes
          BY <3>1, <3>2, <1>3, <1>7
        <4> QED BY <2>2, <3>1, <3>2, <4>1, <1>7, <1>9 DEF Holds
      <3>3. CASE Target(program[i]) # {}
        BY <2>2, <3>1, <3>3, <1>7, <1>9 DEF Holds
      <3> QED BY <3>2, <3>3
    <2> QED BY <2>1, <2>2, <1>4 DEF i
  <1>11. ASSUME NEW k \in 1..Len(stack'), NEW j \in Sites, stack'[k].inline[j] # NoFunction
         PROVE  Holds(stack'[k], j, stack'[k].inline[j])
    <2>1. CASE k \in 1..(n - 2)
      <3>1. stack'[k] = stack[k] /\ k \in 1..Len(stack)
        BY <2>1, <1>2 DEF n
      <3> QED BY <3>1, <1>1, <1>11 DEF InlinesRight
    <2>2. CASE k = n - 1
      BY <2>2, <1>10, <1>11
    <2> QED BY <2>1, <2>2, <1>2
  <1>12. ASSUME NEW k \in 1..Len(stack') PROVE FrameRight(stack'[k - 1], stack'[k])
    <2>1. k \in 1..Len(stack) /\ (stack[k].site # None => k > 1)
      BY <1>1, <1>2 DEF n, LockInv, Linked
    <2>2. FrameRight(stack[k - 1], stack[k])
      BY <2>1, <1>1 DEF FramesRight
    <2>3. k > 1 => stack'[k - 1] = stack[k - 1]
      BY <1>2
    <2>4. /\ stack'[k].callable = stack[k].callable /\ stack'[k].this = stack[k].this
          /\ stack'[k].site = stack[k].site /\ stack'[k].key = stack[k].key
          /\ stack'[k].cached = stack[k].cached
      <3>1. CASE k = n - 1
        BY <3>1, <1>3
      <3>2. CASE k # n - 1
        <4>1. k \in 1..(n - 2)
          BY <3>2, <1>2
        <4> QED BY <4>1, <1>2
      <3> QED BY <3>1, <3>2
    <2> QED BY <2>1, <2>2, <2>3, <2>4 DEF FrameRight
  <1>13. InlinesRight' /\ FramesRight'
    BY <1>1, <1>11, <1>12, StackRight
  <1>14. slotOf' = slotOf /\ request' = request
    BY <1>1 DEF compiler
  <1>15. SlotsRight'
    <2> SUFFICES ASSUME NEW s \in Slots, scache'[s] # NoFunction
                 PROVE  /\ scache'[s].of = request /\ s # None
                        /\ scache'[s].callable \in Callables
                        /\ slotOf[scache'[s].callable] = s
      BY <1>14 DEF SlotsRight
    <2>1. CASE scache'[s] = scache[s]
      BY <2>1, <1>1 DEF SlotsRight
    <2>2. CASE s = code[i].slot /\ s # None /\ scache'[s] = Top.callable
      <3>1. PICK t \in Target(program[i]) : slotOf[t] = s
        BY <2>2, <1>8 DEF SlotRight
      <3>2. Top.callable.callable = t /\ t \in Callables
        BY <3>1, <1>1, <1>2, <1>7, TargetFacts DEF i
      <3> QED BY <2>2, <3>1, <3>2, <1>9
    <2> QED BY <2>1, <2>2, <1>6 DEF i
  <1>16. TableRight'
    <2> SUFFICES ASSUME NEW k \in DOMAIN fcache'
                 PROVE  fcache'[k] = [callable |-> Method(k[2], k[3], k[1]), of |-> request]
      BY <1>14 DEF TableRight
    <2>1. CASE k \in DOMAIN fcache /\ fcache'[k] = fcache[k]
      BY <2>1, <1>1 DEF TableRight
    <2>2. CASE ~Top.cached /\ k = Top.key /\ fcache'[k] = Top.callable
      <3>1. program[i].in[1] \in Classes /\ program[i].name \in Names
        BY <1>1, <1>2, SiteFacts DEF i
      <3>2. Method(k[2], k[3], k[1]) = Method(program[i].in[1], Top.this, program[i].name)
        BY <2>2, <3>1, <1>7, <1>9, KeyFacts DEF SiteKey
      <3> QED BY <2>2, <3>2, <1>7 DEF Right
    <2> QED BY <2>1, <2>2, <1>5
  <1>17. Idle'
    BY <1>8, <1>14 DEF Idle
  <1> QED BY <1>13, <1>15, <1>16, <1>17 DEF CacheInv

\* Every step, when the objects are those the caches count on.
LEMMA CacheStep ==
  ASSUME Polymorphic = FALSE, CacheInv, [Next]_vars
  PROVE  CacheInv'
  <1>1. /\ LockInv /\ TypeOK /\ Compiled /\ SlotsRight /\ TableRight /\ InlinesRight
        /\ FramesRight /\ Idle /\ program \in Programs /\ request \in Nat
        /\ stack \in Seq(Frame)
    BY DEF CacheInv, LockInv, TypeOK
  <1>2. LockInv'
    BY <1>1, LockStep
  <1>3. ASSUME stack' = <<>> PROVE InlinesRight' /\ FramesRight'
    BY <1>3 DEF InlinesRight, FramesRight
  <1>4. ASSUME UNCHANGED <<compiler, globals>> PROVE SlotsRight' /\ TableRight' /\ Idle'
    <2>1. slotOf' = slotOf /\ scache' = scache /\ fcache' = fcache /\ request' = request
      BY <1>4 DEF compiler, globals
    <2> QED BY <2>1, <1>1 DEF SlotsRight, TableRight, Idle
  <1>5. CASE \E i \in Sites :
               Unresolved(i) \/ Memoized(i) \/ MethodCache(i) \/ FunctionCache(i)
    <2>1. PICK i \in Sites :
            Unresolved(i) \/ Memoized(i) \/ MethodCache(i) \/ FunctionCache(i)
      BY <1>5
    <2>2. UNCHANGED <<stack, request, scache, fcache>> /\ i = next
      BY <2>1 DEF Unresolved, Memoized, MethodCache, FunctionCache, Generate, globals
    <2>3. request = 0 /\ stack = <<>>
      <3>1. Len(code) # Len(program)
        <4>1. code \in Seq(CodeType) /\ program \in Seq(Site)
          BY <1>1, ProgramsAssumption DEF TypeOK, CodeType
        <4> QED BY <4>1, <1>1, <2>1, <2>2 DEF Compiled, Sites
      <3> QED BY <3>1, <1>1 DEF Compiled
    <2>4. SlotsRight' /\ TableRight' /\ Idle'
      BY <2>2, <2>3, <1>1 DEF Idle, SlotsRight, TableRight
    <2> QED BY <2>2, <2>3, <2>4, <1>2, <1>3 DEF CacheInv
  <1>6. CASE StartRequest
    <2>1. /\ stack' = <<>> /\ request' = request + 1
          /\ \A s \in Slots : scache'[s] = NoFunction
          /\ DOMAIN fcache' = {}
      BY <1>6 DEF StartRequest
    <2>2. SlotsRight' /\ TableRight' /\ Idle'
      BY <2>1, <1>1 DEF SlotsRight, TableRight, Idle
    <2> QED BY <2>1, <2>2, <1>2, <1>3 DEF CacheInv
  <1>7. CASE ReturnToPHP
    <2>1. stack # <<>> /\ stack' = Pop /\ UNCHANGED <<compiler, globals>>
      BY <1>7 DEF ReturnToPHP
    <2>2. /\ Len(stack) \in Nat \ {0} /\ Len(stack') = Len(stack) - 1
          /\ \A k \in 1..(Len(stack) - 1) : stack'[k] = stack[k]
      BY <1>1, <2>1, StackPopped
    <2>3. ASSUME NEW k \in 1..Len(stack'), NEW j \in Sites, stack'[k].inline[j] # NoFunction
          PROVE  Holds(stack'[k], j, stack'[k].inline[j])
      <3>1. stack'[k] = stack[k] /\ k \in 1..Len(stack)
        BY <2>2
      <3> QED BY <3>1, <1>1, <2>3 DEF InlinesRight
    <2>4. ASSUME NEW k \in 1..Len(stack') PROVE FrameRight(stack'[k - 1], stack'[k])
      <3>1. /\ stack'[k] = stack[k] /\ k \in 1..Len(stack)
            /\ (k > 1 => stack'[k - 1] = stack[k - 1])
        BY <2>2
      <3>2. FrameRight(stack[k - 1], stack[k]) /\ (stack[k].site # None => k > 1)
        BY <3>1, <1>1 DEF FramesRight, LockInv, Linked
      <3> QED BY <3>1, <3>2 DEF FrameRight
    <2>5. UNCHANGED <<compiler, request>>
      BY <2>1 DEF globals
    <2>6. InlinesRight' /\ FramesRight'
      BY <2>3, <2>4, <2>5, StackRight
    <2> QED BY <2>1, <2>6, <1>2, <1>4 DEF CacheInv
  <1>8. CASE ReturnToSite
    BY <1>2, <1>8, ReturnRight
  <1>9. CASE Bailout
    BY <1>2, <1>3, <1>4, <1>9 DEF Bailout, CacheInv
  <1>10. CASE \E c \in Classes, n \in Names : FromPHP(c, n)
    <2>1. PICK c \in Classes, n \in Names : FromPHP(c, n)
      BY <1>10
    <2> DEFINE f == [callable |-> Table[c][n], of |-> request]
               a == Activation(f, c, None, FALSE, NoKey, FALSE)
    <2>2. stack' = Append(stack, a) /\ UNCHANGED <<compiler, globals>>
      BY <2>1 DEF FromPHP
    <2>3. a.site = None /\ a.this = c /\ \A j \in Sites : a.inline[j] = NoFunction
      BY DEF Activation
    <2>4. stack' \in Seq(Frame)
      BY <1>2, <2>2 DEF LockInv, TypeOK, Frame, Sites, compiler
    <2> HIDE DEF f, a
    <2>5. /\ Len(stack') = Len(stack) + 1 /\ Len(stack) \in Nat
          /\ stack'[Len(stack) + 1] = a
          /\ \A k \in 1..Len(stack) : stack'[k] = stack[k]
      BY <1>1, <2>2
    <2>6. ASSUME NEW k \in 1..Len(stack'), NEW j \in Sites, stack'[k].inline[j] # NoFunction
          PROVE  Holds(stack'[k], j, stack'[k].inline[j])
      <3>1. CASE k \in 1..Len(stack)
        BY <3>1, <1>1, <2>5, <2>6 DEF InlinesRight
      <3>2. CASE k = Len(stack) + 1
        BY <3>2, <2>3, <2>5, <2>6
      <3> QED BY <3>1, <3>2, <2>5
    <2>7. ASSUME NEW k \in 1..Len(stack') PROVE FrameRight(stack'[k - 1], stack'[k])
      <3>1. CASE k \in 1..Len(stack)
        <4>1. stack'[k] = stack[k] /\ (k > 1 => stack'[k - 1] = stack[k - 1])
          BY <3>1, <2>5
        <4>2. FrameRight(stack[k - 1], stack[k]) /\ (stack[k].site # None => k > 1)
          BY <3>1, <1>1 DEF FramesRight, LockInv, Linked
        <4> QED BY <4>1, <4>2 DEF FrameRight
      <3>2. CASE k = Len(stack) + 1
        BY <3>2, <2>1, <2>3, <2>5 DEF FrameRight
      <3> QED BY <3>1, <3>2, <2>5
    <2>8. UNCHANGED <<compiler, request>>
      BY <2>2 DEF globals
    <2>9. InlinesRight' /\ FramesRight'
      BY <2>6, <2>7, <2>8, StackRight
    <2> QED BY <2>2, <2>9, <1>2, <1>4 DEF CacheInv
  <1>11. ASSUME NEW i \in Sites, NEW c \in Classes \cup {NoClass},
                CallInline(i, c) \/ CallSlot(i, c) \/ CallTable(i, c) \/ TooDeep(i, c)
         PROVE  CacheInv'
    <2>1. CASE TooDeep(i, c)
      BY <2>1, <1>2, <1>3, <1>4 DEF TooDeep, CacheInv
    <2>2. CASE CallInline(i, c)
      <3> DEFINE j == code[i].inline
                 f == Top.inline[j]
                 counted == program[i].on # "function"
      <3>1. /\ MayCall(i, c) /\ f # NoFunction /\ j \in Sites /\ j # None
            /\ Enter(i, c, f, f, counted, NoKey, TRUE)
        BY <1>1, <2>2, CallFacts DEF Cached
      <3>2. /\ i \in Sites /\ Len(stack) \in Nat \ {0} /\ InlineRight(i, j)
        BY <1>1, <3>1, MayCallFacts
      <3> HIDE DEF j
      <3>3. Holds(Top, j, f)
        <4>1. Len(stack) \in 1..Len(stack) /\ Top = stack[Len(stack)]
          BY <3>2 DEF Top
        <4> QED BY <1>1, <3>1, <4>1 DEF InlinesRight
      <3>4. f = Right(i, c)
        <4>1. CASE Target(program[i]) = {}
          <5>1. j = i /\ Top.holds[i] \in Classes /\ f = Right(i, Top.holds[i])
            BY <3>2, <3>3, <4>1 DEF InlineRight, Holds
          <5>2. Top.holds[i] \in {NoClass, c}
            BY <1>11, <3>1, <4>1, Counting
          <5> QED BY <5>1, <5>2, ClassesAssumption
        <4>2. CASE Target(program[i]) # {}
          <5>1. f.callable \in Target(program[i]) /\ f.of = request
            BY <3>2, <3>3, <4>2 DEF InlineRight, Holds
          <5>2. Right(i, c).callable = f.callable /\ Right(i, c).of = request
            BY <3>1, <5>1, Counting DEF Right
          <5>3. f \in Pointer /\ Right(i, c) \in Pointer
            BY <1>1, <2>2, <3>1, CallFacts, Counting DEF j
          <5> QED BY <5>1, <5>2, <5>3 DEF Pointer
        <4> QED BY <4>1, <4>2
      <3>5. counted \in BOOLEAN /\ NoKey \in Keys /\ TRUE \in BOOLEAN
        BY DEF Keys
      <3> HIDE DEF f, counted
      <3> QED BY <1>2, <3>1, <3>4, <3>5, EnterRight
    <2>3. CASE CallSlot(i, c)
      <3> DEFINE p == scache[code[i].slot]
                 f == IF code[i].inline = None THEN Asked(i, c) ELSE p
      <3>1. /\ MayCall(i, c) /\ code[i].slot # None /\ p # NoFunction /\ p \in Pointer
            /\ Enter(i, c, p, f, TRUE, NoKey, TRUE)
        BY <1>1, <2>3, CallFacts DEF CallSlot, InSlot
      <3>2. code[i].slot \in Slots /\ SlotRight(i)
        BY <1>1, <3>1, MayCallFacts DEF CodeType
      <3>3. /\ p.of = request /\ p.callable \in Callables
            /\ slotOf[p.callable] = code[i].slot
        BY <1>1, <3>1, <3>2 DEF SlotsRight
      <3>4. PICK t \in Target(program[i]) : slotOf[t] = code[i].slot
        BY <3>1, <3>2 DEF SlotRight
      <3>5. p.callable = t
        BY <1>1, <3>1, <3>3, <3>4, TargetFacts DEF Compiled, SlotsTaken
      <3>6. /\ Right(i, c).callable = t /\ Right(i, c).of = request
            /\ Right(i, c) \in Pointer /\ Asked(i, c) = Right(i, c)
        BY <3>1, <3>4, Counting DEF Right
      <3>7. p = Right(i, c)
        BY <3>1, <3>3, <3>5, <3>6 DEF Pointer
      <3>8. f = Right(i, c)
        BY <3>6, <3>7
      <3>9. NoKey \in Keys /\ TRUE \in BOOLEAN
        BY DEF Keys
      <3> HIDE DEF p, f
      <3> QED BY <1>2, <3>1, <3>7, <3>8, <3>9, EnterRight
    <2>4. CASE CallTable(i, c)
      <3> DEFINE k == SiteKey(i, c)
      <3>1. /\ MayCall(i, c) /\ k \in Keys
            /\ \/ k \in DOMAIN fcache /\ Enter(i, c, NoFunction, fcache[k], TRUE, k, TRUE)
               \/ Enter(i, c, NoFunction, Asked(i, c), TRUE, k, FALSE)
        BY <1>1, <2>4, CallFacts
      <3>2. Asked(i, c) = Right(i, c) /\ c \in Receiver
        BY <1>1, <3>1, Counting, MayCallFacts
      <3>3. k \in DOMAIN fcache => fcache[k] = Right(i, c)
        <4>1. program[i].in[1] \in Classes /\ program[i].name \in Names
          BY <1>1, SiteFacts
        <4>2. Method(k[2], k[3], k[1]) = Method(program[i].in[1], c, program[i].name)
          BY <3>2, <4>1, KeyFacts DEF SiteKey
        <4> QED BY <1>1, <4>2 DEF TableRight, Right
      <3>4. NoFunction \in {NoFunction, Right(i, c)} /\ TRUE \in BOOLEAN /\ FALSE \in BOOLEAN
        OBVIOUS
      <3>5. CASE k \in DOMAIN fcache /\ Enter(i, c, NoFunction, fcache[k], TRUE, k, TRUE)
        BY <1>2, <3>1, <3>3, <3>4, <3>5, EnterRight
      <3>6. CASE Enter(i, c, NoFunction, Asked(i, c), TRUE, k, FALSE)
        BY <1>2, <3>1, <3>2, <3>4, <3>6, EnterRight
      <3> QED BY <3>1, <3>5, <3>6
    <2> QED BY <1>11, <2>1, <2>2, <2>3, <2>4
  <1>12. CASE UNCHANGED vars
    <2>1. UNCHANGED <<compiler, globals, stack>>
      BY <1>12 DEF vars, compiler, globals
    <2>2. stack' = stack /\ UNCHANGED <<compiler, request>>
      BY <2>1 DEF globals
    <2>3. \A k \in 1..Len(stack') : \A j \in Sites :
            stack'[k].inline[j] # NoFunction =>
              Holds(stack'[k], j, stack'[k].inline[j])
      BY <2>2, <1>1 DEF InlinesRight
    <2>4. \A k \in 1..Len(stack') : FrameRight(stack'[k - 1], stack'[k])
      BY <2>2, <1>1 DEF FramesRight
    <2>5. InlinesRight' /\ FramesRight'
      BY <2>2, <2>3, <2>4, StackRight
    <2> QED BY <2>1, <2>5, <1>2, <1>4 DEF CacheInv
  <1> QED BY <1>5, <1>6, <1>7, <1>8, <1>9, <1>10, <1>11, <1>12 DEF Next

LEMMA CacheInitially == Init => CacheInv
  <1> SUFFICES ASSUME Init PROVE CacheInv
    OBVIOUS
  <1>1. /\ stack = <<>> /\ DOMAIN fcache = {}
        /\ \A s \in Slots : scache[s] = NoFunction
    BY DEF Init
  <1>2. LockInv
    BY LockInitially
  <1> QED BY <1>1, <1>2 DEF CacheInv, SlotsRight, TableRight, InlinesRight, FramesRight, Idle

\* When a site meets the objects its caches count on, what it runs is what PHP
\* would find for it, for every hierarchy of classes, program, depth of calls,
\* limit of slots and sequence of requests.
THEOREM RightFunctionCalled ==
  ASSUME Polymorphic = FALSE
  PROVE  Spec => []RightFunction
  <1>1. Init => CacheInv
    BY CacheInitially
  <1>2. CacheInv /\ [Next]_vars => CacheInv'
    BY CacheStep
  <1>3. CacheInv => RightFunction
    BY DEF CacheInv, FramesRight, FrameRight, RightFunction, Right
  <1> QED BY <1>1, <1>2, <1>3, PTL DEF Spec

-----------------------------------------------------------------------------
(* The code without caches.                                                *)

\* One more call.
LEMMA ShownPushed ==
  ASSUME stack \in Seq(Frame), stack' \in Seq(Frame), Len(stack') = Len(stack) + 1,
         \A k \in 1..Len(stack) : stack'[k].callable = stack[k].callable
                                  /\ stack'[k].this = stack[k].this
  PROVE  LET a == stack'[Len(stack) + 1]
         IN  Shown' = Append(Shown, [runs |-> a.callable, this |-> a.this])
  <1> DEFINE x == [runs |-> stack'[Len(stack) + 1].callable,
                   this |-> stack'[Len(stack) + 1].this]
             T == {[runs |-> stack[k].callable, this |-> stack[k].this] :
                      k \in 1..Len(stack)} \cup {x}
  <1>1. Shown \in Seq(T) /\ Len(Shown) = Len(stack) /\ Len(stack) \in Nat /\ x \in T
    <2>1. /\ Len(stack) \in Nat /\ x \in T
          /\ \A k \in 1..Len(stack) : [runs |-> stack[k].callable, this |-> stack[k].this] \in T
      OBVIOUS
    <2> HIDE DEF T, x
    <2> QED BY <2>1 DEF Shown
  <1>2. \A k \in 1..Len(stack) :
          Shown[k] = [runs |-> stack[k].callable, this |-> stack[k].this]
    BY DEF Shown
  <1>3. Shown' = [k \in 1..(Len(stack) + 1) |->
                    [runs |-> stack'[k].callable, this |-> stack'[k].this]]
    BY DEF Shown
  <1> HIDE DEF T
  <1>4. /\ Append(Shown, x) \in Seq(T) /\ Len(Append(Shown, x)) = Len(stack) + 1
        /\ Append(Shown, x)[Len(stack) + 1] = x
        /\ \A k \in 1..Len(stack) : Append(Shown, x)[k] = Shown[k]
    BY <1>1
  <1>5. Append(Shown, x) = [k \in 1..(Len(stack) + 1) |-> Append(Shown, x)[k]]
    BY <1>4
  <1>6. \A k \in 1..(Len(stack) + 1) :
          Append(Shown, x)[k] = [runs |-> stack'[k].callable, this |-> stack'[k].this]
    BY <1>1, <1>2, <1>4
  <1> QED BY <1>3, <1>5, <1>6

\* One call less.
LEMMA ShownPopped ==
  ASSUME stack \in Seq(Frame), stack # <<>>, stack' \in Seq(Frame),
         Len(stack') = Len(stack) - 1,
         \A k \in 1..(Len(stack) - 1) : stack'[k].callable = stack[k].callable
                                        /\ stack'[k].this = stack[k].this
  PROVE  Shown # <<>> /\ Shown' = SubSeq(Shown, 1, Len(Shown) - 1)
  <1> DEFINE T == {[runs |-> stack[k].callable, this |-> stack[k].this] :
                      k \in 1..Len(stack)}
             m == Len(stack) - 1
             s == SubSeq(Shown, 1, m)
  <1>1. Shown \in Seq(T) /\ Len(Shown) = Len(stack) /\ Len(stack) \in Nat \ {0} /\ m \in Nat
    <2>1. /\ Len(stack) \in Nat \ {0} /\ m \in Nat
          /\ \A k \in 1..Len(stack) : [runs |-> stack[k].callable, this |-> stack[k].this] \in T
      BY EmptySeq
    <2> HIDE DEF T, m
    <2> QED BY <2>1 DEF Shown
  <1>2. \A k \in 1..m : Shown[k] = [runs |-> stack[k].callable, this |-> stack[k].this]
    BY DEF Shown
  <1>3. Shown' = [k \in 1..m |-> [runs |-> stack'[k].callable, this |-> stack'[k].this]]
    BY DEF Shown
  <1>4. Shown # <<>>
    BY <1>1
  <1> HIDE DEF T
  <1>5. s \in Seq(T) /\ Len(s) = m /\ \A k \in 1..m : s[k] = Shown[k]
    BY <1>1, <1>4, Popped
  <1> HIDE DEF m, s
  <1>6. s = [k \in 1..m |-> s[k]]
    BY <1>5
  <1>7. \A k \in 1..m : s[k] = [runs |-> stack'[k].callable, this |-> stack'[k].this]
    BY <1>1, <1>2, <1>5 DEF m
  <1>8. Shown' = s
    BY <1>3, <1>6, <1>7
  <1> QED BY <1>1, <1>4, <1>8 DEF m, s

\* Every step is a step of the code without caches, or none.
LEMMA DirectStep ==
  ASSUME Polymorphic = FALSE, CacheInv, [Next]_vars
  PROVE  [Direct!DirectNext]_(Direct!direct)
  <1>1. TypeOK /\ Compiled /\ LockInv /\ stack \in Seq(Frame) /\ Len(stack) \in Nat
    BY DEF CacheInv, LockInv, TypeOK
  <1>2. CacheInv' /\ stack' \in Seq(Frame)
    <2>1. CacheInv'
      BY CacheStep
    <2>2. stack' \in Seq(Frame')
      BY <2>1 DEF CacheInv, LockInv, TypeOK
    <2>3. program' = program
      BY ZenonT(60) DEF Next, Unresolved, Memoized, MethodCache, FunctionCache, Generate,
         StartRequest, ReturnToPHP, ReturnToSite, Bailout, FromPHP, CallInline, CallSlot, CallTable, Enter,
         TooDeep, compiler, vars
    <2>4. Frame' = Frame
      BY <2>3 DEF Frame, Sites
    <2> QED BY <2>1, <2>2, <2>4
  <1>3. ASSUME UNCHANGED <<program, request, stack>> PROVE UNCHANGED Direct!direct
    BY <1>3 DEF Direct!direct, Shown
  <1>4. stack # <<>> =>
          /\ Shown # <<>> /\ Len(stack) \in 1..Len(stack)
          /\ Direct!Running = [runs |-> Top.callable, this |-> Top.this]
    <2>1. stack # <<>> => Len(stack) \in 1..Len(stack)
      BY <1>1, EmptySeq
    <2>2. Len(Shown) = Len(stack)
      BY <1>1 DEF Shown
    <2> QED BY <2>1, <2>2 DEF Shown, Direct!Running, Top
  <1>5. stack = <<>> => Shown = <<>>
    BY DEF Shown
  <1>6. stack' = <<>> => Shown' = <<>>
    BY DEF Shown
  <1>7. CASE \E i \in Sites :
               Unresolved(i) \/ Memoized(i) \/ MethodCache(i) \/ FunctionCache(i)
    <2>1. UNCHANGED <<program, request, stack>>
      BY <1>7 DEF Unresolved, Memoized, MethodCache, FunctionCache, Generate, globals
    <2> QED BY <1>3, <2>1
  <1>8. CASE StartRequest
    <2>1. stack = <<>> /\ stack' = <<>> /\ request' = request + 1 /\ program' = program
      BY <1>8 DEF StartRequest, compiler
    <2>2. Direct!Begin
      BY <1>5, <1>6, <2>1 DEF Direct!Begin
    <2> QED BY <2>2 DEF Direct!DirectNext
  <1>9. CASE Bailout \/ (stack # <<>> /\ \E i, c : TooDeep(i, c))
    <2>1. stack # <<>> /\ stack' = <<>> /\ UNCHANGED <<program, request>>
      BY <1>9 DEF Bailout, TooDeep, compiler, globals
    <2>2. Direct!Abandon
      BY <1>4, <1>6, <2>1 DEF Direct!Abandon
    <2> QED BY <2>2 DEF Direct!DirectNext
  <1>10. CASE ReturnToPHP \/ ReturnToSite
    <2>1. stack # <<>> /\ UNCHANGED <<program, request>>
      BY <1>10 DEF ReturnToPHP, ReturnToSite, compiler, globals
    <2>2. /\ Len(stack') = Len(stack) - 1
          /\ \A k \in 1..(Len(stack) - 1) : stack'[k].callable = stack[k].callable
                                            /\ stack'[k].this = stack[k].this
      <3>1. CASE ReturnToPHP
        BY <3>1, <1>1, <2>1, StackPopped DEF ReturnToPHP
      <3>2. CASE ReturnToSite
        <4>1. /\ Len(stack') = Len(stack) - 1 /\ Len(stack) > 1
              /\ \A k \in 1..(Len(stack) - 2) : stack'[k] = stack[k]
              /\ stack'[Len(stack) - 1].callable = stack[Len(stack) - 1].callable
              /\ stack'[Len(stack) - 1].this = stack[Len(stack) - 1].this
          BY <3>2, <1>1, Returned
        <4>2. \A k \in 1..(Len(stack) - 1) : k \in 1..(Len(stack) - 2) \/ k = Len(stack) - 1
          BY <1>1
        <4> QED BY <4>1, <4>2
      <3> QED BY <1>10, <3>1, <3>2
    <2>3. Shown # <<>> /\ Shown' = SubSeq(Shown, 1, Len(Shown) - 1)
      BY <1>1, <1>2, <2>1, <2>2, ShownPopped
    <2>4. Direct!Return
      BY <2>1, <2>3 DEF Direct!Return
    <2> QED BY <2>4 DEF Direct!DirectNext
  <1>11. ASSUME NEW c \in Classes, NEW n \in Names, FromPHP(c, n)
         PROVE  Direct!DirectNext
    <2> DEFINE f == [callable |-> Table[c][n], of |-> request]
               a == Activation(f, c, None, FALSE, NoKey, FALSE)
    <2>1. /\ request > 0 /\ UNCHANGED <<program, request>> /\ stack' = Append(stack, a)
          /\ stack # <<>> => Top.callable.callable[1] \notin Extension
          /\ Has(c, n) /\ Table[c][n] \notin Private /\ Table[c][n][1] \in Extension
      BY <1>11 DEF FromPHP, compiler, globals
    <2>2. a.callable = f /\ a.this = c
      BY DEF Activation
    <2> HIDE DEF a
    <2>3. /\ Len(stack') = Len(stack) + 1 /\ stack'[Len(stack) + 1] = a
          /\ \A k \in 1..Len(stack) : stack'[k] = stack[k]
      BY <1>1, <2>1
    <2>4. Shown' = Append(Shown, [runs |-> f, this |-> c])
      BY <1>1, <1>2, <2>2, <2>3, ShownPushed
    <2>5. Direct!Runs(Table[c][n], c)
      BY <2>4 DEF Direct!Runs
    <2>6. Shown # <<>> => Direct!Running.runs.callable[1] \notin Extension
      BY <1>4, <1>5, <2>1
    <2>7. Direct!FromOutside(c, n)
      BY <2>1, <2>5, <2>6 DEF Direct!FromOutside, Direct!Has, Has
    <2>8. c \in Direct!Classes /\ n \in DOMAIN Table[c]
      BY <2>1 DEF Direct!Classes, Classes, Has
    <2> QED BY <2>7, <2>8 DEF Direct!DirectNext
  <1>12. ASSUME NEW i \in Sites, NEW c \in Receiver,
                CallInline(i, c) \/ CallSlot(i, c) \/ CallTable(i, c)
         PROVE  Direct!DirectNext
    <2>1. /\ MayCall(i, c)
          /\ \E p \in Pointer \cup {NoFunction}, f \in Pointer, counted \in BOOLEAN,
                key \in Keys, cached \in BOOLEAN : Enter(i, c, p, f, counted, key, cached)
      <3>1. NoKey \in Keys /\ NoFunction \in Pointer \cup {NoFunction}
        BY DEF Keys
      <3>2. CASE CallInline(i, c)
        BY <1>1, <3>1, <3>2, CallFacts
      <3>3. CASE CallSlot(i, c)
        BY <1>1, <3>1, <3>3, CallFacts
      <3>4. CASE CallTable(i, c)
        BY <1>1, <3>1, <3>4, CallFacts
      <3> QED BY <1>12, <3>2, <3>3, <3>4
    <2>2. PICK p \in Pointer \cup {NoFunction}, f \in Pointer, counted \in BOOLEAN,
               key \in Keys, cached \in BOOLEAN : Enter(i, c, p, f, counted, key, cached)
      BY <2>1
    <2> DEFINE a == Activation(f, c, i, counted, key, cached)
    <2>3. Pushes(i, c, p, a)
      BY <1>1, <2>1, <2>2, Entered
    <2>4. a.callable = f /\ a.this = c /\ a.site = i /\ i # None
      BY DEF Activation, Sites, None
    <2> HIDE DEF a
    <2>5. stack # <<>> /\ Top.callable.callable = program[i].in
          /\ c \in Receivers(program[i], Top.this)
          /\ Found(program[i].in[1], c, program[i].name)
      BY <2>1 DEF MayCall
    <2>6. /\ Len(stack') = Len(stack) + 1 /\ stack'[Len(stack) + 1] = a
          /\ \A k \in 1..Len(stack) : stack'[k].callable = stack[k].callable
                                      /\ stack'[k].this = stack[k].this
      <3>1. \A k \in 1..Len(stack) : k \in 1..(Len(stack) - 1) \/ k = Len(stack)
        BY <1>1
      <3> QED BY <2>3, <3>1 DEF Pushes, Top
    <2>7. UNCHANGED <<program, request>>
      BY <2>3 DEF Pushes, compiler, globals
    <2>8. f = [callable |-> Method(program[i].in[1], c, program[i].name), of |-> request]
      <3>1. RightFunction'
        BY <1>2 DEF CacheInv, FramesRight, FrameRight, RightFunction, Right
      <3>2. Len(stack) + 1 \in 1..Len(stack')
        BY <1>1, <2>6
      <3> QED BY <3>1, <3>2, <2>4, <2>6, <2>7 DEF RightFunction
    <2>9. Shown' = Append(Shown, [runs |-> f, this |-> c])
      BY <1>1, <1>2, <2>4, <2>6, ShownPushed
    <2>10. Direct!Runs(Method(program[i].in[1], c, program[i].name), c)
      BY <2>8, <2>9 DEF Direct!Runs
    <2>11. Direct!FromSite(program[i], c)
      <3>1. Direct!Running.runs = Top.callable /\ Direct!Running.this = Top.this /\ Shown # <<>>
        BY <1>4, <2>5
      <3>2. c \in Direct!Receivers(program[i], Direct!Running.this)
        BY <2>5, <3>1 DEF Direct!Receivers, Receivers, Direct!Classes, Classes
      <3>3. Direct!Found(program[i].in[1], c, program[i].name)
        BY <2>5 DEF Direct!Found, Found, Direct!Method, Method, Direct!Has, Has
      <3>4. Direct!Method(program[i].in[1], c, program[i].name)
              = Method(program[i].in[1], c, program[i].name)
        BY DEF Direct!Method, Method
      <3> QED BY <2>5, <2>7, <2>10, <3>1, <3>2, <3>3, <3>4 DEF Direct!FromSite
    <2>12. i \in 1..Len(program) /\ c \in Direct!Classes \cup {NoClass}
      BY DEF Sites, Receiver, Direct!Classes, Classes
    <2> QED BY <2>11, <2>12 DEF Direct!DirectNext
  <1>13. ASSUME NEW i \in Sites, NEW c \in Receiver, TooDeep(i, c) PROVE stack # <<>>
    BY <1>13 DEF TooDeep, MayCall
  <1>14. CASE UNCHANGED vars
    BY <1>3, <1>14 DEF vars
  <1> QED BY <1>7, <1>8, <1>9, <1>10, <1>11, <1>12, <1>13, <1>14 DEF Next, Receiver

\* The refinement: with the objects the caches count on, the compiled code is
\* the code that has no caches and asks PHP for every call.
THEOREM CallsImplementDirectCalls ==
  ASSUME Polymorphic = FALSE
  PROVE  Spec => ImplementsDirectCalls
  <1>1. Init => CacheInv
    BY CacheInitially
  <1>2. CacheInv /\ [Next]_vars => CacheInv'
    BY CacheStep
  <1>3. Init => Direct!DirectInit
    BY DEF Init, Direct!DirectInit, Shown
  <1>4. CacheInv /\ [Next]_vars => [Direct!DirectNext]_(Direct!direct)
    BY DirectStep
  <1> QED BY <1>1, <1>2, <1>3, <1>4, PTL DEF Spec, ImplementsDirectCalls, Direct!DirectSpec

=============================================================================
