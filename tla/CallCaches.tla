----------------------------- MODULE CallCaches -----------------------------
(***************************************************************************)
(* What a call in the compiled code reaches.  The compiler gives each call *)
(* site the address of an inline cache, a local of the C function or NULL, *)
(* and the number of a slot of the globals, or 0 (Library/Cache).  At run  *)
(* time zephir_call_user_function looks into the inline cache, the slot    *)
(* and the table fcache, and asks PHP otherwise; what PHP finds is stored  *)
(* when the call returns, after the calls made in between (kernels/        *)
(* ZendEngine3/fcall.c).                                                   *)
(*                                                                         *)
(* A callable is a method <<class, name>> or a function <<NoClass, name>>. *)
(* A call that fails changes nothing here and is left out, and so are      *)
(* static calls, protected methods and __call.                             *)
(***************************************************************************)
EXTENDS PHPClasses, Naturals, Sequences, FiniteSets

CONSTANTS
  Extension,      \* the classes the compiler compiles; PHP code has others
  Defined,        \* the methods
  Final,          \* those of them that are final, or are of a final class
  Programs,       \* the programs to compile, each the sequence of its sites
  NoFunction,     \* a null zephir_fcall_cache_entry
  MaxSlots,       \* MAX_SLOTS_NUMBER and ZEPHIR_MAX_CACHE_SLOTS
  MaxDepth,       \* the recursion limit
  MaxFrames,      \* bound: the activations on the C stack
  MaxLock,        \* bound: what fatal errors may leave in recursive_lock
  MaxRequests,    \* bound: the requests
  Polymorphic     \* TRUE: a site may meet objects of several classes

Callables == Defined \cup ({NoClass} \X Functions)
Names == {m[2] : m \in Callables}

\* A call site: the method it is in, the name it calls, the kind of variable it
\* calls it on and the class the compiler knows of it, and whether it is inside
\* a cycle whose innermost block leaves the variable alone.
Kinds == {"this", "typed", "new", "untyped", "function"}
Site == [in : Defined, name : Names, on : Kinds, class : Classes \cup {NoClass},
         cycle : BOOLEAN, fixed : BOOLEAN]

ASSUME ClassesAssumption ==
  /\ NoClass \notin Classes /\ Extension \subseteq Classes
  /\ Ancestors \in [Classes -> SUBSET Classes]
  /\ \A c \in Classes : c \in Ancestors[c] /\ Table[c] \in [DOMAIN Table[c] -> Defined]
ASSUME MethodsAssumption ==
  /\ Defined \subseteq Classes \X Names
  /\ Private \subseteq Defined /\ Final \subseteq Defined
ASSUME ProgramsAssumption ==
  /\ Programs \subseteq Seq(Site)
  /\ \A p \in Programs : \A i \in 1..Len(p) :
       /\ p[i].in[1] \in Extension
       /\ p[i].on \in {"this", "typed", "new"} => p[i].class \in Classes
       /\ p[i].on = "this" => p[i].class = p[i].in[1]
       /\ p[i].on = "function" => p[i].name \in Functions
ASSUME BoundsAssumption ==
  /\ MaxSlots \in Nat \ {0} /\ MaxDepth \in Nat /\ MaxFrames \in Nat /\ MaxLock \in Nat
  /\ MaxRequests \in Nat /\ Polymorphic \in BOOLEAN

VARIABLES
  program,        \* the sites of the extension
  next,           \* the site the compiler has come to
  nextSlot,       \* SlotsCache::$slot
  slotOf,         \* the slot SlotsCache remembers for a callable, or 0
  memo,           \* the caches of each method, the sites that declared them
  code,           \* the arguments each site was given
  request,        \* the number of the request, 0 while compiling
  scache,         \* the slots of the globals
  fcache,         \* the table of the globals
  lock,           \* recursive_lock
  bailed,         \* the script of this request has exited or died
  stack           \* the activations of methods and functions

vars == <<program, next, nextSlot, slotOf, memo, code, request, scache, fcache,
          lock, bailed, stack>>
compiler == <<program, next, nextSlot, slotOf, memo, code>>
globals == <<request, scache, fcache>>

Slots == 0..(MaxSlots - 1)
Sites == 1..Len(program)
None == 0         \* no inline cache, or no slot

\* A function PHP has compiled for one request.
Pointer == [callable : Callables, of : Nat]
NoKey == <<>>

-----------------------------------------------------------------------------
(* The keys of the table of the globals.                                   *)

\* zephir_make_fcall_info_key: the scope counts if it is related to the class.
Key(scope, c, n) ==
  <<n, IF c = NoClass \/ scope \in Ancestors[c] \/ c \in Ancestors[scope]
       THEN scope ELSE NoClass, c>>

-----------------------------------------------------------------------------
(* The compiler.                                                           *)

\* The method, or function, the compiler takes a site for, in a set.
Target(s) ==
  IF s.on = "function" THEN {<<NoClass, s.name>>}
  ELSE IF s.on # "untyped" /\ s.class \in Extension /\ Has(s.class, s.name)
  THEN {Table[s.class][s.name]} ELSE {}

\* The call gatherer: the calls in the method of i it takes for calls of t.
Calls(i, t) ==
  Cardinality({j \in Sites :
    /\ program[j].in = program[i].in /\ program[j].name = t[2]
    /\ IF t[1] = NoClass THEN program[j].on = "function"
       ELSE program[j].on = "this" /\ program[i].in[1] = t[1]})

\* Mutant of NewSlot: the limit is one slot late.
NewSlotLate(t) ==
  IF slotOf[t] # None THEN slotOf[t]
  ELSE IF nextSlot <= MaxSlots THEN nextSlot ELSE None

\* SlotsCache::getMethodSlot and getFunctionSlot.
NewSlot(t) ==
  IF slotOf[t] # None THEN slotOf[t]
  ELSE IF nextSlot < MaxSlots THEN nextSlot ELSE None

\* Mutant of GetSlot: the counter stays.
GetSlotAgain(t) ==
  /\ slotOf' = [slotOf EXCEPT ![t] = NewSlot(t)] /\ UNCHANGED nextSlot

GetSlot(t) ==
  /\ slotOf' = [slotOf EXCEPT ![t] = NewSlot(t)]
  /\ nextSlot' = IF slotOf[t] = None THEN nextSlot + 1 ELSE nextSlot

Generate(i, inline, slot) ==
  /\ code' = Append(code, [inline |-> inline, slot |-> slot])
  /\ next' = next + 1
  /\ UNCHANGED <<program, globals, lock, bailed, stack>>

\* The method a site calls is not known: its own cache in a cycle, or none.
Unresolved(i) ==
  /\ i = next /\ i \in Sites /\ Target(program[i]) = {}
  /\ Generate(i, IF program[i].cycle /\ program[i].fixed THEN i ELSE None, None)
  /\ UNCHANGED <<nextSlot, slotOf, memo>>

\* The method has a cache for the callable: the slot is one that exists.
Memoized(i) ==
  /\ i = next /\ i \in Sites
  /\ \E t \in Target(program[i]) :
       /\ <<program[i].in, t>> \in DOMAIN memo
       /\ Generate(i, memo[<<program[i].in, t>>], slotOf[t])
  /\ UNCHANGED <<nextSlot, slotOf, memo>>

\* Methods that have a slot: those no object can override, the one being
\* compiled, and those of an object created here.
StaticCacheable(s, t) == t = s.in \/ t \in Final \cup Private \/ s.on = "new"

Inline(i, t) == IF program[i].cycle \/ Calls(i, t) > 1 THEN i ELSE None

MethodCache(i) ==
  /\ i = next /\ i \in Sites
  /\ \E t \in Target(program[i]) :
       /\ t \in Defined /\ <<program[i].in, t>> \notin DOMAIN memo
       /\ memo' = [k \in DOMAIN memo \cup {<<program[i].in, t>>} |->
                     IF k \in DOMAIN memo THEN memo[k] ELSE Inline(i, t)]
       /\ IF StaticCacheable(program[i], t)
          THEN GetSlot(t) /\ Generate(i, Inline(i, t), NewSlot(t))
          ELSE UNCHANGED <<nextSlot, slotOf>> /\ Generate(i, Inline(i, t), None)

\* A function called once outside cycles has no cache in the method.
FunctionCache(i) ==
  /\ i = next /\ i \in Sites
  /\ \E t \in Target(program[i]) :
       /\ t \notin Defined /\ <<program[i].in, t>> \notin DOMAIN memo
       /\ memo' = IF Inline(i, t) = None THEN memo
                  ELSE [k \in DOMAIN memo \cup {<<program[i].in, t>>} |->
                          IF k \in DOMAIN memo THEN memo[k] ELSE Inline(i, t)]
       /\ GetSlot(t) /\ Generate(i, Inline(i, t), NewSlot(t))

-----------------------------------------------------------------------------
(* The kernel.                                                             *)

Top == stack[Len(stack)]
Pop == SubSeq(stack, 1, Len(stack) - 1)

\* An activation: what runs, the class of its object, its inline caches, the
\* objects its variables hold, and the call of the kernel that began it: the
\* site (none when PHP code called), the key made and whether it was found.
Frame == [callable : Pointer, this : Classes \cup {NoClass},
          inline : [Sites -> Pointer \cup {NoFunction}],
          holds : [Sites -> Classes \cup {NoClass}],
          site : {None} \cup Sites, counted : BOOLEAN,
          key : {NoKey} \cup (Names \X (Classes \cup {NoClass}) \X (Classes \cup {NoClass})),
          cached : BOOLEAN]

Activation(f, c, i, counted, key, cached) ==
  [callable |-> f, this |-> c, inline |-> [s \in Sites |-> NoFunction],
   holds |-> [s \in Sites |-> NoClass],
   site |-> i, counted |-> counted, key |-> key, cached |-> cached]

\* Mutants of StartRequest: without the memset, the lock, and the table.
StartRequestCached ==
  /\ next > Len(program) /\ stack = <<>> /\ request < MaxRequests
  /\ request' = request + 1 /\ lock' = 0 /\ bailed' = FALSE
  /\ fcache' = [k \in {} |-> NoFunction]
  /\ UNCHANGED <<compiler, stack, scache>>
StartRequestLocked ==
  /\ next > Len(program) /\ stack = <<>> /\ request < MaxRequests
  /\ request' = request + 1 /\ bailed' = FALSE
  /\ scache' = [s \in Slots |-> NoFunction]
  /\ fcache' = [k \in {} |-> NoFunction]
  /\ UNCHANGED <<compiler, stack, lock>>

StartRequestTable ==
  /\ next > Len(program) /\ stack = <<>> /\ request < MaxRequests
  /\ request' = request + 1 /\ lock' = 0 /\ bailed' = FALSE
  /\ scache' = [s \in Slots |-> NoFunction]
  /\ UNCHANGED <<compiler, stack, fcache>>

\* PHP_RINIT_FUNCTION.
StartRequest ==
  /\ next > Len(program) /\ stack = <<>> /\ request < MaxRequests
  /\ request' = request + 1 /\ lock' = 0 /\ bailed' = FALSE
  /\ scache' = [s \in Slots |-> NoFunction]
  /\ fcache' = [k \in {} |-> NoFunction]
  /\ UNCHANGED <<compiler, stack>>

\* PHP code calls a method of the extension on an object: the script, a
\* function, a method of a class of its own, or a shutdown function.
FromPHP(c, n) ==
  /\ request > 0 /\ Len(stack) < MaxFrames
  /\ stack # <<>> => Top.callable.callable[1] \notin Extension
  /\ Has(c, n) /\ Table[c][n] \notin Private /\ Table[c][n][1] \in Extension
  /\ stack' = Append(stack, Activation([callable |-> Table[c][n], of |-> request],
                                       c, None, FALSE, NoKey, FALSE))
  /\ UNCHANGED <<compiler, globals, lock, bailed>>

\* What the caches count on: an object has not overridden the method the
\* compiler resolved, and a cycle finds the object it found before.
Monomorphic(i, c) ==
  /\ \A t \in Target(program[i]) : Method(program[i].in[1], c, program[i].name) = t
  /\ Target(program[i]) = {} => Top.holds[i] \in {NoClass, c}

MayCall(i, c) ==
  /\ stack # <<>> /\ i \in Sites
  /\ Top.callable.callable = program[i].in
  /\ c \in Receivers(program[i], Top.this) /\ Found(program[i].in[1], c, program[i].name)
  /\ Polymorphic \/ Monomorphic(i, c)

Asked(i, c) ==
  [callable |-> Method(program[i].in[1], c, program[i].name), of |-> request]
SiteKey(i, c) == Key(program[i].in[1], c, program[i].name)
Cached(i) == code[i].inline # None /\ Top.inline[code[i].inline] # NoFunction
InSlot(i) == code[i].slot # None /\ scache[code[i].slot] # NoFunction

\* The stack of the calling method, its inline cache set to p if it has one.
Remembering(i, c, p) ==
  [stack EXCEPT ![Len(stack)] =
     [Top EXCEPT !.holds = [s \in Sites |-> IF s = i THEN c ELSE Top.holds[s]],
                 !.inline = [s \in Sites |->
                               IF s = code[i].inline THEN p ELSE Top.inline[s]]]]

Enter(i, c, p, f, counted, key, cached) ==
  /\ Len(stack) < MaxFrames
  /\ stack' = Append(Remembering(i, c, p), Activation(f, c, i, counted, key, cached))
  /\ UNCHANGED <<compiler, globals, bailed>>

\* The inline cache is set: zephir_call_func_aparams_fast calls a function, and
\* does not count.
CallInline(i, c) ==
  /\ MayCall(i, c) /\ Cached(i)
  /\ LET counted == program[i].on # "function"
         f == Top.inline[code[i].inline]
     IN  /\ counted => lock < MaxDepth
         /\ lock' = IF counted THEN lock + 1 ELSE lock
         /\ Enter(i, c, f, f, counted, NoKey, TRUE)

\* The slot is set: it goes to the inline cache, and without one PHP is asked.
CallSlot(i, c) ==
  /\ MayCall(i, c) /\ ~Cached(i) /\ InSlot(i) /\ lock < MaxDepth
  /\ lock' = lock + 1
  /\ LET p == scache[code[i].slot]
         f == IF code[i].inline = None THEN Asked(i, c) ELSE p
     IN  Enter(i, c, p, f, TRUE, NoKey, TRUE)

\* The table is searched, and PHP is asked.
CallTable(i, c) ==
  /\ MayCall(i, c) /\ ~Cached(i) /\ ~InSlot(i) /\ lock < MaxDepth
  /\ lock' = lock + 1
  /\ LET k == SiteKey(i, c)
     IN  IF k \in DOMAIN fcache
         THEN Enter(i, c, NoFunction, fcache[k], TRUE, k, TRUE)
         ELSE Enter(i, c, NoFunction, Asked(i, c), TRUE, k, FALSE)

\* E_ERROR: the script is left with the lock as it is; shutdown functions run.
TooDeep(i, c) ==
  /\ MayCall(i, c) /\ lock \in MaxDepth..(MaxLock - 1)
  /\ ~(Cached(i) /\ program[i].on = "function")
  /\ lock' = lock + 1 /\ bailed' = TRUE /\ stack' = <<>>
  /\ UNCHANGED <<compiler, globals>>

\* A method or function returns to PHP code.
ReturnToPHP ==
  /\ stack # <<>> /\ Top.site = None
  /\ stack' = Pop
  /\ UNCHANGED <<compiler, globals, lock, bailed>>

\* A method or function returns to the kernel: what PHP found is stored, unless
\* a call in between has stored it under that key.
ReturnToSite ==
  /\ stack # <<>> /\ Top.site # None
  /\ lock' = IF Top.counted THEN lock - 1 ELSE lock
  /\ LET inline == code[Top.site].inline
         slot == code[Top.site].slot
         caller == stack[Len(stack) - 1]
     IN  IF Top.cached \/ Top.key \in DOMAIN fcache
         THEN stack' = Pop /\ UNCHANGED <<scache, fcache>>
         ELSE /\ fcache' = [k \in DOMAIN fcache \cup {Top.key} |->
                              IF k = Top.key THEN Top.callable ELSE fcache[k]]
              /\ stack' = [Pop EXCEPT ![Len(stack) - 1] =
                   [caller EXCEPT !.inline = [s \in Sites |->
                      IF s = inline THEN Top.callable ELSE caller.inline[s]]]]
              /\ scache' = IF inline = None \/ slot = None THEN scache
                           ELSE [scache EXCEPT ![slot] = Top.callable]
  /\ UNCHANGED <<compiler, request, bailed>>

\* exit, or a fatal error, in PHP code longjmps over the calls of the kernel.
Bailout ==
  /\ stack # <<>> /\ Top.callable.callable[1] \notin Extension
  /\ stack' = <<>> /\ bailed' = TRUE
  /\ UNCHANGED <<compiler, globals, lock>>

-----------------------------------------------------------------------------
Init ==
  /\ program \in Programs
  /\ next = 1 /\ nextSlot = 1 /\ slotOf = [t \in Callables |-> None]
  /\ memo = [k \in {} |-> None] /\ code = <<>>
  /\ request = 0
  /\ scache = [s \in Slots |-> NoFunction] /\ fcache = [k \in {} |-> NoFunction]
  /\ lock = 0 /\ bailed = FALSE /\ stack = <<>>

Next ==
  \/ \E i \in Sites :
       Unresolved(i) \/ Memoized(i) \/ MethodCache(i) \/ FunctionCache(i)
  \/ StartRequest \/ ReturnToPHP \/ ReturnToSite \/ Bailout
  \/ \E c \in Classes, n \in Names : FromPHP(c, n)
  \/ \E i \in Sites, c \in Classes \cup {NoClass} :
       CallInline(i, c) \/ CallSlot(i, c) \/ CallTable(i, c) \/ TooDeep(i, c)

Spec == Init /\ [][Next]_vars

-----------------------------------------------------------------------------
TypeOK ==
  /\ program \in Programs /\ next \in Nat /\ nextSlot \in Nat
  /\ slotOf \in [Callables -> Slots]
  /\ DOMAIN memo \subseteq Defined \X Callables
  /\ memo \in [DOMAIN memo -> {None} \cup Sites]
  /\ code \in Seq([inline : {None} \cup Sites, slot : Slots])
  /\ request \in Nat
  /\ scache \in [Slots -> Pointer \cup {NoFunction}]
  /\ fcache \in [DOMAIN fcache -> Pointer]
  /\ lock \in Nat /\ bailed \in BOOLEAN
  /\ stack \in Seq(Frame)

\* The 511 slots of the globals belong to one callable each, through the whole
\* compilation; a site past the last one has none, whatever was cached before.
SlotsDistinct ==
  \A i, j \in 1..Len(code) :
    code[i].slot = code[j].slot /\ code[i].slot # None =>
      Target(program[i]) = Target(program[j])

\* However calls nest, a site runs what PHP finds in this request for the class
\* of the object and the class the site is in.
RightFunction ==
  \A k \in 1..Len(stack) : stack[k].site # None =>
    LET s == program[stack[k].site]
    IN  stack[k].callable =
          [callable |-> Method(s.in[1], stack[k].this, s.name), of |-> request]

\* recursive_lock counts the calls of the kernel that are running; one that is
\* left by exit or a fatal error leaves it too high for this request only.
Counted == {k \in 1..Len(stack) : stack[k].counted}
LockIsDepth ==
  /\ ~bailed => lock = Cardinality(Counted)
  /\ lock >= Cardinality(Counted)

\* The calls that run, without the caches.
Shown ==
  [k \in 1..Len(stack) |-> [runs |-> stack[k].callable, this |-> stack[k].this]]
Direct == INSTANCE DirectCalls WITH calls <- Shown

\* The caches change nothing that can be seen of the calls: what runs, on which
\* object, above which call and until when is what it is for code without them.
ImplementsDirectCalls == Direct!DirectSpec
=============================================================================
