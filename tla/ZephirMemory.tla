---------------------------- MODULE ZephirMemory ----------------------------
(***************************************************************************)
(* The memory frames of the C kernel (kernels/ZendEngine3/memory.c and     *)
(* memory.h) under the code the compiler emits.                            *)
(*                                                                         *)
(* A generated method that owns zvals pushes a frame (ZEPHIR_MM_GROW),     *)
(* registers the address of each local zval in it the first time the zval  *)
(* is used (zephir_memory_observe), and on every way out pops the frame    *)
(* (ZEPHIR_MM_RESTORE), which drops one reference per registered address.  *)
(* The first NumPreallocated frames form a block allocated at the start of *)
(* the request; deeper frames are allocated one by one and linked behind   *)
(* the block.                                                              *)
(*                                                                         *)
(* Frames are addresses: 1..NumPreallocated is the block, HeapFrames are   *)
(* the addresses ecalloc may return.  A method is identified with the      *)
(* frame it pushed, so zv[f] are the local zvals of the method that owns f.*)
(* A zval holds Undef (IS_UNDEF), Scalar (a type that is not refcounted)   *)
(* or a refcounted value; References are the values that are PHP           *)
(* references (IS_REFERENCE).  The zvals of hash keys and the virtual      *)
(* symbol tables are left out: no code of the kernel fills either.         *)
(***************************************************************************)
EXTENDS Naturals, Sequences, FiniteSets

CONSTANTS
  NumPreallocated,  \* ZEPHIR_NUM_PREALLOCATED_FRAMES (25 in the code)
  HeapFrames,       \* addresses ecalloc can return for a deeper frame
  FrameCapacity,    \* addresses a preallocated frame starts with (24)
  CapacityStep,     \* addresses a reallocation adds (16)
  Vars,             \* names of the local zvals of a method
  Values,           \* refcounted values
  References,       \* those that are PHP references
  Undef, Scalar,    \* contents of a zval that holds no reference
  NULL,
  CanCatch,         \* TRUE: methods may call inside a try block
  UnsetCopies,      \* TRUE: methods may copy a zval no statement has set
  MaxRefs           \* bound on the reference count of a value

ASSUME FramesAssumption ==
  /\ NumPreallocated \in Nat /\ NumPreallocated >= 2
  /\ IsFiniteSet(HeapFrames)
  /\ HeapFrames \cap (1..NumPreallocated) = {}
  /\ NULL \notin HeapFrames \cup (1..NumPreallocated) \cup Vars

ASSUME CapacityAssumption ==
  /\ FrameCapacity \in Nat
  /\ CapacityStep \in Nat /\ CapacityStep >= 1

ASSUME ContentAssumption ==
  /\ IsFiniteSet(Vars)
  /\ References \subseteq Values
  /\ Undef \notin Values /\ Scalar \notin Values /\ Undef # Scalar

ASSUME BoundsAssumption ==
  CanCatch \in BOOLEAN /\ UnsetCopies \in BOOLEAN /\ MaxRefs \in Nat

Permanent == 1..NumPreallocated
Frames    == Permanent \cup HeapFrames
Content   == Values \cup {Undef, Scalar}

VARIABLES
  inRequest,  \* between RINIT and RSHUTDOWN of the extension
  unclean,    \* CG(unclean_shutdown): a fatal error unwound the C stack
  started,    \* start_memory # NULL, equivalently initialized = 1
  active,     \* active_memory
  heap,       \* frames obtained from ecalloc and not yet freed
  next, prev, \* links of the frames
  addresses,  \* registered addresses of each frame; pointer is its length
  capacity,   \* room in addresses
  live,       \* frames whose method is still on the C stack
  zv,         \* zv[f][x]: content of the local zval x
  wait,       \* wait[f]: the zval that will receive the pending call's result
  cursor,     \* 0, or the index the restore loop of the frame has reached
  rc,         \* reference count of each value, 0 when it is freed
  ext         \* references held by properties, arrays and PHP variables

request  == <<inRequest, unclean, started>>
links    == <<active, heap, next, prev>>
observed == <<addresses, capacity>>
methods  == <<live, zv, wait, cursor>>
counts   == <<rc, ext>>
vars     == <<request, links, observed, methods, counts>>

\* One more reference to c stays within the bound.
Room(c) == c \in Values => rc[c] < MaxRefs

Alive == {v \in Values : rc[v] > 0}
Fresh == Values \ Alive

\* Mutants of Moved: a reference taken without Z_ADDREF, one dropped without
\* Z_DELREF, and zval_ptr_dtor followed by Z_DELREF (a lost else).
MovedNoAddRef(old, new) ==
  [v \in Values |-> IF v = old THEN rc[v] - 1 ELSE rc[v]]
MovedNoDelRef(old, new) ==
  [v \in Values |-> IF v = new THEN rc[v] + 1 ELSE rc[v]]
MovedTwice(old, new) ==
  [v \in Values |-> (IF v = new THEN rc[v] + 1 ELSE rc[v])
                      - (IF v = old THEN 2 ELSE 0)]

\* Reference counts after a zval that held old comes to hold new; a value
\* that goes from 0 to 1 has just been allocated.
Moved(old, new) ==
  [v \in Values |-> (IF v = new THEN rc[v] + 1 ELSE rc[v])
                      - (IF v = old THEN 1 ELSE 0)]

\* Names registered in frame f.
Observed(f) == {addresses[f][i] : i \in 1..Len(addresses[f])}

\* The zvals the restore loop of f has already visited.
Released(f) == {addresses[f][i] : i \in 1..(IF cursor[f] = 0 THEN 0 ELSE cursor[f] - 1)}

\* The method that owns the active frame is executing its own statements.
Running(f) ==
  /\ f = active /\ f \in live
  /\ cursor[f] = 0 /\ wait[f] = NULL

\* Mutant of Observe: the buffer is never reallocated.
ObserveInPlace(f, x) ==
  /\ addresses' = [addresses EXCEPT ![f] = Append(@, x)]
  /\ UNCHANGED capacity

\* zephir_do_memory_observe, with zephir_reallocate_memory when it is full.
\* (The debug build first aborts if x is registered already.)
Observe(f, x) ==
  /\ addresses' = [addresses EXCEPT ![f] = Append(@, x)]
  /\ capacity' = IF Len(addresses[f]) = capacity[f]
                   THEN [capacity EXCEPT ![f] = @ + CapacityStep]
                   ELSE capacity

-----------------------------------------------------------------------------
(* The frame block: zephir_initialize_memory and its release.              *)

BlockNext == [f \in Frames |-> IF f \in 1..(NumPreallocated - 1) THEN f + 1 ELSE NULL]
BlockPrev == [f \in Frames |-> IF f \in 2..NumPreallocated THEN f - 1 ELSE NULL]
BlockCapacity == [f \in Frames |-> IF f \in Permanent THEN FrameCapacity ELSE 0]
NoAddresses == [f \in Frames |-> << >>]

InitializeMemory ==
  /\ next' = BlockNext
  /\ prev' = BlockPrev
  /\ started' = TRUE

Init ==
  /\ inRequest = FALSE /\ unclean = FALSE /\ started = FALSE
  /\ active = NULL /\ heap = {}
  /\ next = BlockNext /\ prev = BlockPrev
  /\ addresses = NoAddresses /\ capacity = BlockCapacity
  /\ live = {}
  /\ zv = [f \in Frames |-> [x \in Vars |-> Undef]]
  /\ wait = [f \in Frames |-> NULL]
  /\ cursor = [f \in Frames |-> 0]
  /\ rc = [v \in Values |-> 0]
  /\ ext = [v \in Values |-> 0]

\* PHP_RINIT: php_zephir_init_globals, then zephir_initialize_memory whatever
\* start_memory is.  The engine starts the request with no value alive.
RInit ==
  /\ ~inRequest /\ live = {}
  /\ inRequest' = TRUE /\ unclean' = FALSE
  /\ InitializeMemory
  /\ active' = NULL /\ heap' = {}
  /\ addresses' = NoAddresses /\ capacity' = BlockCapacity
  /\ rc' = [v \in Values |-> 0] /\ ext' = [v \in Values |-> 0]
  /\ UNCHANGED methods

\* PHP_RSHUTDOWN: zephir_deinitialize_memory pops what is left on the stack,
\* releasing no zval after a fatal error, and frees the block.  BalancedStack
\* says that nothing is left otherwise.  The links of the freed block take
\* the values the next block will start with.
RShutdown ==
  /\ inRequest /\ live = {}
  /\ inRequest' = FALSE
  /\ started' = FALSE
  /\ active' = NULL /\ heap' = {}
  /\ next' = BlockNext /\ prev' = BlockPrev
  /\ addresses' = NoAddresses /\ capacity' = BlockCapacity
  /\ UNCHANGED <<unclean, methods, counts>>

-----------------------------------------------------------------------------
(* Frames: zephir_memory_grow_stack and zephir_memory_restore_stack.       *)

\* A value the restore loop has just freed runs its destructor, which may
\* be a generated method.
DestructorRuns(f) ==
  /\ cursor[f] > 1
  /\ LET c == zv[f][addresses[f][cursor[f] - 1]] IN c \in Values /\ rc[c] = 0

\* Code other than the method that owns the active frame may run: PHP code
\* with no method below it, a callee, or a destructor.
CalleeMayRun ==
  active \in live => cursor[active] = 0 \/ DestructorRuns(active)

\* The locals of the method that starts on frame f (ZVAL_UNDEF on each).
Enter(f) ==
  /\ active' = f
  /\ live' = live \cup {f}
  /\ zv' = [zv EXCEPT ![f] = [x \in Vars |-> Undef]]
  /\ wait' = [wait EXCEPT ![f] = NULL]
  /\ cursor' = [cursor EXCEPT ![f] = 0]

\* First frame of a request, or of code that runs after RSHUTDOWN.
GrowUninitialized ==
  /\ ~started
  /\ InitializeMemory
  /\ addresses' = NoAddresses /\ capacity' = BlockCapacity
  /\ heap' = {}
  /\ Enter(1)
  /\ UNCHANGED <<inRequest, unclean, counts>>

\* Mutant of GrowFirst: the test of active_memory is lost.
GrowFirstAlways ==
  /\ started /\ CalleeMayRun
  /\ Enter(1)
  /\ UNCHANGED <<request, heap, next, prev, observed, counts>>

GrowFirst ==
  /\ started /\ active = NULL
  /\ Enter(1)
  /\ UNCHANGED <<request, heap, next, prev, observed, counts>>

GrowNext ==
  /\ started /\ active # NULL /\ next[active] # NULL
  /\ CalleeMayRun
  /\ Enter(next[active])
  /\ UNCHANGED <<request, heap, next, prev, observed, counts>>

GrowHeap ==
  /\ started /\ active # NULL /\ next[active] = NULL
  /\ CalleeMayRun
  /\ \E f \in HeapFrames \ heap :
       /\ heap' = heap \cup {f}
       /\ prev' = [prev EXCEPT ![f] = active]
       /\ next' = [next EXCEPT ![active] = f, ![f] = NULL]
       /\ addresses' = [addresses EXCEPT ![f] = << >>]
       /\ capacity' = [capacity EXCEPT ![f] = 0]
       /\ Enter(f)
  /\ UNCHANGED <<request, counts>>

\* The restore loop skips every zval when CG(unclean_shutdown) is set.
BeginRestore(f) ==
  cursor' = [cursor EXCEPT ![f] = IF unclean THEN Len(addresses[f]) + 1 ELSE 1]

\* RETURN_MM and its variants: leave without handing a zval to the caller.
ReturnMM(f) ==
  /\ Running(f)
  /\ BeginRestore(f)
  /\ UNCHANGED <<request, links, observed, live, zv, wait, counts>>

\* RETURN_CCTOR(y): copy y into the caller's zval, then restore.  ZVAL_DUP
\* shares an object or a string and duplicates an array; of a zval that no
\* statement has set it leaves the caller's IS_UNDEF.
ReturnCCtor(f, y, x) ==
  /\ Running(f)
  /\ UnsetCopies \/ zv[f][y] # Undef
  /\ LET p == prev[f] IN
       /\ p # NULL /\ p \in live
       /\ wait[p] = x /\ zv[p][x] = Undef
       /\ \E c \in {zv[f][y]} \cup (IF zv[f][y] \in Values THEN Fresh ELSE {}) :
            /\ Room(c)
            /\ zv' = [zv EXCEPT ![p][x] = c]
            /\ rc' = Moved(Undef, c)
  /\ BeginRestore(f)
  /\ UNCHANGED <<request, links, observed, live, wait, ext>>

\* One turn of the loop of zephir_memory_restore_stack_common.
RestoreStep(f) ==
  /\ f = active /\ f \in live
  /\ cursor[f] \in 1..Len(addresses[f])
  /\ rc' = Moved(zv[f][addresses[f][cursor[f]]], Undef)
  /\ cursor' = [cursor EXCEPT ![f] = @ + 1]
  /\ UNCHANGED <<request, links, observed, live, zv, wait, ext>>

\* The loop has visited every registered address; the mutant stops one short.
LoopEndsEarly(f) == cursor[f] >= Len(addresses[f])
LoopEnded(f)     == cursor[f] > Len(addresses[f])

\* Mutants of FreeFrame: the predecessor keeps its link, the frame is not freed.
FreeFrameLinked(f) ==
  /\ heap' = heap \ {f}
  /\ prev' = [prev EXCEPT ![f] = NULL]
  /\ capacity' = [capacity EXCEPT ![f] = 0]
  /\ UNCHANGED next
FreeFrameLost(f) ==
  /\ next' = [next EXCEPT ![prev[f]] = NULL]
  /\ UNCHANGED <<heap, prev, capacity>>

FreeFrame(f) ==
  /\ heap' = heap \ {f}
  /\ next' = [next EXCEPT ![prev[f]] = NULL]
  /\ prev' = [prev EXCEPT ![f] = NULL]
  /\ capacity' = [capacity EXCEPT ![f] = 0]

\* The end of zephir_memory_restore_stack_common: a frame of the block is
\* emptied and stays linked, a heap frame is freed and unlinked.
Pop(f) ==
  /\ f = active /\ f \in live
  /\ cursor[f] > 0 /\ LoopEnded(f)
  /\ active' = prev[f]
  /\ addresses' = [addresses EXCEPT ![f] = << >>]
  /\ IF f \in Permanent
       THEN UNCHANGED <<heap, next, prev, capacity>>
       ELSE FreeFrame(f)
  /\ live' = live \ {f}
  /\ cursor' = [cursor EXCEPT ![f] = 0]
  /\ zv' = [zv EXCEPT ![f] = [x \in Vars |-> Undef]]
  /\ UNCHANGED <<request, wait, counts>>

\* A fatal error: zend_bailout sets CG(unclean_shutdown) and longjmps out of
\* every method.  Shutdown functions and destructors may still run after it.
Bailout ==
  /\ live # {}
  /\ unclean' = TRUE
  /\ live' = {}
  /\ wait' = [f \in Frames |-> NULL]
  /\ cursor' = [f \in Frames |-> 0]
  /\ zv' = [f \in Frames |-> [x \in Vars |-> Undef]]
  /\ UNCHANGED <<inRequest, started, links, observed, counts>>

-----------------------------------------------------------------------------
(* Statements of a method: the macros of memory.h.                         *)

\* A macro the compiler emits only for the first use of x (Variable::initVariant
\* and observeVariant test variantInits and insideCycle), then a write of c.
FirstUse(f, x, c) ==
  /\ Running(f)
  /\ x \notin Observed(f)
  /\ Room(c)
  /\ Observe(f, x)
  /\ zv' = [zv EXCEPT ![f][x] = c]
  /\ rc' = Moved(Undef, c)
  /\ UNCHANGED <<request, links, live, wait, cursor, ext>>

\* Mutant of AnyUse: the zval is registered without looking at its type.
AnyUseObserved(f, x, old, c) ==
  /\ Running(f) /\ Room(c)
  /\ Observe(f, x)
  /\ zv' = [zv EXCEPT ![f][x] = c]
  /\ rc' = Moved(old, c)
  /\ UNCHANGED <<request, links, live, wait, cursor, ext>>

\* A macro that tells a first use from a later one by looking for IS_UNDEF,
\* and drops the reference to old otherwise, then a write of c.
AnyUse(f, x, old, c) ==
  /\ Running(f) /\ Room(c)
  /\ IF zv[f][x] = Undef THEN Observe(f, x) ELSE UNCHANGED observed
  /\ zv' = [zv EXCEPT ![f][x] = c]
  /\ rc' = Moved(old, c)
  /\ UNCHANGED <<request, links, live, wait, cursor, ext>>

\* What a zval holds that no statement has set, what a constructor leaves in
\* one, what a fetch of a property or of an array element leaves in it, and what
\* it can be a copy of.
Unset       == IF UnsetCopies THEN {Undef} ELSE {}
Constructed == {Scalar} \cup Fresh
Fetched     == {Scalar} \cup {v \in Values : ext[v] > 0}
Copied      == {Scalar} \cup Alive \cup Unset

\* ZEPHIR_INIT_NVAR drops what the zval holds unless it is a PHP reference.
InitNVarDrops(f, x) == IF zv[f][x] \in References THEN Undef ELSE zv[f][x]

\* ZEPHIR_INIT_VAR and ZEPHIR_INIT_NVAR come before a constructor or, in the
\* head of a for, before ZVAL_COPY of an element.
InitVar(f, x)  == \E c \in Constructed \cup Fetched : FirstUse(f, x, c)
ObsVar(f, x)   == \E c \in Fetched : FirstUse(f, x, c)
InitNVar(f, x) == \E c \in Constructed \cup Fetched : AnyUse(f, x, InitNVarDrops(f, x), c)
ObsNVar(f, x)  == \E c \in Fetched : AnyUse(f, x, zv[f][x], c)
CpyWrt(f, x)   == \E c \in Copied : AnyUse(f, x, zv[f][x], c)

\* ZEPHIR_CALL_METHOD and the like first empty the zval of the result
\* (ZEPHIR_OBSERVE_OR_NULLIFY_PPZV), then call.
CallBegin(f, x) ==
  /\ Running(f)
  /\ IF zv[f][x] = Undef THEN Observe(f, x) ELSE UNCHANGED observed
  /\ rc' = Moved(zv[f][x], Undef)
  /\ zv' = [zv EXCEPT ![f][x] = Undef]
  /\ wait' = [wait EXCEPT ![f] = x]
  /\ UNCHANGED <<request, links, live, cursor, ext>>

\* The call succeeded.  A callee that is not a generated method, or a
\* generated one without RETURN_CCTOR, may leave anything in the zval but
\* IS_UNDEF, which only RETURN_CCTOR of an unset zval leaves.
CallSucceeds(f, x) ==
  /\ f = active /\ f \in live /\ cursor[f] = 0 /\ wait[f] = x
  /\ wait' = [wait EXCEPT ![f] = NULL]
  /\ IF zv[f][x] = Undef
       THEN \E c \in {Scalar} \cup Values \cup Unset :
              /\ Room(c)
              /\ zv' = [zv EXCEPT ![f][x] = c]
              /\ rc' = Moved(Undef, c)
       ELSE UNCHANGED <<zv, rc>>
  /\ UNCHANGED <<request, links, observed, live, cursor, ext>>

\* The call raised an exception: zephir_call_class_method_aparams and
\* zephir_call_func_aparams leave the zval IS_UNDEF, zephir_call_zval_func_aparams
\* leaves NULL.  zephir_check_call_status restores the frame; inside a try
\* block zephir_check_call_status_or_jump lets the method go on.
CallFails(f, x) ==
  /\ f = active /\ f \in live /\ cursor[f] = 0 /\ wait[f] = x
  /\ wait' = [wait EXCEPT ![f] = NULL]
  /\ rc' = Moved(zv[f][x], Undef)
  /\ \E c \in {Undef, Scalar} : zv' = [zv EXCEPT ![f][x] = c]
  /\ \/ BeginRestore(f)
     \/ CanCatch /\ UNCHANGED cursor
  /\ UNCHANGED <<request, links, observed, live, ext>>

\* A property, an array or a PHP variable takes a reference to a value,
\* possibly a new one, or drops one.
AddExternal(v) ==
  /\ CalleeMayRun /\ Room(v)
  /\ ext' = [ext EXCEPT ![v] = @ + 1]
  /\ rc' = [rc EXCEPT ![v] = @ + 1]
  /\ UNCHANGED <<request, links, observed, methods>>

DropExternal(v) ==
  /\ CalleeMayRun /\ ext[v] > 0
  /\ ext' = [ext EXCEPT ![v] = @ - 1]
  /\ rc' = [rc EXCEPT ![v] = @ - 1]
  /\ UNCHANGED <<request, links, observed, methods>>

-----------------------------------------------------------------------------
Lifecycle == RInit \/ RShutdown \/ Bailout

Grow == GrowUninitialized \/ GrowFirst \/ GrowNext \/ GrowHeap

Leave(f) == 
  \/ ReturnMM(f)
  \/ \E y, x \in Vars : ReturnCCtor(f, y, x)
  \/ RestoreStep(f)
  \/ Pop(f)

Statement(f, x) ==
  \/ InitVar(f, x) \/ ObsVar(f, x)
  \/ InitNVar(f, x) \/ ObsNVar(f, x) \/ CpyWrt(f, x)
  \/ CallBegin(f, x) \/ CallSucceeds(f, x) \/ CallFails(f, x)

Next ==
  \/ Lifecycle
  \/ Grow
  \/ \E f \in Frames : Leave(f)
  \/ \E f \in Frames, x \in Vars : Statement(f, x)
  \/ \E v \in Values : AddExternal(v) \/ DropExternal(v)

Spec == Init /\ [][Next]_vars

-----------------------------------------------------------------------------
(* Properties.                                                             *)

\* Every variable keeps to its type; rc \in Nat also says that no reference is
\* dropped twice.
TypeOK ==
  /\ inRequest \in BOOLEAN /\ unclean \in BOOLEAN /\ started \in BOOLEAN
  /\ active \in Frames \cup {NULL}
  /\ heap \subseteq HeapFrames
  /\ next \in [Frames -> Frames \cup {NULL}]
  /\ prev \in [Frames -> Frames \cup {NULL}]
  /\ addresses \in [Frames -> Seq(Vars)]
  /\ capacity \in [Frames -> Nat]
  /\ live \subseteq Frames
  /\ zv \in [Frames -> [Vars -> Content]]
  /\ wait \in [Frames -> Vars \cup {NULL}]
  /\ cursor \in [Frames -> Nat]
  /\ rc \in [Values -> Nat]
  /\ ext \in [Values -> Nat]

\* The zvals that own a reference to v.
Holders(v) ==
  {p \in Frames \X Vars : /\ p[1] \in live
                          /\ zv[p[1]][p[2]] = v
                          /\ p[2] \notin Released(p[1])}

\* zephir_do_memory_observe never registers an address twice in a frame: the
\* restore loop would drop two references for the one the zval owns.
ObservedOnce ==
  \A f \in Frames : \A i, j \in 1..Len(addresses[f]) :
    addresses[f][i] = addresses[f][j] => i = j

\* No value is freed while a zval, a property or an array still refers to it.
NoPrematureFree ==
  \A v \in Values : rc[v] >= Cardinality(Holders(v)) + ext[v]

\* Without a fatal error every reference to a value has an owner that will drop
\* it, so nothing outlives its last owner: no path through the macros leaks.
\* PHP references are left out: ZEPHIR_INIT_NVAR does leak one that it finds in
\* the zval.
NoLeak ==
  ~unclean => \A v \in Values \ References : rc[v] = Cardinality(Holders(v)) + ext[v]

\* The assertions of grow_stack_common and restore_stack_common: the frame
\* about to be pushed is empty, only the last frame of the block and heap
\* frames lack a successor, and a heap frame has a predecessor to go back to.
FrameAsserts ==
  /\ active = NULL => addresses[1] = << >>
  /\ active \in Permanent \ {NumPreallocated} =>
       /\ next[active] \in Permanent
       /\ addresses[next[active]] = << >>
  /\ active \in heap \cup {NumPreallocated} => next[active] = NULL
  /\ active \in HeapFrames => active \in heap /\ prev[active] # NULL

\* zephir_reallocate_memory keeps the write of zephir_do_memory_observe inside
\* the buffer, for heap frames too, which start with no buffer at all.
AddressesFit == \A f \in Frames : Len(addresses[f]) <= capacity[f]

\* When no method is on the C stack, every frame has been popped and every
\* heap frame freed, unless a fatal error unwound methods.
BalancedStack ==
  (live = {} /\ ~unclean) => /\ active = NULL /\ heap = {}
                             /\ addresses = NoAddresses

\* The statements of a callee never touch the frame of a suspended method:
\* when control returns to it, its registered zvals, their contents (but for
\* the one that receives the result) and the point its restore loop had
\* reached are the ones it left.
CallerUndisturbed ==
  [][\A f \in live \cap live' : f # active =>
        /\ addresses'[f] = addresses[f]
        /\ cursor'[f] = cursor[f] /\ wait'[f] = wait[f]
        /\ \A x \in Vars \ {wait[f]} : zv'[f][x] = zv[f][x]]_vars

=============================================================================
