# Zephir in TLA+

A verification project for Zephir, the compiler from `.zep` classes to a PHP extension in C, and for the C
kernel its output runs on. TLC checks the modules on small instances; TLAPS proves invariants of the memory
frames, the statement compilers and the code they print, the build, the order of classes, the call caches and the initialisation of
variables for every value of the constants.

## 1. The system

Zephir has two halves. The compiler (`Library/`, PHP) parses `.zep` files to an IR, compiles each method to C,
prints the project's C files and drives `phpize`, `configure` and `make`. The generated C is linked with a kernel
(`kernels/ZendEngine3`, an older one for ZendEngine2) that gives it frames that own temporary values, calls with caches, and
property, array and string helpers. The two halves meet in a set of C macros: a compiler pass is right when the
macros it prints are used the way the kernel assumes.

| component | state | operations | what makes it correct |
|---|---|---|---|
| memory frames (`memory.c`, `memory.h`) | the frame block and the heap frames behind it, the active frame, the registered addresses of each, the local zvals, reference counts | push, register, the macros that write a zval, return, restore loop, pop, request start and end, fatal error | every reference is dropped once, by its owner; the links never lose a frame; a callee leaves its caller's frame alone |
| calls (`fcall.c`, `extended/fcall.c`) | recursion counter, scope, status, pending exception | call, failure, refusal while an exception is pending | the status tells what happened; counters and scope are restored on every way out |
| call caches (`Cache/*.php`, `fcache`, `scache`, inline caches) | slots given out, functions remembered | allocate a slot, look up, remember | a remembered function is the one a lookup would find |
| statement compilers (`Statements/*.php`, `StatementsBlock.php`, end of `ClassMethod::compile`) | the counters of the compilation context; at run time the C program counter, `EG(exception)`, temporaries | one compiler for each statement, the epilogue | the C code does what the statement means; the frame is restored once on every path |
| symbol table, variables, branches (`SymbolTable.php`, `Variable.php`, `Branch*.php`, `SkipVariantInit.php`) | initialisations counted, idle temporaries, branches | initialise, observe, skip, reuse | a first-use macro is printed only where no path has used the variable |
| build pipeline (`Compiler.php`, `CompilerFile.php`, `HardDisk.php`) | parse cache, generated files, hashes, configured and built state | genIR, compile, generate, configure, make, clean | after a build the extension is the one of the current sources, whatever crashed before |
| class dependencies (`calculateDependencies`, `createProjectFiles`, `PHP_MINIT_FUNCTION`) | ranks, the stack of the recursion, lists of files, class entries | rank, sort, compile, initialise, register | a class is compiled and initialised after those it extends; the recursion ends |
| parser, expressions, operators, optimizers, backends, documentation, commands, older kernel | | | sequential translation or printing; see `PROJECT.json` for the reason each is left out |

How they interact: a generated method pushes a frame, runs the C statements the statement compilers printed, registers
zvals where the symbol table decided, calls other methods (which push frames of their own) and pops the
frame. Values die in the restore loop, which may run a destructor: generated code again, between two steps of the loop.
Exceptions travel as a pending `EG(exception)` that each call's status reports. A fatal error unwinds the C stack and leaves
the frames where they were. Between runs of the compiler the files of the build are the only state.

The behaviours that are hard here: destructors inside the restore loop, calls that fail half-way, the end of the preallocated
block, fatal errors and requests that follow, gotos between try blocks, statements of which only some paths leave the method,
order of evaluation, temporaries reused across branches, caches filled by one call and read by another, and builds that stop in
the middle. `PROJECT.json` lists them as hazards, each at its line, with the property that watches it or the module planned for it.

## 2. The modules

### ZephirMemory, ActivationStack, ZephirActivations, MCZephirMemory, ZephirMemoryProofs, ActivationStackProofs

`ZephirMemory` models the kernel's frames under arbitrary generated code. A frame is an address: `1..NumPreallocated`
is the block of `zephir_initialize_memory`, `HeapFrames` are the addresses `ecalloc` may return. `next`, `prev`, `active`,
`addresses` and `capacity` are the fields of the C structs (`pointer` is the length of `addresses`). A method is identified with the
frame it pushed; `zv[f][x]` is its local zval `x`, holding `Undef` (IS_UNDEF), `Scalar` (any type that is not refcounted) or
a value; `rc` are the reference counts and `ext` the references held outside frames. `cursor[f]` is the position of the
restore loop, one step per registered address, because a destructor may run between two of them; `wait[f]` is the zval that receives a
pending call's result.

One action is one function or macro: `RInit`, `RShutdown`, `GrowUninitialized / GrowFirst / GrowNext / GrowHeap` (the branches of
`zephir_memory_grow_stack`), `ReturnMM`, `ReturnCCtor`, `RestoreStep`, `Pop`, the macros `InitVar`, `ObsVar`, `InitNVar`, `ObsNVar`, `CpyWrt`, and
`CallBegin`, `CallSucceeds`, `CallFails`. `Bailout`, `AddExternal` and `DropExternal` stand for the PHP engine: a fatal error, and
references taken or dropped by properties, arrays and PHP variables. `FirstUse` assumes what the symbol table has to ensure, that
ZEPHIR_INIT_VAR and ZEPHIR_OBS_VAR are printed for the first use only; the other macros look at the zval themselves.
`CanCatch` says whether methods have try blocks (a failed call then goes on instead of restoring). `UnsetCopies` says whether they copy zvals no statement has set: locals start IS_UNDEF (`Backend::generateInitCode`), the compiler refuses a read
before the first assignment in the order of the source but not on each path, and `ZEPHIR_CPY_WRT` of such a zval, or `RETURN_CCTOR` in the caller, leaves its target registered and IS_UNDEF. `References` are the values that are PHP references, which a `for` puts into its variable with
the element of an array: `ZEPHIR_INIT_NVAR` does not drop one that it finds (`InitNVarDrops`), so `NoLeak` speaks of the other values only. The other properties are about all of them.

`ActivationStack` is what the frames promise to the generated methods: a stack of activations, each owning the zvals
it has used, leaving when on top and after releasing each of them once. `ZephirActivations` defines the mapping (following `prev` down from
`active` over the frames whose method is alive), under which every step of the frames is a step of the stack or a stutter: TLC checks it on the small
instance, and `ActivationStackProofs` proves it for all.

### ZepExceptions, ZepSource, StatementCompiler, CompiledMethod, MCStatementCompiler, StatementCompilerProofs

`ZepSource` is the meaning of a method body: statements as records, and a small abstract machine (a stack of what is
left to do) that asks its environment for the next event: echo this, call that, test a condition, select a clause, end. It
is the reference; the docblocks of `Library/Statements` define the statements by "the same as in PHP".

`StatementCompiler` compiles a body the way `StatementsBlock::compile` does, one statement at a time. `work` is the stack of the statements that are open, the method first: for each the block it is in, what is left of it, and the parts still
to come (the arms of an if, the clauses of a switch, the catches of a try). `code` is the C printed so far. `CompileSimple` is the `compile` of a statement without blocks; `OpenStatement`, `NextPart` and `CloseStatement` are what the compilers of the others print before, between and
after their blocks; `FinishMethod` is the epilogue of `ClassMethod::compile`, with `hasChildReturnStatementType`. A jump out of a statement is `Pending` until the statement is closed, and is then resolved to a C statement by its number (the closing brace in the source). `insideCycle`,
`insideSwitch`, `insideTryCatch` and `currentTryCatch` are the counters of `CompilationContext`: they decide whether a break or continue is accepted and where a throw or a failed call goes. `Refuse` is a `CompilerException`; `HasBreak` is `LoopBreakPass`, which `loop` asks.
Conditions that call a method are split as the code splits them: the call comes first, into a temporary, the test later.

`CompiledMethod` is the C machine that then runs the code: a call may return or throw, is refused while an exception is pending, and its status check restores
the frame or jumps. The machine runs next to the body; whenever it reaches an event it must be the event the body asks for, and the answer, chosen
freely, goes to both. What a body asks for and becomes are constant operators here (`Asked`, `OnDone`, `OnFailure`, `OnTest`, `OnChoice`, `OnStart`): neither module depends on what statements mean, and the theorems hold for any meaning. `MCStatementCompiler` extends both and `ZepSource`, and its configurations give
these constants the operators of `ZepSource`, `Bodies` a family of bodies, and `Statements` those they are made of. `ZepExceptions` declares the classes of exceptions they share.
`Depth` counts the iterators obtained and not destroyed before a statement of the code; `Kept` says that the method leaves at depth 0 only, through a statement that restores its frame, and that no goto changes the depth.

A `for` over an array or a string is a C loop like a `while`; one over a `range` tests its condition before the loop and then, from a flag
that says the first round is over, at the start of each later round; one over an `iterator` obtains the iterator, steps it and destroys it after the loop.
Where an iterator throws decides what happens: in `getIterator`, a null pointer; in `rewind`, `valid` or `move_forward`, the end of the loop with the exception pending; in `get_current_data`,
a return from inside `ZEPHIR_ITERATOR_COPY`. `held` counts the iterators obtained and not destroyed.

`MCStatementCompiler` builds families of bodies: `Compilable`, the shapes that are translated faithfully (with up to two statements in
each block and one level of nesting of compound statements), `Refused`, those the compilers reject, both in `Verified`, and small sets of bodies of the other shapes: `LastStatements`, for a run of its own, and `OtherTries`, `OtherSwitches`, `OtherIfs`, `OtherFors`, `Abandoned` and `Reentered`, which can be given to `Bodies` in `Statements.cfg`.
`Sheltered`, at the end of `StatementCompiler`, describes the bodies for which the proofs need no look at the code; `Standing` and `LastOnes` compute its two arguments.

### BuildPipeline, MCBuildPipeline, BuildPipelineProofs

`BuildPipeline` models `zephir generate`, `install`, `stubs`, `api`, `clean` and `fullclean` as processes that read and write files. A file is its content and, where
the code looks at it, its time in whole seconds: `zep` (sources), `js` and `jsphp` (the parse cache of `genIR`), `csrc` and `md5` (the C files and the
hashes of `getHashFile`), `m4`, `w32`, `sum`, `makefile` and `so`. `ir`, `todo`, `file` and `needConfigure` are the memory of
the running command and vanish with it (`Exit`). `wanted` is a history variable: what each source said when `genIR` looked at it.

The steps of a command are its writes, so that it can stop, and the user can act, between any two: `Parse` or `Reuse`, `WriteJs`, `WritePhp`; `WriteNew`, or `Compare` and
`Rewrite`; `WriteM4`, `WriteW32`, `WriteSum`; `Unconfigure`, `Configure`, `Make`. `Configure` may fail without anybody noticing, as the exit codes are ignored. The user edits, adds and
removes sources, and changes `extra-cflags`. `Stop` is a killed command, an exception (a parse error among them) or a failed make.
`stubs` stands for `api` too: both run `generate` as an install does, the storing of the sum included, and end before it is decided to configure; what they then print changes nothing the build looks at. `build` is an install; `compile` is one that stops after make and does not remove the old extension first, which no command reads.

Four constants name what is left out where the properties hold; in each case the code gets it wrong, as TLC shows when the constant is TRUE. `QuickEdits = FALSE`: no source is saved between its being read and stored, nor in the second in which it is stored. `CanRevert = FALSE`: no
source goes back to the content its C file or hash has. `StubsOfOthers = FALSE`: `stubs` and `api` run only where the stored sum is that of their sources or there is no Makefile. `CrashAnywhere = FALSE`: no command stops in the two places of `Exposed`, between a new `.js` and an older `.js.php`, and between
storing the sum and removing the Makefile. `MaxTime` and `MaxChanges` bound the clock and the user.

### Dependencies, MCDependencies, DependenciesProofs

`Dependencies` follows a hierarchy through the compiler to the moment PHP loads the extension. `rank` is `dependencyRank`; `stack` holds the running calls of
`calculateDependencies`, each a class and the parents its foreach has still to visit, and `roots` the classes the outer foreach has not begun with (`Begin`, `Visit`, `Return`). The ranks are
counted twice, in round 2 of `generate` and again, on top of the first counts and with the closures added, in `createProjectFiles`. `compiled` and `inits` are the order of round 3 and of the `ZEPHIR_INIT` calls in
`<project>.c`, interfaces first, each by decreasing rank (`Compile`, `Emit`; `krsort` may order files of one rank in any way); `anonymous` and `queue` are the classes of closures, which compiling a class
may add, and the copy of them that round 3.2 goes through. `Make` links, `Register` is the registration of a class entry under those of its parents, which another extension may provide.
`Overflow` stands for the C stack of PHP, which a cycle exhausts: `MaxDepth` is any depth greater than the number of local classes, so that a deep hierarchy alone never reaches it.
`NestedClosures = TRUE` lets the body of a closure create closures; TLC then finds `InitsDefined` violated, as the loop of round 3.2 runs over a copy.

### PHPClasses, DirectCalls, CallCaches, MCCallCaches, CallCachesProofs

`CallCaches` compiles the call sites of a program and then runs requests. The compiler's half is `SlotsCache` (`nextSlot`, `slotOf`), the caches a method remembers (`memo`: the callable it has a cache for,
and the site whose local holds it) and the pair of arguments each site gets (`code`): a local for an inline cache or NULL, a slot or 0. The actions are the returns of `FunctionCache::get` and `MethodCache::get`: `Unresolved`, `Memoized`, `MethodCache`, `FunctionCache`.
The kernel's half is `zephir_call_user_function`: `CallInline`, `CallSlot`, `CallTable` (which asks PHP when the table has nothing), `TooDeep`, and `ReturnToSite`, which stores what was found when the call returns, after all the calls it made.
`stack` is the C stack of activations, with the inline caches of each, since they are locals of the C function. `FromPHP`, `ReturnToPHP` and `Bailout` are PHP code: scripts and overriding methods that call methods of the extension, exit and fatal errors;
`StartRequest` is `PHP_RINIT_FUNCTION`. A function carries the number of the request that compiled it, since that of a PHP class dies with it.
`Method`, `Found` and `Key` are what PHP finds for a class and a scope, and the key of the table. `Monomorphic` says what the caches count on and do not check: an object has not overridden the method the compiler resolved, and the site in a cycle
finds an object of the class it found before. `Polymorphic = FALSE` restricts the calls to these. What PHP decides (`Method`, `Found`, `Receivers`) is in `PHPClasses`.
`DirectCalls` is what the caches are meant to be invisible to: the same sites, each of which asks PHP. Its state is the calls that run, each with its function and object; `ImplementsDirectCalls` is the refinement, which forgets everything of the frames but these two (`Shown`).

### VariableInit, MCVariableInit, VariableInitProofs, VariableValuesProofs

`VariableInit` compiles a method in one pass and then runs it along every path next to its source. `inits` is `variantInits`, `skips` `numberSkips`, `cycles` `insideCycle`; one action compiles one statement and prints its macros into `code`. The let statements are told apart by
what they assign: the value of an operator, a literal or an array (`initVariant`), a number of a C type (`initVariant` too; `"inlined"` is one `SkipVariantInit` does not count, a C variable or the result of a function that is replaced), the result of a call (`trackVariant`, and the macro looks at the zval), a property or an element (`observeVariant`), a variable (`ZEPHIR_CPY_WRT`); and by
whether `ReadDetector` finds the variable in what it is assigned, in which case a temporary receives the value (the `OfOwn` actions): a zval that is copied and uses up no skip, or, for a number, a C variable, after which the variable is initialised and does use one up (`LetNumberOfOwn`). Temporaries are those of `getTempVariableForWrite` and `getTempVariableForObserveOrNullify`, a pool for each block. `CompileIf` initialises
first what `SkipVariantInit` says every branch will (`Moved`), and tells the variables to skip the next two initialisations.
A `for` is made of the statements the compiler prints for it: the `for`, which evaluates what is traversed (a variable, an array or the result of a call in a temporary, an iterator) and counts its variable; a `while` whose first statements initialise the variables; and an `endfor` for
each, the initialisation after the loop. `Pool`, the blocks around a statement, tells which temporaries it shares with others; `traversed` is the array each loop goes through, which `ZEND_HASH_FOREACH` does not keep alive, and `TraversedHeld` says that a zval does.
At run time `InitVar`, `InitNVar`, `ObsVar`, `ObsNVar`, `Nullify` and `CpyWrt` are the macros of `memory.h`, `registered` counts how often a zval is in the frame, and `source` holds the values the variables have in the source; a call may
throw (`CallFails`). The value of a let is the number of its statement. This is the module that owes `ZephirMemory` its assumption `FirstUse`: `RegisteredOnce` says that the macros printed for a first use are.
`UnsetCopies = FALSE` excludes copying a variable that no statement on the path has assigned (the copy is registered and stays IS_UNDEF). The properties are proved of methods that `VariableInit` describes by what is in them:
- `ItemsCounted`: the variable of a loop over an iterator is counted before it; `ArraysKept`: a block does not assign the variable that is traversed;
- `Detected`: `ReadDetector` finds a variable in the expression that it is assigned;
- `MovedSafely`: what moves out of an if is assigned by the first statement of each branch that writes it, and nothing else in the first branch can use up a skip, a second let included, by whichever of its ways;
- `EmptiedUnread`: on every path, what an if or the end of a loop initialises is assigned before it is read.

`Verified`, of `MCVariableInit`, are the composed methods that satisfy all five; `EmptyAt` gives TLC the least of the sets that `EmptiedUnread` asks for. `Others` are the smallest methods outside, for which TLC finds `SameReads` violated (`Methods <- Others`) while no zval is registered twice. `OtherSkips` are the smallest ifs in which a second let of one branch uses up the skip of the other: its value is stored over the first (`ValuesOwned`). `OtherItems` are loops over iterators whose variable nothing has counted: a `let` after the loop registers it again (`RegisteredOnce`). `OtherFors` assign the variable they traverse: the compiler notices and passes
`duplicate`, which `zephir_is_iterable_ex` ignores, so that the array is freed under the loop (`TraversedHeld`).

## 3. The runs

| run | question | result |
|---|---|---|
| `memory` | are references counted right, are buffers large enough, does a callee leave its caller alone, and do linked frames behave as a stack of activations, through the end of the block, fatal errors and requests? | holds, 667449 states |
| `memory_try` | does the kernel's own check "already observed" hold in methods with a try block? | violated |
| `statements` | are 2549 bodies compiled or refused as they should, with the counters those of the open statements; does the code behave as the source, restore its frame once, release its iterators, hold those of the loops around each statement, and never spin? | holds, 107460 states |
| `statements_last` | is the frame restored when the last statement leaves the method on some paths only? | violated |
| `build` | does an install that ends well link what the sources said, after builds that stopped anywhere? | holds, 4697122 states |
| `build_stubs` | is the Makefile for the files of the extension when `zephir stubs` runs between two installs? | violated |
| `build_revert` | is a C file left alone only when it has not changed? | violated when a source is reverted |
| `build_flags` | does configure run whenever config.m4 changes? | violated |
| `dependencies` | are classes compiled, initialised and registered after their parents, for every hierarchy and every order of the files, and does the build end? | holds, all hierarchies of five definitions |
| `calls` | does every call run what PHP would find, through slots, tables and inline caches, nested calls, fatal errors and a second request, and are the calls those of code without caches? | holds, 369738 states |
| `calls_poly` | does it, on objects of any class a variable may hold? | violated |
| `variables` | is a first-use macro a first use on every path, is no value lost, is what is read what the source assigned, and does a loop keep what it goes through? | holds, 794962 states |

Bounds. `NumPreallocated = 2` with a heap frame reaches every branch of grow and restore: the first frame, a step
inside the block, the step out of it, and back; chains of heap frames are left to the theorems, which hold for any set of them. `FrameCapacity = 1` and `CapacityStep = 1` make every second
registration reallocate; a heap frame starts with no buffer as in the code. Two zvals give the pairs the restore
loop and `RETURN_CCTOR` can confuse; one refcounted value with `MaxRefs = 2` (the only cap, in the guard `Room`) tells one owner from
shared ownership, and freeing from decrementing. Zvals are symmetric. The run has no PHP reference; with one besides the other value and no heap frame (`HeapFrames <- NoHeapFrame`, `Values <- ValueAndReference`, `References <- OneReference`) it passes too, in 257194 states. The bodies of `statements` are all finite programs; loops run for ever if the tests say so, and
the state space is finite without a cap.
In `build` two sources and any initial sources with two changes (`MaxChanges = 2`) give adding, removing and editing one file while the other stays, before, between and during builds; two seconds (`MaxTime = 1`)
make every comparison of times come out both ways. A third version of a source is not reached there; it is in the runs that
look for violations, and the theorems hold for any number. Files, and the two values of `extra-cflags`, are symmetric. The steps of `build` never deadlock and are checked for it.

In `dependencies` two classes, two interfaces, a class of another extension and a closure give chains, diamonds and cycles through both kinds of edge; `MaxDepth = 5` is one more than the local classes. Interfaces can extend two, so a class can be
reached along several paths. In `calls` three sites in two methods of a class whose subclass, in PHP code, overrides one of them reach every return of the two caches; `MaxSlots = 3` leaves two slots for up to three callables, so that the last gets none; `MaxFrames = 3` and `MaxDepth = 2` let a
call return into a caller that has been called again meanwhile, and the recursion limit strike below and above other calls; `MaxLock = 3` leaves room for a fatal error and a shutdown function; `MaxRequests = 2` is one end of the globals' life. In `variables`
two variables, blocks of up to two statements, one block in another, a statement before and three after are enough for skips that are used by the branches, by a nested if, or left over; loops run as often as they like. The loops over arrays have one statement or a branch with `break` or `continue` in their block, another loop in it, or a branch around, and what follows assigns the variables they clear.

Fairness. `StatementCompiler` has the liveness property `Progress`: the compiler comes to the end of the method, and the code always gets from one event to the next. It assumes that
the compiler goes on (weak fairness of `Compile`: a PHP process that nothing stops) and so does the processor between two events (weak fairness of the steps that are not events), and nothing about the environment.
`Dependencies` has `Settles`: the build ends, loaded or crashed. It assumes weak fairness of `Next`, a PHP process that nothing stops. Deadlock
is checked in the memory, build and call runs; a method and a single build end, so the statement, variable and dependency runs do not check it.

What the violations show (each is a finding in `PROJECT.json`):
- `memory_try`: a call registers its result zval; if it throws, the zval stays IS_UNDEF; the code after the catch takes the zval for unused and
  registers it again. Without try blocks and without copies of unset zvals this cannot happen, which is theorem `ObservedOnceHolds`; with `UnsetCopies = TRUE` TLC finds it in three steps without a try block: the copy of an unset zval, then the next use of its target.
- `statements_last`: `hasChildReturnStatementType` looks only at the block of a statement that is not an if. The trace is of `while c { return }` at the end of a method: c is false at once, and the method ends with its frame still pushed.
  So does `try { throw ... }` (see testTry2 in `generated/ZendEngine_3/trytest.zep.c`), and an if with an elseif, at which it does not look either.
- `build_stubs`: install, add or remove a source, `zephir stubs`, install: `stubs` has stored the sum and the config files of the new sources, so that the second install finds nothing to configure and makes with the Makefile of the old ones.
- `build_revert`: edit, build, revert, build, and the extension has the reverted edit: the stored hash is that of the version before, because it is stored in the second in which the C file is rewritten.
- `build_flags`: `needConfigure` of config.m4 is overwritten by that of config.w32.
- `calls_poly`: the inline cache of a site in a loop is filled by the method of the first object and used for the next, of a class that overrides it; a method that calls itself has a slot, and keeps in it the override it met first.

Not shown by a run of its own, but excluded from `Verified`, are the other shapes that are not translated to what they mean. With `Bodies` set to the named set in `Statements.cfg`, TLC finds `SameAsSource` violated (and, where it says so, `RestoredOnce`):
- `OtherTries`: uncaught exceptions stay pending while the method goes on; the second of two catches reads a cleared exception; a catch naming two matching classes runs twice; after an inner try block, failures of the outer one jump to the inner label.
- `OtherSwitches`: clauses do not fall through. `OtherIfs`: the calls of elseif conditions run first, an empty elseif is dropped.
- `OtherFors`: after an iterator that throws, the method crashes on a null pointer, returns with its frame pushed (`RestoredOnce`) and past a catch around it, or goes on with the exception pending.

A `continue` in a do-while whose condition calls
a method skips that call; a switch whose default or last case has no statements runs the wrong block. A `return`, a `throw` or a failed
call inside a loop over an iterator leaves without `zend_iterator_dtor`: `IteratorsReleased` fails for each body of `Abandoned`, while `SameAsSource` and `RestoredOnce` hold for them. In a try block, a call that fails after a loop over
an iterator with a try block of its own jumps to the label of that block, back into the loop whose iterator has been destroyed: `SameAsSource` fails for the body of `Reentered`, and `HeldByLoops` for both sets.
A switch without clauses leaves `insideSwitch` one too high, so that a `break` after it is accepted that should not be, and C is printed that does not compile or leaves the wrong loop: no body of the run has one, and the theorems about
the counters name it (`SwitchesHaveClauses`).

## 4. The proofs

`ZephirMemoryProofs` proves, from the named assumptions of `ZephirMemory` on its constants and for every instance of them:

- `StructureHolds`: `StructureInvariant`, the inductive invariant of the frames. `FrameAsserts` alone is not inductive: that the frame about to
  be pushed is empty, or that a heap frame has a way back, depends on the links of all frames and on which frames are in use. The
  invariant adds the types, that the links inside the block never change (`BlockLinks`), that a heap frame and its predecessor point at each
  other and the active frame has no successor outside the block (`HeapLinks`), and that frames the stack has not reached hold no address
  (`UnusedEmpty`). One lemma per group of actions; popping a heap frame is the hard case.
- `FrameAssertsHold`, `AddressesFitHolds`: the kernel's assertions and the absence of overruns, as consequences.
- `ObservedOnceHolds`, for `CanCatch = FALSE` and `UnsetCopies = FALSE`: `ObservationInvariant` adds that in a method that is not leaving, a zval is IS_UNDEF exactly when
  it is not registered, except the result of the call that is pending.

The second half of `ZephirMemoryProofs` proves, for `CanCatch = FALSE` and `UnsetCopies = FALSE`, that references are counted right:

- `ReferencesCounted`: `ReferenceInvariant`, inductive. `NoPrematureFree` says that a value that is owned is not freed; that is kept only if each count is at least the number of owners. An owner is a
  zval that has not been released yet, so the invariant counts zvals by frame, leaves out those the restore loop has passed, and needs `ObservationInvariant` (a registered zval is released once, an unregistered one holds nothing), that
  what a method registered holds a value only while it runs (`ValuesObserved`), and that a method that waits for a call is not leaving (`WaitingRuns`).
- The argument: a macro or a turn of the loop moves one reference from one owner to another, or takes or drops one (`Passes`, `MoveCounts`); pushing, popping and the engine's steps keep the owners (`KeepsOwners`,
  `KeptCounts`), except that the end of a method forgets owners whose zvals are IS_UNDEF and a fatal error forgets owners without dropping their references, which leaks and never frees.
- Each count is at least the number of owners, and equal to it unless the value is a PHP reference or there was a fatal error (`AllOwned`): a reference that `ZEPHIR_INIT_NVAR` leaks is an owner less and changes no other count.
- `TypeCorrect`, `NoPrematureFreeHolds`, `NoLeakHolds` follow.

`ActivationStackProofs` proves what makes the frames a stack:

- `StackHolds`: `StackInvariant`, inductive. It says that the frames of the live methods, put in a row, link each to the one before it by `prev`, the last being `active` (`IsChain`); that
  these and, until a fatal error, no others are in use (`LiveInUse`); and that the frame below a live method's is in use too (`PrevInUse`), so that a frame is never pushed under the outermost method. A fatal error leaves frames in use that no
  method owns, and methods that run afterwards are chained on top of those: that is why the chain ends at the first frame that is not live, not at NULL. One lemma says what the four ways of growing the stack have in common (`GrowPushes`), one what popping does (`PopPops`), and every other step keeps the links.
- `BalancedStackHolds`: with no method left nothing is in use, so that nothing is pushed, allocated or registered. `CallerUndisturbedHolds`, an action property: every step of a method writes the frame it owns, but for the zval that waits for its result; a new method gets a frame of its own.
  Both hold with try blocks as well.
- `FramesImplementStack`, for `CanCatch = FALSE` and `UnsetCopies = FALSE`: `ZephirMemory` implements `ActivationStack`. `UpToChain` shows that following `prev` finds the activations of the chain in order (the induction is that a smallest counterexample does not exist, `Smallest`); then growing appends an activation, popping drops the last, and a macro, a turn of the restore loop
  or the start of leaving replaces the last (`TopChanges`). That a turn of the loop releases a zval the activation still owns needs `ObservedOnce`.

`BuildPipelineProofs` proves, for a user and crashes that are `Careful` (the four constants FALSE), `BuildTypeCorrect`, `BuildCurrentHolds`, `OutputWrittenHolds` and `ConfiguredForFilesHolds`. None is inductive: a build
uses what builds before it left. `BuildInvariant` says what the files mean between builds. A `.js` not older than its source has its content (`JsCurrent`), because an edit comes in a later second. The `.js.php` has the content of the `.js`
(`PhpFollows`). A stored hash may be that of an older version; then it is not the hash of the source or of anything the command has parsed (`HashHarmless`, `EditsNew`), so comparing with it never keeps a C file
from being written. The Makefile is for the files of the stored sum (`MakefileFollowsSum`), which is where `StubsOfOthers = FALSE` is used: `stubs` and `api` store a sum and do not configure. There is one lemma for each group of steps (user, parsing, compiling, the rest) and each part of the invariant.

`DependenciesProofs` proves `TypeCorrect`, `ParentsCompiledFirst`, `ParentsInitializedFirst`, `ExtensionLoads`, `ClosuresDefined` (for `NestedClosures = FALSE`) and `CrashesOnCycles`, for every hierarchy. That parents come first is not
inductive: the sorts only see ranks. Each time a class is ranked each of its parents is about to be, so the rank of a parent is at least that of its child and the visits still due to it balance the rest (`RanksBalance`); when the recursion is over, a root has added
one to the parents and nothing to itself, and the ranks fall strictly along every edge. Counting again, closures included, keeps that. `CrashesOnCycles` shows that a stack of full depth holds some class twice (the pigeonhole principle), so that the classes between are their own ancestors; and that with
such classes the recursion never comes back to the outer foreach, so that nothing is compiled.

`CallCachesProofs` proves `TypeCorrect`, `LockCounts` and `SlotsAreDistinct` for every program, hierarchy, number of slots and depth, with objects of any class, and `RightFunctionCalled` for `Polymorphic = FALSE`. The invariant, `CacheInv`, says of each place a function
can be remembered in what is in it: a slot has the method the compiler resolved (`SlotsRight`), the table what PHP finds for its key (`TableRight`), an inline cache the callable of the sites that share it, or, for a site of its own, what PHP finds for the object its variable
holds (`InlinesRight`), and a running call's key and function agree, whatever was stored since it began (`FramesRight`). `LockInv` is stronger than `LockIsDepth`: after a fatal error the lock is at least the running calls, which is what keeps the unsigned counter from passing below zero.
`CallsImplementDirectCalls` is the refinement of `DirectCalls`, for `Polymorphic = FALSE`: compiling is a stutter, a call by whichever cache is `FromSite` because `CacheInv` holds after it, and a return stores functions and changes no call below it.

`VariableInitProofs` proves, for `UnsetCopies = FALSE`, `TypeCorrect` and `RegisteredOnceHolds`, for every set of methods with properly nested blocks that are `ItemsCounted`. `RegisteredOnce` speaks of the run, and what makes it true was decided by the compiler: `CodeInv` says that at most
one macro for a first use is printed for each zval, that it comes before all others that use it and is in no loop, which follows from `CountersInv` (`insideCycle` is the number of the open loops, and a zval whose count is zero appears in no macro yet). `RunInv` carries it through the
run: outside loops the run only goes forward, so what is registered has its first use behind it; and a zval that is registered and IS_UNDEF is about to receive a value, or the method is over, so that no later macro takes it for an unused one.

`VariableValuesProofs` says what the zvals hold. `TraversedHolds`, for methods that are `ArraysKept`: `TouchInv` says which zvals the code of a statement may write (`Touched`): its variable, the temporaries of its own block, and for an if what its branches assign. None of them is what a loop around the
statement goes through (`NotTouched`), because the block of the loop has a pool of its own. `HeldInv`, that the zval still has the array while the run is inside the loop, is then kept by every macro; and it need not be kept by jumps, as a loop is entered by its `for` only (`EnteredByFor`), for which the blocks must be
properly nested: no if, break or continue of an outer block ends inside the loop.

`SameReadsHolds`, for methods that are `Detected` and `EmptiedUnread`. `FaithfulInv` is about the compiler: the code of a statement reads its operands before it touches them, and a let ends with a macro that gives its variable the value of the let, or of a temporary that it loaded, and
with nothing that touches the variable after it (`ReadFirst`, `AssignedBy`). `ReadsInv` is about the run: what the statement has not touched yet is what the source has (`SourceKept`), a let whose assignment is done has the value it means (`LetDone`), and a temporary that was loaded has the value until it is touched
(`StoredThere`). An if and the end of a loop empty zvals which the source keeps; `SourceKept` leaves them out, at the statements of `EmptiedAt`, which `EmptiedUnread` provides: none of these reads the variable, and a let of it leaves the set.

`ValuesOwnedHolds`, for methods that are `MovedSafely`. A let whose initialisation is skipped stores without having prepared its variable, and is right only because an if has done it; but the compiler just counts two skips down, and which lets use them is not recorded anywhere. `SkipsInv` says it: two skips left
are for the let in the first branch and one is for that in the second, and compiling has not passed it. So what a statement stores it has prepared, or it is one of those lets (`PreparedInv`). In the run, what a statement has prepared is in the frame and has no value (`PreparedNow`), and what waits for such a let is
null from the if on (`WaitingNull`). That a let of a number uses up a skip although it reads its own variable is one of the cases (`LetNumberOfOwn`). The last is the hard one: no jump may come into a branch but from its if or its else (`FirstEntered`), whatever loops are around or before the let.

Both use what `RegisteredOnceHolds` proved, `IInv`. They are stated for `UnsetCopies = FALSE` and methods that are `ItemsCounted`, like it.

`StatementCompilerProofs` proves what the statement compilers print, by induction over their steps instead of over bodies: for all sets of statements and bodies with the shape of `StatementsAssumption`, every meaning and every class of exceptions.

- `MethodHolds`: `MethodInv`, inductive. While a method is compiled it is `CodeInv`. In the code so far every jump that is resolved stays at the depth of its loop and lands on a statement that is not a return, and a test is followed by the statement that is run when it fails
  (`WellFormed`, `Paired`). The jumps that are `Pending` each have an owner among the open statements, one that resolves them, with no loop over an iterator open between the two (`Stack`: `Placed`, `Levels`, `Owners`); the end of the code is at the depth of the innermost loop (`AtLevel`); what is left of the work
  has the shape of the parts (`Typed`); labels are those of the try blocks met so far, and each goto goes to one that exists or belongs to a block that is open (`Sends`, `Labels`). One lemma for each kind of piece that is appended and each way a statement is closed; a range loop, which jumps forward into its own
  condition, and a catch with several classes are the hard ones. When the method is finished the code is `Sound`.
- While the code runs, `RunInv`: until it restores its frame the method is at a statement that is not a return, with the iterators of the loops around it (`OnItsWay`); after that it holds none and is about to return, or at its end (`Leaving`).
- `TypeCorrect` (every jump lands in the method, no iterator is destroyed that was not obtained), `HeldByLoopsHolds`, `RestoredOnceHolds` and `IteratorsReleasedHolds` follow, under `RunsKept`: the code of the method is `Kept`. That is a condition on code, not on its runs. A body whose last statement leaves on some
  paths only, or that leaves a loop over an iterator by a return, a throw or a failed call, has code that is not `Kept`, and the properties are false of it (`statements_last`, `Abandoned`). TLC evaluates it for each body of the run, as the first conjunct of `HeldByLoops`.
- `KeptHolds`: the code of a body that is `Sheltered` is `Kept`; with it `ShelteredTypes`, `ShelteredLoops`, `ShelteredRestores` and `ShelteredReleases` state the same four properties with a hypothesis on the body alone. `Sheltered(at, last)` (in `StatementCompiler`) takes a set `at[x]` of statements for each place `x`: is a loop over an
  iterator around, and does what fails leave the method, reach a try block at its own depth, or stray to one at another; and a set `last` of statements after which nothing is reached. It asks that each statement may be where it is (`Stand`: no return in a loop over an iterator, nothing that fails there but in a try block of the same depth,
  no iterator whose `current` throws), and that a body for which `hasChildReturnStatementType` leaves out the restore ends in one of `last`. It is not the weakest such condition. A place computed from the tree would need an induction over it; sets that are given need none.
  The invariants are `PlaceInv`, which has a place for every open statement (`Housed`: its depth, the try blocks around it, and that the last try block met is the innermost whenever something may fail, since `currentTryCatch` is never counted down) and a depth for the end of each try block (`Guarded`), and `LeaveInv`: down to some open statement each is the last of its
  block and an if all of whose branches leave, nothing that a branch or the if resolves at its end is pending, and there is code to come that leaves, or the end of the code is not reached (`Stops`). `MCStatementCompiler` computes `Standing` and `LastOnes` from the bodies, and its assumption `VerifiedSheltered` has TLC evaluate the hypothesis for all of `Verified`.
- `CountersMatchHolds`, `BreaksInsideHolds`: the counters are those of the open loops, switches and try blocks; and therefore no break or continue that the compilers accept stays without a statement to leave. The hypothesis `SwitchesHaveClauses` excludes the switch that forgets to count itself down. These need no `RunsKept`.

Model-checked only, of the compiled methods: `SameAsSource`, since a proof would have to relate the stack of `ZepSource` to places in the code for every statement of every body, an induction over the data. Liveness (`Progress`, `Settles`) is outside what the prover handles. Neither proved nor checked: what a method with a
try block releases; `ObservedOnce` is false there (`memory_try`).

## 5. Not modelled

Virtual symbol tables and hash-key zvals (no code of the kernel fills them); the macros that make or unmake PHP references for the arguments of a call (`ZEPHIR_MAKE_REF`, `ZEPHIR_UNREF`) and `ZEPHIR_OBS_COPY_OR_DUP`, with which a method takes its parameters before its first statement (as `ObsVar` does); the messages of the debug build; the catch variable, which is
written without being registered; `let` and the statements that only add expression code; the order in which the parser attaches elseif
clauses to an if with an empty block. Of the build: the check of the kernel files, `project.c`, headers, external dependencies, what `stubs` and `api` print, the directory of the compiler's version, Windows, and writes that are cut off
in the middle of a file. Of the order of classes: what a class takes from its parents while it is compiled. Of calls: those of parent, self and static, callables in variables, `__call`, the cache of class entries, several declared classes of one variable, and
sites whose call fails, which change no cache. Of variables: typed, static and global ones, the compound operators of `let` (`let a += n` initialises its variable before reading it, like a read that is not detected), variables the passes make local to the C function, properties that are borrowed instead of counted (`setMemoryTracked`), elseif clauses with statements, what `switch` and `try` initialise, loops over strings, the bounds of a range and the keys of an iterator.
The parser and its scanner are tables generated from a grammar, and make more than a quarter of the source; expressions, operators and optimizers are hundreds of independent translations of one expression, without a state; the older kernel
and the generated extension repeat what is modelled from the sources they come from. The components without a module are listed in `PROJECT.json` with the reason.

## 6. Plan

Done: the frames with their abstract stack, structure and reference proofs; the statement compilers, from the tree of a body to the runs of its code; the build, the order of classes, the call caches and the initialisation of variables, each with its proofs.

1. `VariableInit`: elseif clauses with statements, `switch`, borrowed properties, try blocks; the composition with `ZephirMemory`, where `FirstUse` would become a consequence of `RegisteredOnce` instead of an assumption that the two modules share.
2. The catch variable in `ZephirMemory`; several methods of one class in `StatementCompiler`, so that the `insideSwitch` a switch without clauses leaves behind reaches the next method.
3. `CallCaches`: static calls and the cache of class entries, calls that fail, the scopes set around a call.
4. The passes (`StaticTypeInference`, `CallGathererPass`; `LoopBreakPass` is in `StatementCompiler`) as operators against reference definitions.
5. Proofs: what remains true of references with try blocks; that `Sheltered` bodies run like their source, which needs an invariant between the stack of `ZepSource` and the code.
