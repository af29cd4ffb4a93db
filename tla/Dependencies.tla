---------------------------- MODULE Dependencies ----------------------------
(***************************************************************************)
(* The order in which the classes of an extension are compiled and         *)
(* initialised (Library/Compiler.php: generate, calculateDependencies and  *)
(* createProjectFiles).  calculateDependencies adds one to the rank of a   *)
(* class each time it is reached along extends and implements, by a        *)
(* recursion that remembers nothing; the files are compiled by decreasing  *)
(* rank, and the ranks, counted once more, order the ZEPHIR_INIT calls of  *)
(* <project>.c.  Those run in PHP_MINIT_FUNCTION when PHP loads the        *)
(* extension, each registering its class entry under those of its parents. *)
(*                                                                         *)
(* A class is its name.  The parents of a class are a set, the order in    *)
(* which a foreach visits them is any order, and so is the order of files  *)
(* of one rank.                                                            *)
(***************************************************************************)
EXTENDS Naturals, Sequences, FiniteSets

CONSTANTS
  Classes,        \* the classes of the .zep files
  Interfaces,     \* the interfaces of the .zep files
  External,       \* those of either that another extension, or PHP, provides
  Closures,       \* the classes a method can be given for its closures
  NestedClosures, \* TRUE: the body of a closure may create a closure
  MaxDepth        \* bound: the recursion PHP has stack for

Definitions == Classes \cup Interfaces
Local == Definitions \ External

ASSUME KindsAssumption ==
  /\ External \subseteq Definitions
  /\ Classes \cap Interfaces = {} /\ Closures \cap Definitions = {}
ASSUME FiniteAssumption == IsFiniteSet(Definitions) /\ IsFiniteSet(Closures)
ASSUME DepthAssumption == MaxDepth \in Nat /\ MaxDepth > Cardinality(Local)

VARIABLES
  extends,        \* the class each class extends, in a set
  implements,     \* the interfaces each class implements or interface extends
  rank,           \* its dependencyRank
  roots,          \* the classes calculateDependencies has not begun with
  stack,          \* its running calls: the class, and the parents to come
  compiled,       \* the classes compiled to C, in that order
  anonymous,      \* anonymousFiles, the closures created so far
  queue,          \* those of them round 3.2 will still compile
  inits,          \* the ZEPHIR_INIT calls of <project>.c
  entries,        \* the class entries PHP has registered, in that order
  pc              \* how far the build and the load of the extension are

vars == <<extends, implements, rank, roots, stack, compiled, anonymous, queue,
          inits, entries, pc>>
hierarchy == <<extends, implements>>
ranking == <<rank, roots, stack>>
output == <<compiled, anonymous, queue, inits, entries>>

Ranking == {"rank", "rank again"}
Frame == [class : Definitions \cup Closures, todo : SUBSET Definitions]
Last(s) == s[Len(s)]
Listed(s) == {s[i] : i \in 1..Len(s)}

\* getDependencies: a class extends a class and implements interfaces, an
\* interface extends interfaces; what is not local is not in the tree.
Parents(c) ==
  IF c \in Local \cap Classes THEN extends[c] \cup implements[c]
  ELSE IF c \in Local THEN implements[c]
  ELSE {}

Init ==
  /\ extends \in [Local \cap Classes -> {{}} \cup {{c} : c \in Classes}]
  /\ implements \in [Local -> SUBSET Interfaces]
  /\ rank = [c \in Definitions \cup Closures |-> 0]
  /\ roots = Local /\ stack = <<>>
  /\ compiled = <<>> /\ anonymous = {} /\ queue = {}
  /\ inits = <<>> /\ entries = <<>>
  /\ pc = "rank"

-----------------------------------------------------------------------------
(* calculateDependencies.                                                  *)

\* The outer foreach comes to a class of the tree.
Begin(c) ==
  /\ pc \in Ranking /\ stack = <<>> /\ c \in roots
  /\ roots' = roots \ {c}
  /\ stack' = <<[class |-> c, todo |-> Parents(c)]>>
  /\ UNCHANGED <<rank, output, hierarchy, pc>>

\* Mutants of Visit: no recursion, a recursion that remembers where it has
\* been, and a rank that falls.
Visiting(d, change, next) ==
  /\ pc \in Ranking /\ Len(stack) \in 1..(MaxDepth - 1) /\ d \in Last(stack).todo
  /\ rank' = [rank EXCEPT ![d] = @ + change]
  /\ stack' = Append([stack EXCEPT ![Len(stack)].todo = @ \ {d}],
                     [class |-> d, todo |-> next])
  /\ UNCHANGED <<roots, output, hierarchy, pc>>
VisitDirect(d) == Visiting(d, 1, {})
VisitOnce(d) == Visiting(d, 1, IF rank[d] = 0 THEN Parents(d) ELSE {})
VisitLowers(d) == Visiting(d, 0 - 1, Parents(d))

\* A foreach comes to a dependency, ranks it and recurses.
Visit(d) ==
  /\ pc \in Ranking /\ Len(stack) \in 1..(MaxDepth - 1) /\ d \in Last(stack).todo
  /\ rank' = [rank EXCEPT ![d] = @ + 1]
  /\ stack' = Append([stack EXCEPT ![Len(stack)].todo = @ \ {d}],
                     [class |-> d, todo |-> Parents(d)])
  /\ UNCHANGED <<roots, output, hierarchy, pc>>

\* Mutant of Return: the outer foreach never gets control back.
ReturnInner ==
  /\ pc \in Ranking /\ Len(stack) > 1 /\ Last(stack).todo = {}
  /\ stack' = SubSeq(stack, 1, Len(stack) - 1)
  /\ UNCHANGED <<rank, roots, output, hierarchy, pc>>

\* A foreach is over.
Return ==
  /\ pc \in Ranking /\ stack # <<>> /\ Last(stack).todo = {}
  /\ stack' = SubSeq(stack, 1, Len(stack) - 1)
  /\ UNCHANGED <<rank, roots, output, hierarchy, pc>>

\* PHP itself runs out of stack.
Overflow ==
  /\ pc \in Ranking /\ Len(stack) = MaxDepth /\ Last(stack).todo # {}
  /\ pc' = "crashed"
  /\ UNCHANGED <<ranking, output, hierarchy>>

EndRanking ==
  /\ pc \in Ranking /\ stack = <<>> /\ roots = {}
  /\ pc' = IF pc = "rank" THEN "compile" ELSE "project"
  /\ UNCHANGED <<ranking, output, hierarchy>>

-----------------------------------------------------------------------------
(* Round 3 of generate: the files, krsort-ed by rank, then the closures.   *)

\* Mutant of HighestRank: ksort.
LowestRank(c, left) == \A d \in left : rank[c] <= rank[d]

HighestRank(c, left) == \A d \in left : rank[d] <= rank[c]

Compile(c) ==
  /\ pc = "compile" /\ c \in Local \ Listed(compiled)
  /\ HighestRank(c, Local \ Listed(compiled))
  /\ compiled' = Append(compiled, c)
  /\ \E new \in SUBSET (Closures \ anonymous) : anonymous' = anonymous \cup new
  /\ UNCHANGED <<ranking, hierarchy, queue, inits, entries, pc>>

\* Mutant of EndCompile: round 3.2 comes before round 3.
EndCompileAlone ==
  /\ pc = "compile" /\ Local \subseteq Listed(compiled)
  /\ pc' = "closures" /\ queue' = {}
  /\ UNCHANGED <<ranking, hierarchy, compiled, anonymous, inits, entries>>

\* foreach takes a copy of anonymousFiles.
EndCompile ==
  /\ pc = "compile" /\ Local \subseteq Listed(compiled)
  /\ pc' = "closures" /\ queue' = anonymous
  /\ UNCHANGED <<ranking, hierarchy, compiled, anonymous, inits, entries>>

CompileClosure(c) ==
  /\ pc = "closures" /\ c \in queue
  /\ queue' = queue \ {c} /\ compiled' = Append(compiled, c)
  /\ \E new \in SUBSET (Closures \ anonymous) :
       (~NestedClosures => new = {}) /\ anonymous' = anonymous \cup new
  /\ UNCHANGED <<ranking, hierarchy, inits, entries, pc>>

\* createProjectFiles begins: its files are merged with the anonymous ones.
EndClosures ==
  /\ pc = "closures" /\ queue = {}
  /\ pc' = "rank again" /\ roots' = Local \cup anonymous
  /\ UNCHANGED <<rank, stack, output, hierarchy>>

-----------------------------------------------------------------------------
(* Round 2 of createProjectFiles, make, and PHP_MINIT_FUNCTION.            *)

\* The interfaces, then the classes, each krsort-ed by rank.
InitsLeft(left) == IF left \cap Interfaces # {} THEN left \cap Interfaces ELSE left

Emit(c) ==
  /\ pc = "project"
  /\ LET left == InitsLeft((Local \cup anonymous) \ Listed(inits))
     IN  c \in left /\ HighestRank(c, left)
  /\ inits' = Append(inits, c)
  /\ UNCHANGED <<ranking, hierarchy, compiled, anonymous, queue, entries, pc>>

\* The makefile compiles the files of round 3; ZEPHIR_INIT calls a function of
\* the class it is for.
Make ==
  /\ pc = "project" /\ Local \cup anonymous \subseteq Listed(inits)
  /\ pc' = IF Listed(inits) \subseteq Listed(compiled) THEN "load" ELSE "undefined"
  /\ UNCHANGED <<ranking, output, hierarchy>>

\* Mutant of Register: the other extension is loaded after this one.
RegisterAlone ==
  /\ pc = "load" /\ Len(entries) < Len(inits)
  /\ LET c == inits[Len(entries) + 1]
     IN  IF Parents(c) \subseteq Listed(entries)
         THEN entries' = Append(entries, c) /\ UNCHANGED pc
         ELSE pc' = "failed" /\ UNCHANGED entries
  /\ UNCHANGED <<ranking, hierarchy, compiled, anonymous, queue, inits>>

\* ZEPHIR_REGISTER_CLASS_EX refuses a parent with no class entry.
Register ==
  /\ pc = "load" /\ Len(entries) < Len(inits)
  /\ LET c == inits[Len(entries) + 1]
     IN  IF Parents(c) \subseteq External \cup Listed(entries)
         THEN entries' = Append(entries, c) /\ UNCHANGED pc
         ELSE pc' = "failed" /\ UNCHANGED entries
  /\ UNCHANGED <<ranking, hierarchy, compiled, anonymous, queue, inits>>

EndLoad ==
  /\ pc = "load" /\ Len(entries) = Len(inits)
  /\ pc' = "loaded"
  /\ UNCHANGED <<ranking, output, hierarchy>>

Next ==
  \/ \E c \in Definitions \cup Closures :
       Begin(c) \/ Visit(c) \/ Compile(c) \/ CompileClosure(c) \/ Emit(c)
  \/ Return \/ Overflow \/ EndRanking \/ EndCompile \/ EndClosures
  \/ Make \/ Register \/ EndLoad

Spec == Init /\ [][Next]_vars

\* zephir build, with nothing to stop it.
FairSpec == Spec /\ WF_vars(Next)

-----------------------------------------------------------------------------
TypeOK ==
  /\ extends \in [Local \cap Classes -> SUBSET Classes]
  /\ implements \in [Local -> SUBSET Interfaces]
  /\ rank \in [Definitions \cup Closures -> Nat]
  /\ roots \subseteq Local \cup Closures
  /\ stack \in Seq(Frame)
  /\ compiled \in Seq(Local \cup Closures) /\ inits \in Seq(Local \cup Closures)
  /\ anonymous \subseteq Closures /\ queue \subseteq Closures
  /\ entries \in Seq(Local \cup Closures)
  /\ pc \in Ranking \cup {"compile", "closures", "project", "load", "loaded",
                          "failed", "undefined", "crashed"}

\* In s no class comes before a local parent of it.
ParentsFirst(s) ==
  \A i \in 1..Len(s) : Parents(s[i]) \cap Local \subseteq {s[j] : j \in 1..(i - 1)}

\* "Make sure the dependencies are loaded first (recursively)": a class is
\* compiled when its parents have been, whose methods it looks at.
CompiledAfterParents == ParentsFirst(compiled)

\* "Classes with higher rank, need to be initialized first": when <project>.c
\* initialises a class it has initialised its parents, and interfaces before
\* classes, as the two lists of createProjectFiles are joined.
InitializedAfterParents == ParentsFirst(inits)

\* An extension that was built is loaded: no class entry is registered under a
\* null parent, and the extension gets every class of its files.
LoadsWhole ==
  /\ pc # "failed"
  /\ pc = "loaded" => Local \cup anonymous = Listed(entries)

\* What <project>.c initialises was compiled, the classes of closures too.
InitsDefined == pc # "undefined"

\* No class of S can be initialised before all the others.
Cyclic(S) == S # {} /\ \A c \in S : Parents(c) \cap S # {}
Acyclic == \A S \in SUBSET Local : ~Cyclic(S)

\* Classes that are their own ancestors are never compiled, and no other makes
\* the recursion too deep.
OnlyCyclesCrash ==
  IF Acyclic THEN pc # "crashed" ELSE pc \in {"rank", "crashed"}

\* The recursion of calculateDependencies ends, and the build with it.
Settles == <>(pc \in {"loaded", "undefined", "failed", "crashed"})
=============================================================================
