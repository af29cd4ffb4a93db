---------------------------- MODULE DirectCalls ----------------------------
(***************************************************************************)
(* What the calls of compiled code promise: each asks PHP for the method   *)
(* or function it names, in the request that runs and for the class of the *)
(* object it is made on, and that one runs, above the one that called, and *)
(* until it returns or the script is left.  There are no caches here.      *)
(***************************************************************************)
EXTENDS PHPClasses, Naturals, Sequences

CONSTANTS
  Extension,      \* the classes the compiler compiles; PHP code has others
  Programs        \* the programs, each the sequence of its call sites

VARIABLES
  program,        \* the sites of the extension
  request,        \* the number of the request, 0 before the first
  calls           \* the methods and functions that run, the innermost last

direct == <<program, request, calls>>

Running == calls[Len(calls)]

\* A function is one of the request in which PHP has compiled it.
Runs(m, c) ==
  calls' = Append(calls, [runs |-> [callable |-> m, of |-> request], this |-> c])

Begin ==
  /\ calls = <<>>
  /\ request' = request + 1
  /\ UNCHANGED <<program, calls>>

\* PHP code calls a method of the extension.
FromOutside(c, n) ==
  /\ request > 0
  /\ calls # <<>> => Running.runs.callable[1] \notin Extension
  /\ Has(c, n) /\ Table[c][n] \notin Private /\ Table[c][n][1] \in Extension
  /\ Runs(Table[c][n], c)
  /\ UNCHANGED <<program, request>>

\* The site s of the method that runs calls what it names on an object of c.
FromSite(s, c) ==
  /\ calls # <<>> /\ Running.runs.callable = s.in
  /\ c \in Receivers(s, Running.this) /\ Found(s.in[1], c, s.name)
  /\ Runs(Method(s.in[1], c, s.name), c)
  /\ UNCHANGED <<program, request>>

Return ==
  /\ calls # <<>>
  /\ calls' = SubSeq(calls, 1, Len(calls) - 1)
  /\ UNCHANGED <<program, request>>

\* exit or a fatal error, of PHP code or of a recursion that is too deep.
Abandon ==
  /\ calls # <<>> /\ calls' = <<>>
  /\ UNCHANGED <<program, request>>

DirectInit == program \in Programs /\ request = 0 /\ calls = <<>>

DirectNext ==
  \/ Begin \/ Return \/ Abandon
  \/ \E c \in Classes : \E n \in DOMAIN Table[c] : FromOutside(c, n)
  \/ \E i \in 1..Len(program) : \E c \in Classes \cup {NoClass} : FromSite(program[i], c)

DirectSpec == DirectInit /\ [][DirectNext]_direct
=============================================================================
