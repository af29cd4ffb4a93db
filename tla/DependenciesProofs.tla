------------------------- MODULE DependenciesProofs -------------------------
(***************************************************************************)
(* Dependencies for every set of classes and hierarchy: the ranks order    *)
(* compilation and initialisation as the parents of classes demand, so     *)
(* that the extension loads, and the recursion is too deep exactly for     *)
(* classes that are their own ancestors.                                   *)
(*                                                                         *)
(* Nothing in the program says that a parent outranks its children; what   *)
(* is inductive is a balance (RanksBalance): rank[d] is behind rank[c] by  *)
(* no more than the number of calls for c that still have d to visit.      *)
(***************************************************************************)
EXTENDS Dependencies, TLAPS, FiniteSetTheorems, SequenceTheorems

All == Definitions \cup Closures

\* What the sets of the constants have to do with each other.
LEMMA Kinds ==
  /\ Local \subseteq Definitions /\ Definitions \subseteq Local \cup External
  /\ External \subseteq Definitions /\ Closures \cap Definitions = {}
  /\ Interfaces \subseteq Definitions /\ Classes \subseteq Definitions
  /\ Definitions \subseteq Classes \cup Interfaces
  BY KindsAssumption DEF Definitions, Local

\* What Parents returns.
LEMMA ParentsFact ==
  ASSUME TypeOK
  PROVE  /\ \A c \in All : Parents(c) \in SUBSET Definitions
         /\ \A c \in All \ Local : Parents(c) = {}
         /\ \A c \in Interfaces : Parents(c) \subseteq Interfaces
  BY Kinds, KindsAssumption DEF TypeOK, Parents, Local, All

-----------------------------------------------------------------------------
(* Sequences.                                                              *)

\* A sequence with one more element.
LEMMA Appended ==
  ASSUME NEW S, NEW s \in Seq(S), NEW x \in S
  PROVE  /\ Append(s, x) \in Seq(S) /\ Len(Append(s, x)) = Len(s) + 1
         /\ \A n \in 1..Len(s) : Append(s, x)[n] = s[n]
         /\ Append(s, x)[Len(s) + 1] = x
         /\ Listed(Append(s, x)) = Listed(s) \cup {x}
  <1>1. /\ Append(s, x) \in Seq(S) /\ Len(Append(s, x)) = Len(s) + 1
        /\ \A n \in 1..Len(s) : Append(s, x)[n] = s[n]
        /\ Append(s, x)[Len(s) + 1] = x /\ Len(s) \in Nat
    OBVIOUS
  <1>2. ASSUME NEW y \in Listed(Append(s, x)) PROVE y \in Listed(s) \cup {x}
    BY <1>1 DEF Listed
  <1>3. ASSUME NEW y \in Listed(s) PROVE y \in Listed(Append(s, x))
    <2>1. PICK n \in 1..Len(s) : y = s[n]
      BY DEF Listed
    <2>2. n \in 1..Len(Append(s, x)) /\ y = Append(s, x)[n]
      BY <1>1, <2>1
    <2> QED BY <2>2 DEF Listed
  <1>4. x \in Listed(Append(s, x))
    <2>1. Len(s) + 1 \in 1..Len(Append(s, x))
      BY <1>1
    <2> QED BY <1>1, <2>1 DEF Listed
  <1> QED BY <1>1, <1>2, <1>3, <1>4

\* A sequence of one element.
LEMMA Single ==
  ASSUME NEW S, NEW x \in S
  PROVE  <<x>> \in Seq(S) /\ Len(<<x>>) = 1 /\ <<x>>[1] = x
  OBVIOUS

\* The stack after a call: the caller has one parent less to visit.
LEMMA Called ==
  ASSUME TypeOK, NEW d \in All, Visit(d)
  PROVE  /\ Len(stack) \in Nat \ {0} /\ stack' \in Seq(Frame)
         /\ Len(stack') = Len(stack) + 1
         /\ \A n \in 1..(Len(stack) - 1) : stack'[n] = stack[n]
         /\ stack'[Len(stack)].class = stack[Len(stack)].class
         /\ stack'[Len(stack)].todo = stack[Len(stack)].todo \ {d}
         /\ stack'[Len(stack) + 1].class = d
         /\ stack'[Len(stack) + 1].todo = Parents(d)
         /\ d \in stack[Len(stack)].todo
  <1> DEFINE n0 == Len(stack)
             less == [stack[n0] EXCEPT !.todo = @ \ {d}]
             caller == [stack EXCEPT ![n0] = less]
             callee == [class |-> d, todo |-> Parents(d)]
  <1>1. n0 \in Nat \ {0} /\ stack \in Seq(Frame) /\ d \in stack[n0].todo
        /\ stack' = Append(caller, callee) /\ n0 \in 1..Len(stack)
    BY DEF Visit, TypeOK, Last
  <1>2. callee \in Frame
    BY ParentsFact DEF Frame, All
  <1>3. stack[n0] \in Frame
    BY <1>1
  <1>. less \in Frame
    BY <1>3 DEF Frame
  <1> HIDE DEF less
  <1>4. caller \in Seq(Frame) /\ Len(caller) = n0
        /\ caller[n0] = less
        /\ \A n \in 1..(n0 - 1) : caller[n] = stack[n]
    BY <1>1, ExceptSeq
  <1> HIDE DEF caller, callee, n0
  <1>5. /\ stack' \in Seq(Frame) /\ Len(stack') = n0 + 1
        /\ \A n \in 1..n0 : stack'[n] = caller[n]
        /\ stack'[n0 + 1] = callee
    BY <1>1, <1>2, <1>4, Appended
  <1>6. stack'[n0] = less
        /\ \A n \in 1..(n0 - 1) : stack'[n] = stack[n]
    BY <1>1, <1>4, <1>5
  <1>7. stack'[n0].class = stack[n0].class /\ stack'[n0].todo = stack[n0].todo \ {d}
    BY <1>3, <1>6 DEF Frame, less
  <1> QED BY <1>1, <1>5, <1>6, <1>7 DEF callee, n0

\* The stack after a return.
LEMMA Returned ==
  ASSUME TypeOK, Return
  PROVE  /\ Len(stack) \in Nat \ {0} /\ stack' \in Seq(Frame)
         /\ Len(stack') = Len(stack) - 1
         /\ \A n \in 1..(Len(stack) - 1) : stack'[n] = stack[n]
         /\ stack[Len(stack)].todo = {}
  <1>1. /\ stack \in Seq(Frame) /\ stack # <<>> /\ stack[Len(stack)].todo = {}
        /\ stack' = SubSeq(stack, 1, Len(stack) - 1)
    BY DEF TypeOK, Return, Last
  <1>2. Len(stack) \in Nat \ {0}
    BY <1>1, EmptySeq
  <1>3. \A n \in 1..(Len(stack) - 1) : stack[n] \in Frame
    BY <1>1, <1>2, ElementOfSeq
  <1> DEFINE m == Len(stack) - 1
  <1>4. m \in Nat /\ \A n \in 1..m : stack[n] \in Frame
    BY <1>2, <1>3
  <1> HIDE DEF m
  <1>5. /\ SubSeq(stack, 1, m) \in Seq(Frame)
        /\ Len(SubSeq(stack, 1, m)) = IF 1 <= m THEN m - 1 + 1 ELSE 0
        /\ \A n \in 1..(m - 1 + 1) : SubSeq(stack, 1, m)[n] = stack[1 + n - 1]
    BY <1>4, SubSeqProperties
  <1>6. /\ Len(SubSeq(stack, 1, m)) = m
        /\ \A n \in 1..m : SubSeq(stack, 1, m)[n] = stack[n]
    BY <1>4, <1>5
  <1> QED BY <1>1, <1>2, <1>5, <1>6 DEF m

-----------------------------------------------------------------------------
\* The types hold at the start.
LEMMA TypeInit == Init => TypeOK
  BY Kinds DEF Init, TypeOK, Ranking

\* Every step keeps them.
LEMMA TypeKept ==
  ASSUME TypeOK, [Next]_vars
  PROVE  TypeOK'
  <1> USE DEF Ranking
  <1>1. ASSUME NEW c \in All, Begin(c) PROVE TypeOK'
    <2>1. [class |-> c, todo |-> Parents(c)] \in Frame
      BY ParentsFact DEF Frame, All
    <2>2. stack' \in Seq(Frame)
      BY <1>1, <2>1, Single DEF Begin
    <2> QED BY <1>1, <2>2 DEF Begin, TypeOK, output, hierarchy
  <1>2. ASSUME NEW c \in All, Visit(c) PROVE TypeOK'
    <2>1. stack' \in Seq(Frame)
      BY <1>2, Called
    <2>2. rank' = [rank EXCEPT ![c] = @ + 1] /\ rank \in [All -> Nat]
      BY <1>2 DEF Visit, TypeOK, All
    <2>3. rank' \in [Definitions \cup Closures -> Nat]
      BY <2>2 DEF All
    <2> QED BY <1>2, <2>1, <2>3 DEF Visit, TypeOK, output, hierarchy
  <1>3. ASSUME NEW c \in All, Compile(c) PROVE TypeOK'
    BY <1>3 DEF Compile, TypeOK, ranking, hierarchy
  <1>4. ASSUME NEW c \in All, CompileClosure(c) PROVE TypeOK'
    BY <1>4 DEF CompileClosure, TypeOK, ranking, hierarchy
  <1>5. ASSUME NEW c \in All, Emit(c) PROVE TypeOK'
    BY <1>5 DEF Emit, InitsLeft, TypeOK, ranking, hierarchy
  <1>6. CASE Return
    <2>1. stack' \in Seq(Frame)
      BY <1>6, Returned
    <2> QED BY <1>6, <2>1 DEF Return, TypeOK, output, hierarchy
  <1>7. CASE Overflow \/ EndRanking \/ Make \/ EndLoad
    BY <1>7 DEF Overflow, EndRanking, Make, EndLoad, TypeOK, ranking, output, hierarchy
  <1>8. CASE EndCompile \/ EndClosures
    BY <1>8 DEF EndCompile, EndClosures, TypeOK, ranking, output, hierarchy
  <1>9. CASE Register
    <2>1. inits[Len(entries) + 1] \in Local \cup Closures
      BY <1>9 DEF Register, TypeOK
    <2>2. /\ entries' \in {entries, Append(entries, inits[Len(entries) + 1])}
          /\ pc' \in {pc, "failed"}
      BY <1>9 DEF Register
    <2>3. entries \in Seq(Local \cup Closures)
      BY DEF TypeOK
    <2>4. Append(entries, inits[Len(entries) + 1]) \in Seq(Local \cup Closures)
      BY <2>1, <2>3, Appended
    <2> QED BY <1>9, <2>2, <2>3, <2>4 DEF Register, TypeOK, ranking, hierarchy
  <1>10. CASE UNCHANGED vars
    BY <1>10 DEF vars, TypeOK
  <1> QED BY <1>1, <1>2, <1>3, <1>4, <1>5, <1>6, <1>7, <1>8, <1>9, <1>10 DEF Next, All

\* The variables keep to their types.
THEOREM TypeCorrect == Spec => []TypeOK
  BY TypeInit, TypeKept, PTL DEF Spec

-----------------------------------------------------------------------------
(* The ranks.                                                              *)

\* The calls for c that have still to visit d.
Pending(c, d) == {n \in 1..Len(stack) : stack[n].class = c /\ d \in stack[n].todo}

\* How often the outer foreach has come to c, counted up to one.
Begun(c) == IF pc = "rank" /\ c \in roots THEN 0 ELSE 1

\* Every increase of rank[c] was a call for c, and so was the visit of the
\* outer foreach; each call increases rank[d] when it visits d.
RanksBalance ==
  pc # "crashed" =>
    \A c \in Local : \A d \in Parents(c) :
      rank[d] + Cardinality(Pending(c, d)) >= rank[c] + Begun(c)

\* Nothing runs between the two rankings, or after them.
StackIdle == pc \notin Ranking \cup {"crashed"} => stack = <<>>

\* The hierarchy is what the sources say.
LEMMA SameHierarchy ==
  ASSUME [Next]_vars
  PROVE  hierarchy' = hierarchy /\ \A c \in All : Parents(c)' = Parents(c)
  <1>1. extends' = extends /\ implements' = implements
    BY DEF vars, Next, Begin, Visit, Compile, CompileClosure, Emit, Return, Overflow,
           EndRanking, EndCompile, EndClosures, Make, Register, EndLoad, hierarchy
  <1> QED BY <1>1 DEF hierarchy, Parents

\* The positions of a sequence are finitely many.
LEMMA PositionsFinite ==
  ASSUME NEW n \in Nat
  PROVE  IsFiniteSet(1..n)
  <1>1. 1 \in Int /\ n \in Int
    OBVIOUS
  <1> QED BY <1>1, FS_Interval

\* Numbers of calls are numbers.
LEMMA PendingFinite ==
  ASSUME TypeOK, NEW c, NEW d
  PROVE  IsFiniteSet(Pending(c, d)) /\ Cardinality(Pending(c, d)) \in Nat
  <1>1. Len(stack) \in Nat
    BY LenProperties DEF TypeOK
  <1>2. IsFiniteSet(1..Len(stack))
    BY <1>1, PositionsFinite
  <1>3. Pending(c, d) \subseteq 1..Len(stack)
    BY DEF Pending
  <1>4. IsFiniteSet(Pending(c, d))
    BY <1>2, <1>3, FS_Subset
  <1> QED BY <1>4, FS_CardinalityType

\* A call with nothing pending, or none at all, has a count of zero.
LEMMA NonePending ==
  ASSUME NEW c, NEW d, stack = <<>>
  PROVE  Cardinality(Pending(c, d)) = 0
  <1>1. Len(stack) = 0
    BY EmptySeq
  <1>2. Pending(c, d) = {}
    BY <1>1 DEF Pending
  <1> QED BY <1>2, FS_EmptySet

\* A visit is paid for by the call that makes it, and starts a call.
LEMMA PendingVisit ==
  ASSUME TypeOK, NEW e \in All, Visit(e), NEW c \in Local, NEW d \in Parents(c)
  PROVE  /\ c # e => Cardinality(Pending(c, d)') <= Cardinality(Pending(c, d))
         /\ c # e /\ d # e => Cardinality(Pending(c, d)') = Cardinality(Pending(c, d))
         /\ c = e => Cardinality(Pending(c, d)') >= Cardinality(Pending(c, d))
         /\ c = e /\ d # e => Cardinality(Pending(c, d)') = Cardinality(Pending(c, d)) + 1
         /\ c # e /\ d = e =>
              Cardinality(Pending(c, d)') >= Cardinality(Pending(c, d)) - 1
         /\ Cardinality(Pending(c, d)') \in Nat
  <1> DEFINE n0 == Len(stack)
             P == Pending(c, d)
             Q == Pending(c, d)'
  <1>1. /\ n0 \in Nat \ {0} /\ Len(stack') = n0 + 1
        /\ \A n \in 1..(n0 - 1) : stack'[n] = stack[n]
        /\ stack'[n0].class = stack[n0].class
        /\ stack'[n0].todo = stack[n0].todo \ {e}
        /\ stack'[n0 + 1].class = e /\ stack'[n0 + 1].todo = Parents(e)
    BY Called
  <1>2. P \subseteq 1..n0 /\ Q \subseteq 1..(n0 + 1)
    BY <1>1 DEF Pending
  <1>3. \A n \in 1..(n0 - 1) : n \in P <=> n \in Q
    BY <1>1 DEF Pending
  <1>4. /\ n0 \in Q => n0 \in P
        /\ d # e /\ n0 \in P => n0 \in Q
        /\ n0 + 1 \in Q <=> c = e
        /\ n0 + 1 \notin P
    BY <1>1 DEF Pending
  <1>5. IsFiniteSet(P) /\ Cardinality(P) \in Nat
    BY PendingFinite
  <1>11. Cardinality(Q) \in Nat
    <2>1. n0 + 1 \in Nat
      BY <1>1
    <2>3. IsFiniteSet(1..(n0 + 1))
      BY <2>1, PositionsFinite
    <2>2. IsFiniteSet(Q)
      BY <1>2, <2>3, FS_Subset
    <2> QED BY <2>2, FS_CardinalityType
  <1>12. /\ 1..(n0 + 1) = 1..(n0 - 1) \cup {n0, n0 + 1}
         /\ 1..n0 = 1..(n0 - 1) \cup {n0}
    BY <1>1
  <1> HIDE DEF P, Q, n0
  <1>6. /\ IsFiniteSet(P \cup {n0 + 1}) /\ IsFiniteSet(P \ {n0})
        /\ Cardinality(P \cup {n0 + 1}) = Cardinality(P) + 1
        /\ Cardinality(P \ {n0}) = IF n0 \in P THEN Cardinality(P) - 1 ELSE Cardinality(P)
    BY <1>1, <1>4, <1>5, FS_AddElement, FS_RemoveElement
  <1>7. CASE c # e /\ d # e
    <2>1. Q \subseteq P
      BY <1>2, <1>3, <1>4, <1>7, <1>12, Zenon
    <2>2. ASSUME NEW n \in P PROVE n \in Q
      <3>1. n \in 1..(n0 - 1) \/ n = n0
        BY <1>2, <1>12
      <3> QED BY <1>3, <1>4, <1>7, <3>1
    <2>3. Q = P
      BY <2>1, <2>2
    <2> QED BY <1>5, <1>7, <2>3 DEF P, Q
  <1>8. CASE c = e /\ d # e
    <2>1. Q = P \cup {n0 + 1}
      BY <1>2, <1>3, <1>4, <1>8, <1>12, Zenon
    <2> QED BY <1>5, <1>6, <1>8, <2>1 DEF P, Q
  <1>9. CASE c # e /\ d = e
    <2>1. Q \subseteq P /\ P \ {n0} \subseteq Q
      BY <1>1, <1>2, <1>3, <1>4, <1>9
    <2>2. /\ Cardinality(Q) <= Cardinality(P) /\ Cardinality(P \ {n0}) <= Cardinality(Q)
          /\ Cardinality(Q) \in Nat
      BY <1>5, <2>1, FS_Subset, FS_CardinalityType
    <2> QED BY <1>5, <1>6, <1>9, <2>2 DEF P, Q
  <1>10. CASE c = e /\ d = e
    <2>1. /\ (P \ {n0}) \cup {n0 + 1} \subseteq Q /\ Q \subseteq P \cup {n0 + 1}
      BY <1>1, <1>2, <1>3, <1>4, <1>10
    <2>2. /\ IsFiniteSet((P \ {n0}) \cup {n0 + 1})
          /\ Cardinality((P \ {n0}) \cup {n0 + 1}) = Cardinality(P \ {n0}) + 1
          /\ Cardinality(P \ {n0}) \in Nat
      BY <1>4, <1>6, FS_AddElement, FS_CardinalityType
    <2>3. IsFiniteSet(Q) /\ Cardinality((P \ {n0}) \cup {n0 + 1}) <= Cardinality(Q)
          /\ Cardinality(Q) \in Nat
      BY <1>6, <2>1, FS_Subset, FS_CardinalityType
    <2> QED BY <1>5, <1>6, <1>10, <2>2, <2>3 DEF P, Q
  <1> QED BY <1>7, <1>8, <1>9, <1>10, <1>11 DEF Q

\* The balance survives every step.
LEMMA BalanceKept ==
  ASSUME TypeOK, StackIdle, RanksBalance, [Next]_vars
  PROVE  StackIdle' /\ RanksBalance'
  <1>1. \A c \in All : Parents(c)' = Parents(c)
    BY SameHierarchy
  <1>2. /\ \A c \in Local : c \in All /\ Parents(c) \subseteq All
        /\ \A c \in All : rank[c] \in Nat
    BY ParentsFact, Kinds DEF TypeOK, All
  <1>3. \A c, d : Cardinality(Pending(c, d)) \in Nat
    BY PendingFinite
  <1>4. ASSUME UNCHANGED ranking, pc' = pc \/ pc' = "crashed" \/ (pc' # "rank" /\ stack = <<>>),
               pc = "rank" /\ pc' # "rank" => roots = {} \/ pc' = "crashed", pc # "crashed"
        PROVE  RanksBalance'
    <2> SUFFICES ASSUME pc' # "crashed", NEW c \in Local, NEW d \in Parents(c)
                 PROVE  rank[d] + Cardinality(Pending(c, d)) >= rank[c] + Begun(c)'
      BY <1>1, <1>2, <1>4 DEF RanksBalance, ranking, Pending
    <2>1. Begun(c)' = Begun(c)
      BY <1>4 DEF Begun, ranking
    <2> QED BY <1>4, <2>1 DEF RanksBalance
  <1>5. ASSUME NEW e \in All, Begin(e) PROVE StackIdle' /\ RanksBalance'
    <2>1. pc' = pc /\ pc \in Ranking /\ rank' = rank /\ stack = <<>> /\ roots' = roots \ {e}
          /\ stack' = <<[class |-> e, todo |-> Parents(e)]>>
      BY <1>5 DEF Begin
    <2> SUFFICES ASSUME NEW c \in Local, NEW d \in Parents(c)
                 PROVE  rank[d] + Cardinality(Pending(c, d)') >= rank[c] + Begun(c)'
      BY <1>1, <1>2, <2>1 DEF RanksBalance, StackIdle, Ranking
    <2>2. rank[d] + Cardinality(Pending(c, d)) >= rank[c] + Begun(c)
      BY <2>1 DEF RanksBalance, Ranking
    <2>3. Cardinality(Pending(c, d)) = 0
      BY <2>1, NonePending
    <2>4. CASE c = e
      <3>1. Pending(c, d)' = {1}
        BY <2>1, <2>4 DEF Pending
      <3>2. Cardinality(Pending(c, d)') = 1
        BY <3>1, FS_Singleton
      <3>3. rank[d] \in Nat /\ rank[c] \in Nat /\ Begun(c) \in {0, 1} /\ Begun(c)' \in {0, 1}
        BY <1>2 DEF Begun
      <3> QED BY <2>2, <2>3, <3>2, <3>3
    <2>5. CASE c # e
      <3>1. Pending(c, d)' = {}
        BY <2>1, <2>5 DEF Pending
      <3>2. Cardinality(Pending(c, d)') = 0
        BY <3>1, FS_EmptySet
      <3>3. Begun(c)' = Begun(c)
        BY <2>1, <2>5 DEF Begun
      <3> QED BY <2>2, <2>3, <3>2, <3>3
    <2> QED BY <2>4, <2>5
  <1>6. ASSUME NEW e \in All, Visit(e) PROVE StackIdle' /\ RanksBalance'
    <2>1. pc' = pc /\ pc \in Ranking /\ roots' = roots /\ rank' = [rank EXCEPT ![e] = @ + 1]
          /\ rank \in [All -> Nat]
      BY <1>6 DEF Visit, TypeOK, All
    <2> SUFFICES ASSUME NEW c \in Local, NEW d \in Parents(c)
                 PROVE  rank'[d] + Cardinality(Pending(c, d)') >= rank'[c] + Begun(c)'
      BY <1>1, <1>2, <2>1 DEF RanksBalance, StackIdle, Ranking
    <2>2. rank[d] + Cardinality(Pending(c, d)) >= rank[c] + Begun(c)
      BY <2>1 DEF RanksBalance, Ranking
    <2>3. Begun(c)' = Begun(c) /\ Begun(c) \in {0, 1}
      BY <2>1 DEF Begun
    <2>4. Cardinality(Pending(c, d)') \in Nat /\ Cardinality(Pending(c, d)) \in Nat
      BY <1>3, <1>6, PendingVisit
    <2>5. /\ rank'[d] = IF d = e THEN rank[d] + 1 ELSE rank[d]
          /\ rank'[c] = IF c = e THEN rank[c] + 1 ELSE rank[c]
          /\ rank[c] \in Nat /\ rank[d] \in Nat
      BY <1>2, <2>1
    <2> HIDE DEF Begun
    <2> QED BY <1>6, <2>2, <2>3, <2>4, <2>5, PendingVisit
  <1>7. CASE Return
    <2>1. pc' = pc /\ pc \in Ranking /\ roots' = roots /\ rank' = rank
      BY <1>7 DEF Return
    <2>2. ASSUME NEW c \in Local, NEW d \in Parents(c) PROVE Pending(c, d)' = Pending(c, d)
      BY <1>7, Returned DEF Pending
    <2>3. \A c : Begun(c)' = Begun(c)
      BY <2>1 DEF Begun
    <2> QED BY <1>1, <1>2, <2>1, <2>2, <2>3 DEF RanksBalance, StackIdle, Ranking
  <1>8. CASE Overflow
    BY <1>4, <1>8 DEF Overflow, StackIdle, RanksBalance
  <1>9. CASE EndRanking
    BY <1>4, <1>9 DEF EndRanking, StackIdle, Ranking, ranking
  <1>10. CASE EndClosures
    <2>1. /\ pc = "closures" /\ pc' = "rank again" /\ rank' = rank /\ stack' = stack
          /\ stack = <<>>
      BY <1>10 DEF EndClosures, StackIdle, Ranking
    <2>2. \A c, d : Pending(c, d)' = Pending(c, d)
      BY <2>1 DEF Pending
    <2>3. \A c : Begun(c)' = Begun(c)
      BY <2>1 DEF Begun
    <2> QED BY <1>1, <1>2, <2>1, <2>2, <2>3 DEF RanksBalance, StackIdle, Ranking
  <1>11. ASSUME NEW c \in All, Compile(c) \/ CompileClosure(c) \/ Emit(c)
         PROVE  StackIdle' /\ RanksBalance'
    <2>1. UNCHANGED ranking /\ pc' = pc /\ pc \notin Ranking /\ pc # "crashed"
      BY <1>11 DEF Compile, CompileClosure, Emit, Ranking
    <2> QED BY <1>4, <2>1 DEF StackIdle, ranking
  <1>12. CASE EndCompile \/ Make \/ Register \/ EndLoad
    <2>1. UNCHANGED ranking /\ pc \notin Ranking /\ pc # "crashed" /\ pc' \notin Ranking
          /\ pc' # "crashed"
      BY <1>12 DEF EndCompile, Make, Register, EndLoad, Ranking
    <2>2. stack = <<>>
      BY <2>1 DEF StackIdle
    <2> QED BY <1>4, <2>1, <2>2 DEF StackIdle, ranking, Ranking
  <1>13. CASE UNCHANGED vars
    <2>1. UNCHANGED ranking /\ pc' = pc
      BY <1>13 DEF vars, ranking
    <2>2. \A c, d : Pending(c, d)' = Pending(c, d)
      BY <2>1 DEF Pending, ranking
    <2>3. \A c : Begun(c)' = Begun(c)
      BY <2>1 DEF Begun, ranking
    <2> QED BY <1>1, <1>2, <2>1, <2>2, <2>3 DEF RanksBalance, StackIdle, ranking
  <1> QED BY <1>5, <1>6, <1>7, <1>8, <1>9, <1>10, <1>11, <1>12, <1>13 DEF Next, All

\* Ranks start at zero, and no class has been begun with.
LEMMA BalanceInit == Init => StackIdle /\ RanksBalance
  <1> SUFFICES ASSUME Init, NEW c \in Local, NEW d \in Parents(c)
               PROVE  rank[d] + Cardinality(Pending(c, d)) >= rank[c] + Begun(c)
    BY DEF Init, StackIdle, RanksBalance, Ranking
  <1>1. TypeOK
    BY TypeInit
  <1>2. c \in All /\ d \in All
    BY <1>1, ParentsFact, Kinds DEF All
  <1>3. Cardinality(Pending(c, d)) = 0
    BY NonePending DEF Init
  <1> QED BY <1>2, <1>3 DEF Init, Begun, All

-----------------------------------------------------------------------------
(* The two orders.                                                         *)

\* A ranking that is over ranks a parent above its children.
LEMMA ParentsOutrank ==
  ASSUME TypeOK, StackIdle, RanksBalance, pc \notin Ranking, pc # "crashed",
         NEW c \in Local, NEW d \in Parents(c)
  PROVE  rank[c] \in Nat /\ rank[d] \in Nat /\ rank[d] > rank[c]
  <1>1. stack = <<>>
    BY DEF StackIdle
  <1>2. Cardinality(Pending(c, d)) = 0
    BY <1>1, NonePending
  <1>3. Begun(c) = 1
    BY DEF Begun, Ranking
  <1>4. rank[c] \in Nat /\ rank[d] \in Nat
    BY ParentsFact, Kinds DEF TypeOK, All
  <1> QED BY <1>2, <1>3, <1>4 DEF RanksBalance

\* A sequence with parents first is extended by a class whose parents it has.
LEMMA ParentsFirstAppend ==
  ASSUME NEW S, NEW s \in Seq(S), NEW c \in S, ParentsFirst(s),
         Parents(c) \cap Local \subseteq Listed(s)
  PROVE  ParentsFirst(Append(s, c))
  <1> DEFINE t == Append(s, c)
  <1>1. /\ Len(t) = Len(s) + 1 /\ \A n \in 1..Len(s) : t[n] = s[n]
        /\ t[Len(s) + 1] = c /\ Len(s) \in Nat
    BY Appended, LenProperties
  <1> SUFFICES ASSUME NEW n \in 1..Len(t)
               PROVE  Parents(t[n]) \cap Local \subseteq {t[j] : j \in 1..(n - 1)}
    BY DEF ParentsFirst
  <1> HIDE DEF t
  <1>2. \A j \in 1..(n - 1) : j \in 1..Len(s) /\ t[j] = s[j]
    BY <1>1
  <1>3. {t[j] : j \in 1..(n - 1)} = {s[j] : j \in 1..(n - 1)}
    BY <1>2
  <1>4. CASE n \in 1..Len(s)
    BY <1>1, <1>3, <1>4 DEF ParentsFirst
  <1>5. CASE n = Len(s) + 1
    <2>1. n - 1 = Len(s) /\ t[n] = c
      BY <1>1, <1>5
    <2> QED BY <1>3, <2>1 DEF Listed
  <1> QED BY <1>1, <1>4, <1>5

\* What has been compiled, initialised and registered while pc is where it is.
Progress ==
  /\ ParentsFirst(compiled) /\ ParentsFirst(inits)
  /\ Listed(inits) \subseteq Local \cup anonymous
  /\ pc \in {"load", "loaded", "failed", "undefined"} =>
       Local \cup anonymous \subseteq Listed(inits)
  /\ pc \notin {"load", "loaded", "failed"} => entries = <<>>
  /\ Len(entries) <= Len(inits)
  /\ \A n \in 1..Len(entries) : entries[n] = inits[n]
  /\ pc = "loaded" => Len(entries) = Len(inits)
  /\ pc # "failed"

LoadInvariant == TypeOK /\ StackIdle /\ RanksBalance /\ Progress

\* Only local classes have parents.
LEMMA NoParents ==
  ASSUME NEW c \in Closures
  PROVE  Parents(c) = {}
  BY Kinds DEF Parents

\* The class of highest rank that is left has no parent left.
LEMMA CompileOrder ==
  ASSUME LoadInvariant, NEW c \in All, Compile(c)
  PROVE  ParentsFirst(compiled)'
  <1>1. /\ c \in Local \ Listed(compiled) /\ compiled' = Append(compiled, c)
        /\ HighestRank(c, Local \ Listed(compiled)) /\ pc = "compile"
        /\ compiled \in Seq(Local \cup Closures) /\ ParentsFirst(compiled)
    BY DEF Compile, LoadInvariant, Progress, TypeOK
  <1>2. ASSUME NEW d \in Parents(c) \cap Local PROVE d \in Listed(compiled)
    <2>1. rank[c] \in Nat /\ rank[d] \in Nat /\ rank[d] > rank[c]
      BY <1>1, ParentsOutrank DEF LoadInvariant, Ranking
    <2> QED BY <1>1, <2>1 DEF HighestRank
  <1>3. ParentsFirst(Append(compiled, c))
    BY <1>1, <1>2, ParentsFirstAppend
  <1>4. hierarchy' = hierarchy
    BY DEF Compile
  <1> QED BY <1>1, <1>3, <1>4 DEF ParentsFirst, Parents, hierarchy

\* The same of the classes, and of the interfaces that come before them.
LEMMA InitOrder ==
  ASSUME LoadInvariant, NEW c \in All, Emit(c)
  PROVE  ParentsFirst(inits)' /\ c \in Local \cup anonymous
  <1> DEFINE rest == (Local \cup anonymous) \ Listed(inits)
  <1>1. /\ c \in InitsLeft(rest) /\ inits' = Append(inits, c)
        /\ HighestRank(c, InitsLeft(rest)) /\ pc = "project"
        /\ inits \in Seq(Local \cup Closures) /\ ParentsFirst(inits)
        /\ anonymous \subseteq Closures
    BY DEF Emit, LoadInvariant, Progress, TypeOK
  <1>2. c \in rest
    BY <1>1 DEF InitsLeft
  <1>3. ASSUME NEW d \in Parents(c) \cap Local PROVE d \in Listed(inits)
    <2>1. c \in Local
      BY <1>1, <1>2, <1>3, NoParents
    <2>2. rank[c] \in Nat /\ rank[d] \in Nat /\ rank[d] > rank[c]
      BY <1>1, <2>1, ParentsOutrank DEF LoadInvariant, Ranking
    <2>3. c \in Interfaces => d \in Interfaces
      BY ParentsFact DEF LoadInvariant
    <2>4. d \in rest => d \in InitsLeft(rest)
      BY <1>1, <2>3 DEF InitsLeft
    <2>5. d \notin InitsLeft(rest)
      <3>1. \A x \in InitsLeft(rest) : rank[x] <= rank[c]
        BY <1>1 DEF HighestRank
      <3> HIDE DEF rest
      <3> QED BY <2>2, <3>1
    <2> QED BY <2>4, <2>5
  <1>4. ParentsFirst(Append(inits, c))
    <2>1. c \in Local \cup Closures
      BY <1>1, <1>2
    <2> QED BY <1>1, <1>3, <2>1, ParentsFirstAppend
  <1>5. hierarchy' = hierarchy
    BY DEF Emit
  <1> QED BY <1>1, <1>2, <1>4, <1>5 DEF ParentsFirst, Parents, hierarchy

\* What a class entry needs has been registered before it.
LEMMA RegisterFinds ==
  ASSUME LoadInvariant, Register
  PROVE  /\ entries' = Append(entries, inits[Len(entries) + 1]) /\ pc' = pc
  <1> DEFINE c == inits[Len(entries) + 1]
             n == Len(entries)
  <1>1. /\ n \in Nat /\ n + 1 \in 1..Len(inits) /\ ParentsFirst(inits)
        /\ \A j \in 1..n : entries[j] = inits[j]
        /\ c \in Local \cup Closures
    BY LenProperties, ElementOfSeq DEF Register, LoadInvariant, Progress, TypeOK
  <1>2. Parents(c) \cap Local \subseteq {inits[j] : j \in 1..(n + 1 - 1)}
    BY <1>1 DEF ParentsFirst
  <1>3. Parents(c) \cap Local \subseteq Listed(entries)
    BY <1>1, <1>2 DEF Listed
  <1>4. Parents(c) \subseteq Definitions
    BY <1>1, Kinds, ParentsFact DEF LoadInvariant, All
  <1>5. Parents(c) \subseteq External \cup Listed(entries)
    BY <1>3, <1>4, Kinds
  <1> QED BY <1>5 DEF Register

\* Every step keeps what has been done.
LEMMA ProgressKept ==
  ASSUME LoadInvariant, [Next]_vars
  PROVE  Progress'
  <1> USE DEF Ranking
  <1>1. ASSUME UNCHANGED <<compiled, inits, entries, anonymous>>,
               pc' \in {"load", "loaded", "failed", "undefined"} =>
                 pc = pc' \/ Local \cup anonymous \subseteq Listed(inits),
               pc' \notin {"load", "loaded", "failed"} => entries = <<>>,
               pc' = "loaded" => Len(entries) = Len(inits), pc' # "failed"
        PROVE  Progress'
    BY <1>1, SameHierarchy DEF LoadInvariant, Progress, ParentsFirst, Parents, hierarchy
  <1>2. ASSUME NEW c \in All, Begin(c) \/ Visit(c)
        PROVE  Progress'
    BY <1>1, <1>2 DEF Begin, Visit, output, LoadInvariant, Progress
  <1>3. ASSUME NEW c \in All, Compile(c) PROVE Progress'
    <2>1. ParentsFirst(compiled)'
      BY <1>3, CompileOrder
    <2>2. UNCHANGED <<inits, entries, pc>> /\ anonymous \subseteq anonymous' /\ pc = "compile"
      BY <1>3 DEF Compile
    <2> QED BY <2>1, <2>2, SameHierarchy
            DEF LoadInvariant, Progress, ParentsFirst, Parents, hierarchy
  <1>4. ASSUME NEW c \in All, CompileClosure(c) PROVE Progress'
    <2>1. /\ UNCHANGED <<inits, entries, pc>> /\ anonymous \subseteq anonymous'
          /\ pc = "closures" /\ compiled' = Append(compiled, c) /\ c \in Closures
      BY <1>4 DEF CompileClosure, LoadInvariant, TypeOK
    <2>2. ParentsFirst(Append(compiled, c))
      <3>1. Parents(c) = {}
        BY <2>1, NoParents
      <3> QED BY <2>1, <3>1, ParentsFirstAppend DEF LoadInvariant, Progress, TypeOK
    <2> QED BY <2>1, <2>2, SameHierarchy
            DEF LoadInvariant, Progress, ParentsFirst, Parents, hierarchy
  <1>5. ASSUME NEW c \in All, Emit(c) PROVE Progress'
    <2>1. ParentsFirst(inits)' /\ c \in Local \cup anonymous
      BY <1>5, InitOrder
    <2>2. /\ UNCHANGED <<compiled, anonymous, entries, pc>> /\ pc = "project"
          /\ inits' = Append(inits, c) /\ inits \in Seq(Local \cup Closures)
          /\ entries = <<>> /\ anonymous \subseteq Closures
      BY <1>5 DEF Emit, LoadInvariant, Progress, TypeOK
    <2>3. Listed(inits') = Listed(inits) \cup {c} /\ Len(entries) = 0 /\ Len(inits') \in Nat
      BY <2>1, <2>2, Appended, EmptySeq, LenProperties
    <2> QED BY <2>1, <2>2, <2>3, SameHierarchy
            DEF LoadInvariant, Progress, ParentsFirst, Parents, hierarchy
  <1>6. CASE Return \/ Overflow \/ EndRanking \/ EndClosures \/ UNCHANGED vars
    BY <1>1, <1>6 DEF Return, Overflow, EndRanking, EndClosures, output, vars,
                      LoadInvariant, Progress
  <1>7. CASE EndCompile
    BY <1>1, <1>7 DEF EndCompile, LoadInvariant, Progress
  <1>8. CASE Make
    BY <1>1, <1>8 DEF Make, output, LoadInvariant, Progress
  <1>9. CASE EndLoad
    BY <1>1, <1>9 DEF EndLoad, output, LoadInvariant, Progress
  <1>10. CASE Register
    <2>1. entries' = Append(entries, inits[Len(entries) + 1]) /\ pc' = pc
      BY <1>10, RegisterFinds
    <2>2. /\ UNCHANGED <<compiled, anonymous, inits>> /\ pc = "load"
          /\ Len(entries) < Len(inits) /\ entries \in Seq(Local \cup Closures)
          /\ inits \in Seq(Local \cup Closures)
      BY <1>10 DEF Register, LoadInvariant, TypeOK
    <2>3. /\ Len(entries) \in Nat /\ Len(inits) \in Nat
          /\ Len(entries') = Len(entries) + 1
          /\ \A n \in 1..Len(entries) : entries'[n] = entries[n]
          /\ entries'[Len(entries) + 1] = inits[Len(entries) + 1]
      <3>1. Len(entries) \in Nat /\ Len(inits) \in Nat
        BY <2>2, LenProperties
      <3>2. inits[Len(entries) + 1] \in Local \cup Closures
        BY <2>2, <3>1, ElementOfSeq
      <3> QED BY <2>1, <2>2, <3>1, <3>2, Appended
    <2>4. \A n \in 1..Len(entries') : entries'[n] = inits[n]
      BY <2>3 DEF LoadInvariant, Progress
    <2> QED BY <2>1, <2>2, <2>3, <2>4, SameHierarchy
            DEF LoadInvariant, Progress, ParentsFirst, Parents, hierarchy
  <1> QED BY <1>2, <1>3, <1>4, <1>5, <1>6, <1>7, <1>8, <1>9, <1>10 DEF Next, All

\* The invariant holds throughout.
THEOREM LoadInvariantHolds == Spec => []LoadInvariant
  <1>1. Init => LoadInvariant
    <2>1. Init => Progress
      BY EmptySeq DEF Init, Progress, ParentsFirst, Listed
    <2> QED BY <2>1, TypeInit, BalanceInit DEF LoadInvariant
  <1>2. LoadInvariant /\ [Next]_vars => LoadInvariant'
    <2>1. LoadInvariant /\ [Next]_vars => Progress'
      BY ProgressKept
    <2> QED BY <2>1, TypeKept, BalanceKept DEF LoadInvariant
  <1> QED BY <1>1, <1>2, PTL DEF Spec

\* Whatever the hierarchy, a class is compiled after its parents.
THEOREM ParentsCompiledFirst == Spec => []CompiledAfterParents
  <1>1. LoadInvariant => CompiledAfterParents
    BY DEF LoadInvariant, Progress, CompiledAfterParents
  <1> QED BY <1>1, LoadInvariantHolds, PTL

\* Whatever the hierarchy, <project>.c initialises a class after its parents.
THEOREM ParentsInitializedFirst == Spec => []InitializedAfterParents
  <1>1. LoadInvariant => InitializedAfterParents
    BY DEF LoadInvariant, Progress, InitializedAfterParents
  <1> QED BY <1>1, LoadInvariantHolds, PTL

\* Whatever the hierarchy, an extension that is loaded is loaded whole.
THEOREM ExtensionLoads == Spec => []LoadsWhole
  <1>1. LoadInvariant => LoadsWhole
    <2> SUFFICES ASSUME LoadInvariant, pc = "loaded"
                 PROVE  Local \cup anonymous = Listed(entries)
      BY DEF LoadsWhole, LoadInvariant, Progress
    <2>1. /\ Len(entries) = Len(inits) /\ \A n \in 1..Len(entries) : entries[n] = inits[n]
          /\ Local \cup anonymous \subseteq Listed(inits)
          /\ Listed(inits) \subseteq Local \cup anonymous
      BY DEF LoadInvariant, Progress
    <2>2. Listed(entries) = Listed(inits)
      BY <2>1 DEF Listed
    <2> QED BY <2>1, <2>2
  <1> QED BY <1>1, LoadInvariantHolds, PTL

-----------------------------------------------------------------------------
(* Closures.                                                               *)

\* If closures are not nested, anonymousFiles is complete when its copy is
\* taken.
ClosuresDone ==
  /\ pc \notin {"rank", "compile", "crashed"} => Local \subseteq Listed(compiled)
  /\ pc = "closures" => anonymous \subseteq queue \cup Listed(compiled)
  /\ pc \notin {"rank", "compile", "closures", "crashed"} =>
       anonymous \subseteq Listed(compiled)
  /\ pc # "undefined"

\* The step that needs all the others: compiling a closure adds none.
LEMMA ClosureCompiled ==
  ASSUME ~NestedClosures, TypeOK, ClosuresDone, NEW c \in All, CompileClosure(c)
  PROVE  ClosuresDone'
  <1>1. /\ pc = "closures" /\ pc' = pc /\ anonymous' = anonymous /\ queue' = queue \ {c}
        /\ compiled' = Append(compiled, c) /\ c \in Local \cup Closures
        /\ compiled \in Seq(Local \cup Closures)
    BY DEF CompileClosure, TypeOK
  <1>2. Listed(compiled') = Listed(compiled) \cup {c}
    BY <1>1, Appended
  <1> QED BY <1>1, <1>2 DEF ClosuresDone

\* Without closures in closures, <project>.c initialises what was compiled.
THEOREM ClosuresDefined == ~NestedClosures => (Spec => []InitsDefined)
  <1> SUFFICES ASSUME ~NestedClosures PROVE Spec => []InitsDefined
    OBVIOUS
  <1>1. Init => ClosuresDone
    BY DEF Init, ClosuresDone
  <1>2. LoadInvariant /\ ClosuresDone /\ [Next]_vars => ClosuresDone'
    <2> SUFFICES ASSUME LoadInvariant, ClosuresDone, [Next]_vars PROVE ClosuresDone'
      OBVIOUS
    <2> USE DEF Ranking
    <2>1. ASSUME NEW c \in All, Compile(c) PROVE ClosuresDone'
      BY <2>1 DEF Compile, ClosuresDone
    <2>2. ASSUME NEW c \in All, CompileClosure(c) PROVE ClosuresDone'
      BY <2>2, ClosureCompiled DEF LoadInvariant
    <2>3. ASSUME NEW c \in All, Begin(c) \/ Visit(c) \/ Emit(c) PROVE ClosuresDone'
      BY <2>3 DEF Begin, Visit, Emit, output, ClosuresDone
    <2>4. CASE Return \/ Overflow \/ EndLoad \/ Register \/ UNCHANGED vars
      BY <2>4 DEF Return, Overflow, EndLoad, Register, output, vars, ClosuresDone
    <2>5. CASE EndRanking \/ EndClosures \/ EndCompile
      BY <2>5 DEF EndRanking, EndClosures, EndCompile, output, ClosuresDone
    <2>6. CASE Make
      BY <2>6 DEF Make, output, ClosuresDone, LoadInvariant, Progress
    <2> QED BY <2>1, <2>2, <2>3, <2>4, <2>5, <2>6 DEF Next, All
  <1>3. ClosuresDone => InitsDefined
    BY DEF ClosuresDone, InitsDefined
  <1> QED BY <1>1, <1>2, <1>3, LoadInvariantHolds, PTL DEF Spec

-----------------------------------------------------------------------------
(* Cycles.                                                                 *)

\* Each call on the stack is for a parent of the call below it.
StackPath ==
  /\ \A n \in 1..Len(stack) : /\ stack[n].class \in All
                              /\ stack[n].todo \subseteq Parents(stack[n].class)
  /\ \A n \in 1..(Len(stack) - 1) : stack[n + 1].class \in Parents(stack[n].class)

\* A call for a class of a cycle has a class of the cycle to visit, or waits
\* for the call that visits one.
Waiting(S) ==
  /\ pc \in {"rank", "crashed"}
  /\ pc = "rank" =>
       /\ \A n \in 1..Len(stack) :
            stack[n].class \in S =>
              stack[n].todo \cap S # {} \/ (n < Len(stack) /\ stack[n + 1].class \in S)
       /\ S \ roots # {} => stack # <<>> /\ stack[1].class \in S

CyclesWait == \A S \in SUBSET Local : Cyclic(S) => Waiting(S)

CycleInvariant ==
  TypeOK /\ StackPath /\ CyclesWait /\ (Acyclic => pc # "crashed")

\* A stack as deep as there is room for holds some class twice.
LEMMA DeepStackCycles ==
  ASSUME TypeOK, StackPath, Overflow
  PROVE  ~Acyclic
  <1>1. /\ Len(stack) = MaxDepth /\ stack[MaxDepth].todo # {} /\ MaxDepth \in Nat
        /\ MaxDepth > Cardinality(Local)
    BY DepthAssumption DEF Overflow, Last
  <1>2. ASSUME NEW n \in 1..MaxDepth PROVE stack[n].class \in Local
    <2>1. Parents(stack[n].class) # {} /\ stack[n].class \in All
      BY <1>1 DEF StackPath
    <2> QED BY <2>1, ParentsFact
  <1>3. IsFiniteSet(Local) /\ Cardinality(Local) \in Nat
    BY Kinds, FiniteAssumption, FS_Subset, FS_CardinalityType
  <1>4. IsFiniteSet(1..MaxDepth) /\ Cardinality(1..MaxDepth) = MaxDepth
    BY <1>1, FS_Interval
  <1> DEFINE f == [n \in 1..MaxDepth |-> stack[n].class]
  <1>5. f \in [1..MaxDepth -> Local] /\ Cardinality(Local) < Cardinality(1..MaxDepth)
    BY <1>1, <1>2, <1>3, <1>4
  <1>6. PICK x, y \in 1..MaxDepth : x # y /\ f[x] = f[y]
    <2> HIDE DEF f
    <2> QED BY <1>3, <1>4, <1>5, FS_PigeonHole
  <1>7. PICK u, v \in 1..MaxDepth : u < v /\ stack[u].class = stack[v].class
    BY <1>1, <1>6
  <1> DEFINE S == {stack[n].class : n \in u..(v - 1)}
  <1>8. S \in SUBSET Local
    BY <1>1, <1>2
  <1>9. stack[u].class \in S
    BY <1>1, <1>7
  <1>10. ASSUME NEW c \in S PROVE Parents(c) \cap S # {}
    <2>1. PICK n \in u..(v - 1) : c = stack[n].class
      OBVIOUS
    <2>2. stack[n + 1].class \in Parents(c)
      BY <1>1, <2>1 DEF StackPath
    <2>3. stack[n + 1].class \in S
      <3>1. CASE n + 1 = v
        BY <1>7, <1>9, <3>1
      <3>2. CASE n + 1 # v
        BY <1>1, <3>2
      <3> QED BY <3>1, <3>2
    <2> QED BY <2>2, <2>3
  <1>11. Cyclic(S)
    <2> HIDE DEF S
    <2> QED BY <1>9, <1>10 DEF Cyclic
  <1> QED BY <1>8, <1>11 DEF Acyclic

\* The stack stays a path along the hierarchy.
LEMMA StackPathKept ==
  ASSUME TypeOK, StackPath, [Next]_vars
  PROVE  StackPath'
  <1>1. \A c \in All : Parents(c)' = Parents(c)
    BY SameHierarchy
  <1>2. ASSUME stack' = stack PROVE StackPath'
    BY <1>1, <1>2 DEF StackPath
  <1>3. ASSUME NEW e \in All, Begin(e) PROVE StackPath'
    <2>1. stack' = <<[class |-> e, todo |-> Parents(e)]>>
      BY <1>3 DEF Begin
    <2> QED BY <1>1, <2>1 DEF StackPath
  <1>4. ASSUME NEW e \in All, Visit(e) PROVE StackPath'
    <2> DEFINE m == Len(stack)
    <2>1. /\ m \in Nat \ {0} /\ Len(stack') = m + 1
          /\ \A n \in 1..(m - 1) : stack'[n] = stack[n]
          /\ stack'[m].class = stack[m].class /\ stack'[m].todo = stack[m].todo \ {e}
          /\ stack'[m + 1].class = e /\ stack'[m + 1].todo = Parents(e)
          /\ e \in stack[m].todo
      BY <1>4, Called
    <2>2. \A n \in 1..m : /\ stack'[n].class = stack[n].class
                          /\ stack'[n].todo \subseteq stack[n].todo
      BY <2>1
    <2>3. e \in Parents(stack[m].class)
      BY <2>1 DEF StackPath
    <2>4. ASSUME NEW n \in 1..(m + 1)
          PROVE  /\ stack'[n].class \in All
                 /\ stack'[n].todo \subseteq Parents(stack'[n].class)
      BY <2>1, <2>2, <2>4 DEF StackPath
    <2>5. ASSUME NEW n \in 1..m PROVE stack'[n + 1].class \in Parents(stack'[n].class)
      <3>1. CASE n = m
        BY <2>1, <2>3, <3>1
      <3>2. CASE n # m
        <4>1. n \in 1..(m - 1) /\ n + 1 \in 1..m
          BY <2>1, <3>2
        <4>2. stack[n + 1].class \in Parents(stack[n].class)
          BY <4>1 DEF StackPath
        <4> QED BY <2>2, <4>1, <4>2
      <3> QED BY <3>1, <3>2
    <2> HIDE DEF m
    <2> QED BY <1>1, <2>1, <2>4, <2>5 DEF StackPath
  <1>5. CASE Return
    <2>1. /\ Len(stack) \in Nat \ {0} /\ Len(stack') = Len(stack) - 1
          /\ \A n \in 1..(Len(stack) - 1) : stack'[n] = stack[n]
      BY <1>5, Returned
    <2>2. \A n \in 1..Len(stack') : n \in 1..Len(stack) /\ stack'[n] = stack[n]
      BY <2>1
    <2>3. \A n \in 1..(Len(stack') - 1) :
            /\ n \in 1..(Len(stack) - 1)
            /\ stack'[n] = stack[n] /\ stack'[n + 1] = stack[n + 1]
      <3> TAKE n \in 1..(Len(stack') - 1)
      <3>1. n \in 1..(Len(stack) - 1) /\ n + 1 \in 1..(Len(stack) - 1)
        BY <2>1
      <3> QED BY <2>1, <3>1
    <2> QED BY <1>1, <2>2, <2>3 DEF StackPath
  <1>6. (\E c \in All : Compile(c) \/ CompileClosure(c) \/ Emit(c))
           \/ Overflow \/ EndRanking \/ EndCompile \/ EndClosures \/ Make \/ Register
           \/ EndLoad \/ UNCHANGED vars
        => stack' = stack
    BY DEF Compile, CompileClosure, Emit, Overflow, EndRanking, EndCompile, EndClosures,
           Make, Register, EndLoad, vars, ranking
  <1> QED BY <1>2, <1>3, <1>4, <1>5, <1>6 DEF Next, All

\* A cycle that the recursion has entered is never left.
LEMMA WaitingKept ==
  ASSUME TypeOK, StackPath, [Next]_vars, NEW S \in SUBSET Local, Cyclic(S), Waiting(S)
  PROVE  Waiting(S)'
  <1>1. \A c \in S : c \in All /\ Parents(c) \cap S # {}
    BY Kinds DEF Cyclic, All
  <1>2. ASSUME NEW e \in All, Begin(e) PROVE Waiting(S)'
    <2>1. /\ pc' = pc /\ pc \in Ranking /\ stack = <<>> /\ roots' = roots \ {e}
          /\ stack' = <<[class |-> e, todo |-> Parents(e)]>>
      BY <1>2 DEF Begin
    <2>2. pc = "rank" /\ S \ roots = {}
      BY <2>1 DEF Waiting, Ranking
    <2>3. /\ Len(stack') = 1 /\ stack'[1].class = e /\ stack'[1].todo = Parents(e)
          /\ stack' # <<>>
      BY <2>1
    <2>4. S \ roots' # {} => e \in S
      BY <2>1, <2>2
    <2> QED BY <1>1, <2>1, <2>2, <2>3, <2>4 DEF Waiting
  <1>3. ASSUME NEW e \in All, Visit(e) PROVE Waiting(S)'
    <2> DEFINE m == Len(stack)
    <2>1. /\ m \in Nat \ {0} /\ Len(stack') = m + 1
          /\ \A n \in 1..(m - 1) : stack'[n] = stack[n]
          /\ stack'[m].class = stack[m].class /\ stack'[m].todo = stack[m].todo \ {e}
          /\ stack'[m + 1].class = e /\ stack'[m + 1].todo = Parents(e)
      BY <1>3, Called
    <2>2. pc' = pc /\ roots' = roots
      BY <1>3 DEF Visit
    <2>3. ASSUME pc = "rank", NEW n \in 1..(m + 1), stack'[n].class \in S
          PROVE  stack'[n].todo \cap S # {} \/ (n < m + 1 /\ stack'[n + 1].class \in S)
      <3>1. CASE n = m + 1
        BY <1>1, <2>1, <2>3, <3>1
      <3>2. CASE n = m
        <4>1. stack[m].todo \cap S # {}
          BY <2>1, <2>3, <3>2 DEF Waiting
        <4> QED BY <2>1, <3>2, <4>1
      <3>3. CASE n \in 1..(m - 1)
        <4>1. stack'[n] = stack[n] /\ stack'[n + 1].class = stack[n + 1].class
          <5>1. CASE n + 1 = m
            BY <2>1, <3>3, <5>1
          <5>2. CASE n + 1 # m
            BY <2>1, <3>3, <5>2
          <5> QED BY <5>1, <5>2
        <4> QED BY <2>1, <2>3, <3>3, <4>1 DEF Waiting
      <3> QED BY <2>1, <3>1, <3>2, <3>3
    <2>4. stack' # <<>> /\ stack'[1].class = stack[1].class
      <3>1. stack'[1].class = stack[1].class
        BY <2>1
      <3> QED BY <2>1, <3>1, EmptySeq
    <2> HIDE DEF m
    <2> QED BY <2>1, <2>2, <2>3, <2>4 DEF Waiting
  <1>4. CASE Return
    <2> DEFINE m == Len(stack)
    <2>1. /\ m \in Nat \ {0} /\ Len(stack') = m - 1 /\ stack' \in Seq(Frame)
          /\ \A n \in 1..(m - 1) : stack'[n] = stack[n]
          /\ stack[m].todo = {}
      BY <1>4, Returned
    <2>2. pc' = pc /\ roots' = roots
      BY <1>4 DEF Return
    <2>3. pc = "rank" => stack[m].class \notin S
      BY <2>1 DEF Waiting
    <2>4. ASSUME pc = "rank", NEW n \in 1..(m - 1), stack'[n].class \in S
          PROVE  stack'[n].todo \cap S # {} \/ (n < m - 1 /\ stack'[n + 1].class \in S)
      <3>1. stack[n].todo \cap S # {} \/ stack[n + 1].class \in S
        BY <2>1, <2>4 DEF Waiting
      <3>2. n + 1 = m => stack[n + 1].class \notin S
        BY <2>3, <2>4
      <3> QED BY <2>1, <3>1, <3>2
    <2>5. pc = "rank" /\ S \ roots # {} => m > 1
      BY <2>1, <2>3 DEF Waiting
    <2>6. m > 1 => stack' # <<>> /\ stack'[1].class = stack[1].class
      BY <2>1, EmptySeq
    <2> HIDE DEF m
    <2> QED BY <2>1, <2>2, <2>4, <2>5, <2>6 DEF Waiting
  <1>5. CASE EndRanking
    <2>1. stack = <<>> /\ roots = {} /\ pc \in Ranking
      BY <1>5 DEF EndRanking
    <2> QED BY <2>1 DEF Waiting, Ranking, Cyclic
  <1>6. CASE Overflow
    BY <1>6 DEF Overflow, Waiting
  <1>7. ASSUME UNCHANGED <<pc, stack, roots>> PROVE Waiting(S)'
    BY <1>7 DEF Waiting
  <1>8. CASE UNCHANGED vars
    BY <1>7, <1>8 DEF vars
  <1>9. ~((\E c \in All : Compile(c) \/ CompileClosure(c) \/ Emit(c))
           \/ EndCompile \/ EndClosures \/ Make \/ Register \/ EndLoad)
    BY DEF Waiting, Compile, CompileClosure, Emit, EndCompile, EndClosures, Make,
           Register, EndLoad
  <1> QED BY <1>2, <1>3, <1>4, <1>5, <1>6, <1>8, <1>9 DEF Next, All

\* Whatever the hierarchy and the stack PHP has (if it has a frame more than
\* there are classes): the recursion is too deep for cycles and for nothing
\* else, and a hierarchy with a cycle is never compiled.
THEOREM CrashesOnCycles == Spec => []OnlyCyclesCrash
  <1>1. Init => CycleInvariant
    <2> SUFFICES ASSUME Init PROVE CycleInvariant
      OBVIOUS
    <2>1. Len(stack) = 0 /\ stack = <<>> /\ pc = "rank" /\ roots = Local
      BY EmptySeq DEF Init
    <2>2. StackPath
      BY <2>1 DEF StackPath
    <2>3. CyclesWait
      BY <2>1 DEF CyclesWait, Waiting
    <2> QED BY <2>1, <2>2, <2>3, TypeInit DEF CycleInvariant
  <1>2. ASSUME CycleInvariant, [Next]_vars PROVE CycleInvariant'
    <2>1. TypeOK' /\ StackPath'
      BY <1>2, TypeKept, StackPathKept DEF CycleInvariant
    <2>2. \A c \in Local : Parents(c)' = Parents(c)
      BY <1>2, SameHierarchy, Kinds DEF All
    <2>3. \A S \in SUBSET Local : Cyclic(S)' <=> Cyclic(S)
      BY <2>2 DEF Cyclic
    <2>4. CyclesWait'
      <3> SUFFICES ASSUME NEW S \in SUBSET Local, Cyclic(S) PROVE Waiting(S)'
        BY <2>3 DEF CyclesWait
      <3> QED BY <1>2, WaitingKept DEF CycleInvariant, CyclesWait
    <2>5. Acyclic' => Acyclic
      BY <2>3 DEF Acyclic
    <2>6. pc' = "crashed" /\ pc # "crashed" => Overflow
      BY <1>2 DEF vars, Next, Begin, Visit, Compile, CompileClosure, Emit, Return,
                  EndRanking, EndCompile, EndClosures, Make, Register, EndLoad
    <2>7. Acyclic' => pc' # "crashed"
      BY <1>2, <2>5, <2>6, DeepStackCycles DEF CycleInvariant
    <2> QED BY <2>1, <2>4, <2>7 DEF CycleInvariant
  <1>3. CycleInvariant => OnlyCyclesCrash
    BY DEF CycleInvariant, CyclesWait, Waiting, Acyclic, OnlyCyclesCrash
  <1> QED BY <1>1, <1>2, <1>3, PTL DEF Spec
=============================================================================
