----------------------- MODULE ActivationStackProofs -----------------------
(***************************************************************************)
(* Proofs that the memory frames behave as a stack, for every size of the  *)
(* frame block and every set of heap frames, of zvals and of values.       *)
(*                                                                         *)
(*   1. StackInvariant: prev links the frames of the live methods into one *)
(*      chain, and no other frame is in use (BalancedStack).               *)
(*   2. No step touches the frame of a suspended method                    *)
(*      (CallerUndisturbed).                                               *)
(*   3. For methods with no try block that copy no unset zval, each step   *)
(*      is a step of ActivationStack or none (FramesImplementStack).       *)
(***************************************************************************)
EXTENDS ZephirActivations, ZephirMemoryProofs, WellFoundedInduction, SequenceTheorems

\* A set of natural numbers that is not empty has a smallest element.
LEMMA Smallest ==
  ASSUME NEW T \in SUBSET Nat, T # {}
  PROVE  \E k \in T : \A j \in T : k <= j
  <1>1. PICK k \in T : \A j \in T : ~ (<<j, k>> \in OpToRel(<, Nat))
    BY NatLessThanWellFounded, WFMin
  <1>2. \A j \in T : ~ (j < k)
    BY <1>1 DEF OpToRel
  <1> QED BY <1>2

-----------------------------------------------------------------------------
(* Sequences as functions.                                                 *)

\* The first n elements of h.
Prefix(h, n) == [i \in 1..n |-> h[i]]

\* It is a sequence of length n.
LEMMA PrefixFacts ==
  ASSUME NEW h, NEW n \in Nat, NEW S, \A i \in 1..n : h[i] \in S
  PROVE  /\ Prefix(h, n) \in Seq(S)
         /\ Len(Prefix(h, n)) = n
         /\ \A i \in 1..n : Prefix(h, n)[i] = h[i]
  <1>1. Prefix(h, n) \in [1..n -> S]
    BY DEF Prefix
  <1>2. Prefix(h, n) \in Seq(S)
    BY <1>1, SeqDef
  <1>3. DOMAIN Prefix(h, n) = 1..n
    BY DEF Prefix
  <1>4. Len(Prefix(h, n)) = n
    BY <1>2, <1>3, LenProperties
  <1> QED BY <1>2, <1>4 DEF Prefix

\* Appending the next element of h.
LEMMA PrefixAppend ==
  ASSUME NEW h, NEW n \in Nat
  PROVE  Append(Prefix(h, n), h[n + 1]) = Prefix(h, n + 1)
  <1> DEFINE S == {h[i] : i \in 1..(n + 1)}
  <1> DEFINE s == Prefix(h, n)
  <1> DEFINE t == Prefix(h, n + 1)
  <1>1. s \in Seq(S) /\ Len(s) = n /\ \A i \in 1..n : s[i] = h[i]
    <2>1. \A i \in 1..n : h[i] \in S
      OBVIOUS
    <2> HIDE DEF S
    <2> QED BY <2>1, PrefixFacts
  <1>2. t \in Seq(S) /\ Len(t) = n + 1 /\ \A i \in 1..(n + 1) : t[i] = h[i]
    <2>1. n + 1 \in Nat /\ \A i \in 1..(n + 1) : h[i] \in S
      OBVIOUS
    <2> HIDE DEF S
    <2> QED BY <2>1, PrefixFacts, Zenon
  <1>3. h[n + 1] \in S
    OBVIOUS
  <1> HIDE DEF s, t, S
  <1>4. /\ Append(s, h[n + 1]) \in Seq(S) /\ Len(Append(s, h[n + 1])) = n + 1
        /\ \A i \in 1..n : Append(s, h[n + 1])[i] = h[i]
        /\ Append(s, h[n + 1])[n + 1] = h[n + 1]
    BY <1>1, <1>3, AppendFacts
  <1>5. \A i \in 1..(n + 1) : Append(s, h[n + 1])[i] = t[i]
    BY <1>2, <1>4
  <1>6. Append(s, h[n + 1]) = t
    BY <1>2, <1>4, <1>5, SeqEqual
  <1> QED BY <1>6 DEF s, t

\* Dropping the last element of h.
LEMMA PrefixFront ==
  ASSUME NEW h, NEW n \in Nat
  PROVE  SubSeq(Prefix(h, n + 1), 1, n) = Prefix(h, n)
  <1> DEFINE S == {h[i] : i \in 1..(n + 1)}
  <1> DEFINE s == Prefix(h, n)
  <1> DEFINE t == Prefix(h, n + 1)
  <1>1. s \in Seq(S) /\ Len(s) = n /\ \A i \in 1..n : s[i] = h[i]
    <2>1. \A i \in 1..n : h[i] \in S
      OBVIOUS
    <2> HIDE DEF S
    <2> QED BY <2>1, PrefixFacts
  <1>2. t \in Seq(S) /\ Len(t) = n + 1 /\ \A i \in 1..(n + 1) : t[i] = h[i]
    <2>1. n + 1 \in Nat /\ \A i \in 1..(n + 1) : h[i] \in S
      OBVIOUS
    <2> HIDE DEF S
    <2> QED BY <2>1, PrefixFacts, Zenon
  <1> HIDE DEF s, t, S
  <1>3. \A i \in 1..n : t[i] \in S
    BY <1>2, ElementOfSeq
  <1>4. /\ SubSeq(t, 1, n) \in Seq(S)
        /\ Len(SubSeq(t, 1, n)) = n
        /\ \A i \in 1..n : SubSeq(t, 1, n)[i] = t[i]
    BY <1>3, SubSeqProperties
  <1>5. \A i \in 1..n : SubSeq(t, 1, n)[i] = s[i]
    BY <1>1, <1>2, <1>4
  <1>6. SubSeq(t, 1, n) = s
    BY <1>1, <1>4, <1>5, SeqEqual
  <1> QED BY <1>6 DEF s, t

-----------------------------------------------------------------------------
(* The frames of the methods on the C stack.                               *)

Depth == Cardinality(live)

\* c are these frames from the outermost to the active one: each links to the
\* one before it, and the first to none of them.
IsChain(c) ==
  /\ c \in [1..Depth -> live]
  /\ \A f \in live : \E i \in 1..Depth : c[i] = f
  /\ \A i, j \in 1..Depth : c[i] = c[j] => i = j
  /\ \A i \in 1..(Depth - 1) : prev[c[i + 1]] = c[i]
  /\ Depth > 0 => c[Depth] = active /\ prev[c[1]] \notin live

\* A finite number of methods are on the C stack.
LEMMA LiveFinite ==
  StructureType => IsFiniteSet(live) /\ Depth \in Nat /\ (Depth = 0 <=> live = {})
  <1> SUFFICES ASSUME StructureType
               PROVE  IsFiniteSet(live) /\ Depth \in Nat /\ (Depth = 0 <=> live = {})
    OBVIOUS
  <1>1. IsFiniteSet(Permanent)
    BY FramesAssumption, FS_Interval DEF Permanent
  <1>2. IsFiniteSet(Frames)
    BY <1>1, FramesAssumption, FS_Union DEF Frames
  <1>3. IsFiniteSet(live)
    BY <1>2, FS_Subset DEF StructureType
  <1> QED BY <1>3, FS_CardinalityType, FS_EmptySet DEF Depth

\* What the recursive function finds by following prev.
LEMMA UpToChain ==
  \A c : StructureType /\ IsChain(c) =>
           ActivationsUpTo[active] = [i \in 1..Depth |-> Activation(c[i])]
  <1> SUFFICES ASSUME NEW c, StructureType, IsChain(c)
               PROVE  ActivationsUpTo[active] = [i \in 1..Depth |-> Activation(c[i])]
    OBVIOUS
  <1> DEFINE D == Frames \cup {NULL}
  <1> DEFINE a == [i \in 1..Depth |-> Activation(c[i])]
  <1> DEFINE Unfolded(g) ==
        [f \in D |-> IF f \in live THEN Append(g[prev[f]], Activation(f)) ELSE << >>]
  <1> DEFINE at(f) == CHOOSE i \in 1..Depth : c[i] = f
  <1> DEFINE w == [f \in D |-> IF f \in live THEN Prefix(a, at(f)) ELSE << >>]
  <1>0. Depth \in Nat /\ live \subseteq Frames /\ (Depth = 0 <=> live = {})
        /\ prev \in [Frames -> D] /\ active \in D
    BY LiveFinite DEF StructureType
  <1>1. /\ \A k \in 1..Depth : c[k] \in live /\ at(c[k]) = k
        /\ \A f \in live : at(f) \in 1..Depth /\ c[at(f)] = f
    BY DEF IsChain
  <1>2. \A k \in 1..Depth : /\ k - 1 \in Nat /\ k - 1 + 1 = k
                            /\ Append(Prefix(a, k - 1), Activation(c[k])) = Prefix(a, k)
    <2> SUFFICES ASSUME NEW k \in 1..Depth
                 PROVE  /\ k - 1 \in Nat /\ k - 1 + 1 = k
                        /\ Append(Prefix(a, k - 1), Activation(c[k])) = Prefix(a, k)
      OBVIOUS
    <2>1. k - 1 \in Nat /\ k - 1 + 1 = k
      BY <1>0
    <2>2. a[k] = Activation(c[k])
      OBVIOUS
    <2> HIDE DEF a
    <2>3. Append(Prefix(a, k - 1), a[k - 1 + 1]) = Prefix(a, k - 1 + 1)
      BY <2>1, PrefixAppend
    <2> QED BY <2>1, <2>2, <2>3
  <1>3. Prefix(a, 0) = << >>
    <2> HIDE DEF a
    <2>1. Len(Prefix(a, 0)) = 0 /\ Prefix(a, 0) \in Seq({})
      BY PrefixFacts
    <2> QED BY <2>1, EmptySeq
  <1>4. \A k \in 1..Depth :
          /\ prev[c[k]] \in D
          /\ IF k = 1 THEN prev[c[k]] \notin live
                      ELSE prev[c[k]] = c[k - 1] /\ k - 1 \in 1..Depth
    <2> SUFFICES ASSUME NEW k \in 1..Depth
                 PROVE  /\ prev[c[k]] \in D
                        /\ IF k = 1 THEN prev[c[k]] \notin live
                                    ELSE prev[c[k]] = c[k - 1] /\ k - 1 \in 1..Depth
      OBVIOUS
    <2>1. CASE k = 1
      BY <2>1, <1>0, <1>1 DEF IsChain
    <2>2. CASE k # 1
      <3>1. k - 1 \in 1..(Depth - 1) /\ k - 1 + 1 = k /\ k - 1 \in 1..Depth
        BY <2>2, <1>0
      <3>2. prev[c[k - 1 + 1]] = c[k - 1]
        BY <3>1 DEF IsChain
      <3> QED BY <2>2, <3>1, <3>2, <1>0, <1>1
    <2> QED BY <2>1, <2>2
  <1> HIDE DEF a
  <1>5. w = Unfolded(w)
    <2>1. ASSUME NEW f \in D PROVE w[f] = Unfolded(w)[f]
      <3>1. CASE f \notin live
        BY <3>1
      <3>2. CASE f \in live
        <4> DEFINE k == at(f)
        <4>1. k \in 1..Depth /\ c[k] = f
          BY <3>2, <1>1
        <4> HIDE DEF k
        <4>2. w[prev[f]] = Prefix(a, k - 1)
          <5>1. CASE k = 1
            BY <5>1, <4>1, <1>3, <1>4
          <5>2. CASE k # 1
            <6>1. prev[f] = c[k - 1] /\ k - 1 \in 1..Depth /\ prev[f] \in D
              BY <5>2, <4>1, <1>4
            <6>2. c[k - 1] \in live /\ at(c[k - 1]) = k - 1
              BY <6>1, <1>1
            <6> QED BY <6>1, <6>2
          <5> QED BY <5>1, <5>2
        <4>3. w[f] = Prefix(a, k)
          BY <3>2 DEF k
        <4> QED BY <3>2, <4>1, <4>2, <4>3, <1>2
      <3> QED BY <3>1, <3>2
    <2> QED BY <2>1
  <1>6. ActivationsUpTo = Unfolded(ActivationsUpTo)
    <2>1. ActivationsUpTo = CHOOSE g : g = Unfolded(g)
      BY DEF ActivationsUpTo
    <2> QED BY <2>1, <1>5
  <1> DEFINE u == ActivationsUpTo
  <1>7. \A f \in D : u[f] = IF f \in live THEN Append(u[prev[f]], Activation(f)) ELSE << >>
    BY <1>6
  <1> HIDE DEF u, w
  <1>8. \A k \in 1..Depth : u[c[k]] = Prefix(a, k)
    <2> DEFINE T == {k \in 1..Depth : u[c[k]] # Prefix(a, k)}
    <2> SUFFICES ASSUME T # {} PROVE FALSE
      OBVIOUS
    <2>1. PICK k \in T : \A j \in T : k <= j
      <3>1. T \in SUBSET Nat
        BY <1>0
      <3> HIDE DEF T
      <3> QED BY <3>1, Smallest
    <2>2. u[prev[c[k]]] = Prefix(a, k - 1)
      <3>1. CASE k = 1
        BY <3>1, <1>0, <1>3, <1>4, <1>7
      <3>2. CASE k # 1
        <4>1. k - 1 \in 1..Depth /\ prev[c[k]] = c[k - 1]
          BY <3>2, <1>4
        <4>2. k - 1 \notin T
          BY <2>1, <1>0
        <4> QED BY <4>1, <4>2
      <3> QED BY <3>1, <3>2
    <2>3. c[k] \in live /\ c[k] \in D
      BY <1>0, <1>1
    <2> QED BY <2>2, <2>3, <1>2, <1>7
  <1>9. CASE Depth = 0
    BY <1>9, <1>0, <1>3, <1>7 DEF u, a, Prefix
  <1>10. CASE Depth # 0
    <2>1. Depth \in 1..Depth /\ c[Depth] = active
      BY <1>10, <1>0 DEF IsChain
    <2> QED BY <2>1, <1>8 DEF u, a, Prefix
  <1> QED BY <1>9, <1>10

-----------------------------------------------------------------------------
(* The frames in use are those of the methods on the C stack.              *)

\* A live method is on a frame the stack has reached; until a fatal error those
\* are the only ones.
LiveInUse ==
  \A f \in Frames : /\ f \in live => InUse(f)
                    /\ ~unclean /\ InUse(f) => f \in live

\* The frame below that of a live method is in use as well.
PrevInUse == \A f \in live : prev[f] \in Frames => InUse(prev[f])

StackInvariant ==
  /\ StructureInvariant
  /\ LiveInUse
  /\ PrevInUse
  /\ \E c : IsChain(c)

\* The innermost method is the one that owns the active frame.
LEMMA ActiveLive ==
  StackInvariant => (live # {} => active \in live)
  <1> SUFFICES ASSUME StackInvariant, live # {} PROVE active \in live
    OBVIOUS
  <1>1. PICK c : IsChain(c)
    BY DEF StackInvariant
  <1>2. Depth \in Nat /\ Depth # 0
    BY LiveFinite DEF StackInvariant, StructureInvariant
  <1>3. Depth \in 1..Depth
    BY <1>2
  <1> QED BY <1>1, <1>2, <1>3 DEF IsChain

\* Every way of pushing a frame takes one that no live method is on, empty, and
\* links it to the active one.
Pushed(f) ==
  /\ f \in Frames \ live /\ Enter(f)
  /\ addresses'[f] = << >>
  /\ \A g \in live : addresses'[g] = addresses[g] /\ prev'[g] = prev[g]
  /\ IF live = {} THEN prev'[f] # f ELSE prev'[f] = active
  /\ \A g \in live : prev[g] # f
  /\ UNCHANGED unclean
  /\ \A g \in Frames : /\ g = f \/ g = prev'[f] => InUse(g)'
                       /\ live # {} /\ InUse(g) => InUse(g)'
                       /\ ~unclean /\ InUse(g)' => g \in live \cup {f}

\* Each of the four ways of growing the stack does it.
LEMMA GrowPushes ==
  ASSUME StackInvariant, Grow
  PROVE  \E f : Pushed(f)
  <1> USE DEF StackInvariant, StructureInvariant, StructureType
  <1>1. CASE GrowUninitialized
    <2> USE <1>1 DEF GrowUninitialized, InitializeMemory
    <2>1. live = {} /\ Enter(1) /\ active' = 1 /\ 1 \in Permanent /\ 1 \in Frames
      BY FrameFacts DEF Enter
    <2>2. prev'[1] = NULL /\ addresses'[1] = << >> /\ NULL \notin Frames
      BY <2>1, BlockFacts, FrameFacts DEF NoAddresses
    <2>3. \A g \in Frames : InUse(g)' <=> g = 1
      BY <2>1, <2>2, FrameFacts DEF InUse, Permanent
    <2>4. Pushed(1)
      BY <2>1, <2>2, <2>3 DEF Pushed
    <2> QED BY <2>4
  <1>2. CASE GrowFirst
    <2> USE <1>2 DEF GrowFirst, request, observed
    <2>1. live = {} /\ Enter(1) /\ active' = 1 /\ 1 \in Permanent /\ 1 \in Frames
      BY ActiveLive, FrameFacts DEF Enter
    <2>2. prev'[1] = NULL /\ addresses'[1] = << >> /\ NULL \notin Frames
      BY <2>1, FrameFacts DEF BlockLinks, UnusedEmpty, InUse
    <2>3. \A g \in Frames : InUse(g)' <=> g = 1 \/ InUse(g)
      BY <2>1, <2>2, FrameFacts DEF InUse, Permanent
    <2>4. Pushed(1)
      BY <2>1, <2>2, <2>3 DEF Pushed, LiveInUse
    <2> QED BY <2>4
  <1>3. CASE GrowNext
    <2> USE <1>3 DEF GrowNext, request, observed
    <2> DEFINE f == active + 1
    <2>1. active \in 1..(NumPreallocated - 1)
      BY FrameFacts DEF HeapLinks, Frames
    <2>2. /\ next[active] = f /\ f \in Permanent /\ f \in 2..NumPreallocated
          /\ active \in Permanent /\ active \in Nat
      BY <2>1, FrameFacts, FramesAssumption DEF BlockLinks
    <2>3. Enter(f) /\ active' = f /\ f \in Frames /\ prev[f] = active
      BY <2>1, <2>2, FrameFacts DEF Enter, BlockLinks
    <2>4. ~InUse(f) /\ InUse(active)
      BY <2>1, <2>2, FrameFacts DEF InUse
    <2>5. \A g \in Frames : InUse(g)' <=> g = f \/ InUse(g)
      BY <2>1, <2>2, <2>3, FrameFacts, SMTT(60) DEF InUse, Permanent
    <2>6. addresses[f] = << >> /\ f \notin live
      BY <2>3, <2>4 DEF UnusedEmpty, LiveInUse
    <2>7. f # active /\ active \in Frames
      BY <2>2, FrameFacts
    <2>8. Pushed(f)
      <3> HIDE DEF f
      <3> QED BY <2>3, <2>4, <2>5, <2>6, <2>7 DEF Pushed, LiveInUse, PrevInUse
    <2> QED BY <2>8
  <1>4. CASE GrowHeap
    <2>1. PICK f \in HeapFrames \ heap :
            /\ heap' = heap \cup {f}
            /\ prev' = [prev EXCEPT ![f] = active]
            /\ addresses' = [addresses EXCEPT ![f] = << >>]
            /\ Enter(f)
      BY <1>4 DEF GrowHeap
    <2>2. /\ f \in Frames /\ f \notin Permanent /\ f # NULL
          /\ active # NULL /\ unclean' = unclean /\ next[active] = NULL
      BY <1>4, FrameFacts DEF GrowHeap, request
    <2>3. ~InUse(f) /\ f \notin live /\ active' = f
      BY <2>1, <2>2 DEF InUse, LiveInUse, Enter
    <2>4. active \in heap \cup {NumPreallocated}
      <3>1. active \notin 1..(NumPreallocated - 1)
        BY <2>2, FrameFacts DEF BlockLinks
      <3> QED BY <3>1, <2>2, FrameFacts DEF HeapLinks, Frames
    <2>5. \A g \in Frames : InUse(g)' <=> g = f \/ InUse(g)
      <3>1. \A g \in Permanent : InUse(g) /\ InUse(g)'
        BY <2>2, <2>3, <2>4, FrameFacts DEF InUse, Permanent
      <3> QED BY <2>1, <2>2, <2>3, <3>1 DEF InUse
    <2>6. active \in Frames /\ active # f /\ InUse(active)
      BY <2>2, <2>3, <2>4, FrameFacts DEF InUse
    <2>7. prev'[f] = active /\ addresses'[f] = << >>
      BY <2>1, <2>2
    <2>8. \A g \in live : addresses'[g] = addresses[g] /\ prev'[g] = prev[g]
      BY <2>1, <2>3
    <2>9. live = {} => prev'[f] # f
      BY <2>6, <2>7
    <2>10. \A g \in Frames : g = f \/ g = prev'[f] => InUse(g)'
      BY <2>5, <2>6, <2>7
    <2>11. \A g \in Frames : /\ live # {} /\ InUse(g) => InUse(g)'
                             /\ ~unclean /\ InUse(g)' => g \in live \cup {f}
      BY <2>5 DEF LiveInUse
    <2>12. \A g \in live : prev[g] # f
      BY <2>2, <2>3 DEF PrevInUse
    <2>13. Pushed(f)
      BY <2>1, <2>2, <2>3, <2>7, <2>8, <2>9, <2>10, <2>11, <2>12 DEF Pushed
    <2> QED BY <2>13
  <1> QED BY <1>1, <1>2, <1>3, <1>4 DEF Grow

\* Pushing a frame on top of the chain.
Extended(c, n, f) == [i \in 1..(n + 1) |-> IF i = n + 1 THEN f ELSE c[i]]

\* The new frame is the last of the longer chain.
LEMMA PushedChain ==
  ASSUME StructureInvariant, StructureInvariant', PrevInUse, LiveInUse,
         NEW n, n = Depth, NEW c, IsChain(c), NEW f, Pushed(f)
  PROVE  Depth' = n + 1 /\ IsChain(Extended(c, n, f))'
  <1> SUFFICES ASSUME NEW d, d = Extended(c, n, f) PROVE Depth' = n + 1 /\ IsChain(d)'
    OBVIOUS
  <1>1. n \in Nat /\ (n = 0 <=> live = {}) /\ IsFiniteSet(live)
    BY LiveFinite DEF StructureInvariant
  <1>2. live' = live \cup {f} /\ active' = f /\ f \notin live
    BY DEF Pushed, Enter
  <1>3. Depth' = n + 1
    BY <1>1, <1>2, FS_AddElement DEF Depth
  <1>4. /\ c \in [1..n -> live]
        /\ \A g \in live : \E i \in 1..n : c[i] = g
        /\ \A i, j \in 1..n : c[i] = c[j] => i = j
        /\ \A i \in 1..(n - 1) : prev[c[i + 1]] = c[i]
        /\ n > 0 => c[n] = active /\ prev[c[1]] \notin live
    BY DEF IsChain
  <1>5. d \in [1..(n + 1) -> live'] /\ d[n + 1] = f /\ \A i \in 1..n : d[i] = c[i]
    BY <1>1, <1>2, <1>4 DEF Extended
  <1>6. \A g \in live' : \E i \in 1..(n + 1) : d[i] = g
    <2> SUFFICES ASSUME NEW g \in live' PROVE \E i \in 1..(n + 1) : d[i] = g
      OBVIOUS
    <2>1. CASE g = f
      BY <2>1, <1>1, <1>5
    <2>2. CASE g # f
      <3>1. PICK i \in 1..n : c[i] = g
        BY <2>2, <1>2, <1>4
      <3> QED BY <3>1, <1>1, <1>5
    <2> QED BY <2>1, <2>2
  <1>7. \A i, j \in 1..(n + 1) : d[i] = d[j] => i = j
    <2>1. \A i \in 1..(n + 1) : i = n + 1 \/ i \in 1..n
      BY <1>1
    <2>2. \A i \in 1..n : d[i] \in live /\ d[i] # f
      BY <1>2, <1>4, <1>5
    <2> QED BY <2>1, <2>2, <1>4, <1>5
  <1>8. \A i \in 1..n : prev'[d[i + 1]] = d[i]
    <2> SUFFICES ASSUME NEW i \in 1..n PROVE prev'[d[i + 1]] = d[i]
      OBVIOUS
    <2>1. CASE i = n
      <3>1. live # {} /\ c[n] = active
        BY <2>1, <1>1, <1>4
      <3>2. prev'[f] = active
        BY <3>1 DEF Pushed
      <3> QED BY <2>1, <3>1, <3>2, <1>5
    <2>2. CASE i # n
      <3>1. i \in 1..(n - 1) /\ i + 1 \in 1..n
        BY <2>2, <1>1
      <3>2. prev'[c[i + 1]] = prev[c[i + 1]]
        BY <3>1, <1>4 DEF Pushed
      <3> QED BY <3>1, <3>2, <1>4, <1>5
    <2> QED BY <2>1, <2>2
  <1>9. prev'[d[1]] \notin live'
    <2>1. CASE n = 0
      <3>1. d[1] = f /\ live' = {f} /\ prev'[f] # f
        BY <2>1, <1>1, <1>2, <1>5 DEF Pushed
      <3> QED BY <3>1
    <2>2. CASE n # 0
      <3>1. 1 \in 1..n /\ n > 0
        BY <2>2, <1>1
      <3>2. d[1] = c[1] /\ c[1] \in live /\ prev[c[1]] \notin live /\ prev'[c[1]] = prev[c[1]]
        BY <3>1, <1>4, <1>5 DEF Pushed
      <3>3. prev[c[1]] # f
        BY <3>2 DEF Pushed
      <3> QED BY <3>2, <3>3, <1>2
    <2> QED BY <2>1, <2>2
  <1>10. d \in [1..Depth' -> live'] /\ \A g \in live' : \E i \in 1..Depth' : d[i] = g
    BY <1>3, <1>5, <1>6
  <1>11. \A i, j \in 1..Depth' : d[i] = d[j] => i = j
    BY <1>3, <1>7
  <1>12. \A i \in 1..(Depth' - 1) : prev'[d[i + 1]] = d[i]
    <2>1. Depth' - 1 = n
      BY <1>1, <1>3
    <2> QED BY <2>1, <1>8
  <1>13. Depth' > 0 => d[Depth'] = active' /\ prev'[d[1]] \notin live'
    BY <1>2, <1>3, <1>5, <1>9
  <1> QED BY <1>3, <1>10, <1>11, <1>12, <1>13 DEF IsChain

\* Popping the frame of a method leaves the frames below it as they are.
Popped(f) ==
  /\ f = active /\ f \in live
  /\ live' = live \ {f} /\ active' = prev[f]
  /\ \A g \in Frames : /\ InUse(g)' <=> InUse(g) /\ g # f
                       /\ g # f => prev'[g] = prev[g] /\ addresses'[g] = addresses[g]
                                   /\ cursor'[g] = cursor[g]
  /\ UNCHANGED unclean

\* So does the end of zephir_memory_restore_stack_common.
LEMMA PopPops ==
  ASSUME StructureInvariant, NEW f \in Frames, Pop(f)
  PROVE  Popped(f)
  <1> USE DEF StructureInvariant, StructureType
  <1>1. /\ f = active /\ f \in live /\ f # NULL
        /\ live' = live \ {f} /\ active' = prev[f]
        /\ addresses' = [addresses EXCEPT ![f] = << >>]
        /\ cursor' = [cursor EXCEPT ![f] = 0]
        /\ UNCHANGED unclean
    BY FrameFacts DEF Pop, request
  <1>2. \A g \in Frames : g # f => addresses'[g] = addresses[g] /\ cursor'[g] = cursor[g]
    BY <1>1
  <1>3. CASE f \in Permanent
    <2>1. heap' = heap /\ prev' = prev
      BY <1>3 DEF Pop
    <2>2. f \notin heap /\ f \in Nat /\ f \in 1..NumPreallocated
      BY <1>3, FrameFacts DEF Permanent
    <2>3. IF f = 1 THEN prev[f] = NULL ELSE prev[f] = f - 1 /\ f - 1 \in Permanent
      <3>1. CASE f = 1
        BY <3>1 DEF BlockLinks
      <3>2. CASE f # 1
        <4>1. f \in 2..NumPreallocated
          BY <3>2, <2>2, FramesAssumption
        <4>2. prev[f] = f - 1 /\ f - 1 \in 1..(NumPreallocated - 1)
          BY <4>1, FrameFacts DEF BlockLinks
        <4> QED BY <3>2, <4>2, FrameFacts
      <3> QED BY <3>1, <3>2
    <2>4. ASSUME NEW g \in Permanent PROVE InUse(g)' <=> InUse(g) /\ g # f
      <3>1. g \notin heap /\ g \in Nat /\ g >= 1
        <4>1. g \notin heap
          BY FrameFacts
        <4>2. g \in 1..NumPreallocated
          BY DEF Permanent
        <4> QED BY <4>1, <4>2, FramesAssumption
      <3>2. InUse(g) <=> g <= f
        BY <3>1, <1>1, <1>3 DEF InUse
      <3>3. InUse(g)' <=> f # 1 /\ g <= f - 1
        BY <3>1, <1>1, <2>1, <2>3, FrameFacts DEF InUse
      <3> QED BY <3>1, <3>2, <3>3, <2>2
    <2>5. ASSUME NEW g \in HeapFrames PROVE InUse(g)' <=> InUse(g) /\ g # f
      BY <2>1, <2>2, <1>3, FrameFacts DEF InUse
    <2> QED BY <1>1, <1>2, <2>1, <2>4, <2>5 DEF Popped, Frames
  <1>4. CASE f \notin Permanent
    <2>1. f \in HeapFrames /\ heap' = heap \ {f} /\ prev' = [prev EXCEPT ![f] = NULL] /\ f \in heap
      BY <1>1, <1>4 DEF Pop, FreeFrame, Frames, HeapLinks
    <2>2. prev[f] \in (heap \ {f}) \cup {NumPreallocated}
      <3>1. prev[f] \in heap \cup {NumPreallocated} /\ next[prev[f]] = f
        BY <2>1 DEF HeapLinks
      <3>2. prev[f] # f
        BY <3>1, <2>1, <1>1 DEF HeapLinks
      <3> QED BY <3>1, <3>2
    <2>3. ASSUME NEW g \in Permanent PROVE InUse(g) /\ InUse(g)' /\ g # f
      <3>1. g \in 1..NumPreallocated /\ g # f
        BY <1>4 DEF Permanent
      <3>2. InUse(g)
        BY <1>1, <1>4, FrameFacts DEF InUse
      <3>3. active' \in Permanent => active' = NumPreallocated
        BY <1>1, <2>2, FrameFacts
      <3>4. active' # NULL
        BY <1>1, <2>2, FrameFacts
      <3>5. g <= NumPreallocated
        BY <3>1, FramesAssumption
      <3> QED BY <3>1, <3>2, <3>3, <3>4, <3>5 DEF InUse
    <2>4. ASSUME NEW g \in HeapFrames PROVE InUse(g)' <=> InUse(g) /\ g # f
      BY <2>1, FrameFacts DEF InUse
    <2> QED BY <1>1, <1>2, <2>1, <2>3, <2>4 DEF Popped, Frames
  <1> QED BY <1>3, <1>4

\* The chain without its last frame.
LEMMA PoppedChain ==
  ASSUME StructureInvariant, StructureInvariant',
         NEW n, n = Depth, NEW c, IsChain(c), NEW f, Popped(f)
  PROVE  /\ n - 1 \in Nat /\ Depth' = n - 1 /\ c[n] = f
         /\ IsChain(Prefix(c, n - 1))'
  <1> SUFFICES ASSUME NEW d, d = Prefix(c, n - 1), NEW m, m = n - 1
               PROVE  m \in Nat /\ Depth' = m /\ c[n] = f /\ IsChain(d)'
    OBVIOUS
  <1>1. n \in Nat /\ n # 0 /\ IsFiniteSet(live) /\ m \in Nat /\ n = m + 1 /\ n > 0
    BY LiveFinite DEF StructureInvariant, Popped
  <1>2. live' = live \ {f} /\ active' = prev[f] /\ f \in live /\ f = active /\ live \subseteq Frames
    BY DEF Popped, StructureInvariant, StructureType
  <1>3. Depth' = m
    BY <1>1, <1>2, FS_RemoveElement DEF Depth
  <1>4. /\ c \in [1..n -> live]
        /\ \A g \in live : \E i \in 1..n : c[i] = g
        /\ \A i, j \in 1..n : c[i] = c[j] => i = j
        /\ \A i \in 1..(n - 1) : prev[c[i + 1]] = c[i]
        /\ c[n] = active /\ prev[c[1]] \notin live
    BY <1>1 DEF IsChain
  <1>5. \A i \in 1..m : i \in 1..n /\ i # n /\ c[i] \in live'
    <2>1. n \in 1..n
      BY <1>1
    <2>2. \A i \in 1..m : i \in 1..n /\ i # n
      BY <1>1
    <2> QED BY <2>1, <2>2, <1>2, <1>4
  <1>6. d \in [1..m -> live'] /\ \A i \in 1..m : d[i] = c[i]
    BY <1>5 DEF Prefix
  <1>7. \A g \in live' : \E i \in 1..m : d[i] = g
    <2> SUFFICES ASSUME NEW g \in live' PROVE \E i \in 1..m : d[i] = g
      OBVIOUS
    <2>1. PICK i \in 1..n : c[i] = g
      BY <1>2, <1>4
    <2>2. i # n
      BY <2>1, <1>2, <1>4
    <2>3. i \in 1..m
      BY <2>2, <1>1
    <2> QED BY <2>1, <2>3, <1>6
  <1>8. \A i, j \in 1..m : d[i] = d[j] => i = j
    BY <1>4, <1>5, <1>6
  <1>9. \A i \in 1..(m - 1) : prev'[d[i + 1]] = d[i]
    <2> SUFFICES ASSUME NEW i \in 1..(m - 1) PROVE prev'[d[i + 1]] = d[i]
      OBVIOUS
    <2>1. i \in 1..m /\ i + 1 \in 1..m /\ i \in 1..(n - 1)
      BY <1>1
    <2>2. prev'[c[i + 1]] = prev[c[i + 1]]
      BY <2>1, <1>2, <1>5 DEF Popped
    <2> QED BY <2>1, <2>2, <1>4, <1>6
  <1>10. ASSUME m > 0 PROVE d[m] = active' /\ prev'[d[1]] \notin live'
    <2>1. 1 \in 1..m /\ m \in 1..m /\ m \in 1..(n - 1)
      BY <1>10, <1>1
    <2>2. prev[c[m + 1]] = c[m]
      BY <2>1, <1>4
    <2>3. prev'[c[1]] = prev[c[1]]
      BY <2>1, <1>2, <1>5 DEF Popped
    <2> QED BY <2>1, <2>2, <2>3, <1>1, <1>2, <1>4, <1>6
  <1> QED BY <1>1, <1>2, <1>3, <1>4, <1>6, <1>7, <1>8, <1>9, <1>10, ZenonT(60) DEF IsChain

-----------------------------------------------------------------------------
(* Every step keeps the chain.                                             *)

\* Steps that leave the stack as it is, and steps that empty it.
SameStack  == UNCHANGED <<active, heap, prev, live, unclean>>
EmptyStack == live = {} /\ (~unclean => active = NULL /\ heap = {})

\* There is no other kind of step.
LEMMA StackSteps ==
  [Next]_vars => \/ Lifecycle /\ EmptyStack'
                 \/ Grow
                 \/ \E f \in Frames : Pop(f)
                 \/ SameStack
  <1> SUFFICES ASSUME [Next]_vars
               PROVE  (Lifecycle /\ EmptyStack') \/ Grow \/ (\E f \in Frames : Pop(f)) \/ SameStack
    OBVIOUS
  <1>1. CASE UNCHANGED vars
    BY <1>1 DEF vars, SameStack, request, links, methods
  <1>2. CASE Lifecycle
    <2>1. ASSUME RInit \/ RShutdown PROVE EmptyStack'
      <3>1. live' = {} /\ active' = NULL /\ heap' = {}
        BY <2>1 DEF RInit, RShutdown, methods
      <3> QED BY <3>1 DEF EmptyStack
    <2>2. ASSUME Bailout PROVE EmptyStack'
      <3>1. live' = {} /\ unclean' = TRUE
        BY <2>2 DEF Bailout
      <3> QED BY <3>1 DEF EmptyStack
    <2> QED BY <1>2, <2>1, <2>2 DEF Lifecycle
  <1>3. ASSUME NEW f \in Frames, Leave(f) PROVE Pop(f) \/ SameStack
    BY <1>3 DEF Leave, ReturnMM, ReturnCCtor, RestoreStep, SameStack, request, links
  <1>4. ASSUME NEW f \in Frames, NEW x \in Vars, Statement(f, x) PROVE SameStack
    BY <1>4 DEF Statement, InitVar, ObsVar, InitNVar, ObsNVar, CpyWrt, FirstUse, AnyUse,
                CallBegin, CallSucceeds, CallFails, SameStack, request, links
  <1>5. ASSUME NEW v \in Values, AddExternal(v) \/ DropExternal(v) PROVE SameStack
    BY <1>5 DEF AddExternal, DropExternal, SameStack, request, links, methods
  <1> QED BY <1>1, <1>2, <1>3, <1>4, <1>5 DEF Next

\* The part of the invariant about one chain.
LEMMA SameChain ==
  ASSUME SameStack
  PROVE  /\ Depth' = Depth
         /\ \A c : IsChain(c) => IsChain(c)'
         /\ LiveInUse => LiveInUse' /\ (PrevInUse => PrevInUse')
  BY DEF SameStack, Depth, IsChain, LiveInUse, PrevInUse, InUse

\* The chain of an empty stack.
LEMMA EmptyChain ==
  ASSUME StructureType, live = {}
  PROVE  Depth = 0 /\ IsChain([i \in 1..0 |-> i])
  <1>1. Depth = 0
    BY LiveFinite
  <1>2. 1..0 = {} /\ 1..(0 - 1) = {}
    OBVIOUS
  <1> QED BY <1>1, <1>2 DEF IsChain

\* Nothing is in use when the stack is empty, unless a fatal error left it so.
LEMMA EmptyInvariant ==
  ASSUME StructureInvariant, EmptyStack
  PROVE  StackInvariant
  <1>1. \E c : IsChain(c)
    BY EmptyChain DEF StructureInvariant, EmptyStack
  <1>2. LiveInUse /\ PrevInUse
    BY DEF EmptyStack, LiveInUse, PrevInUse, InUse
  <1> QED BY <1>1, <1>2 DEF StackInvariant

\* The same in the next state.
LEMMA EmptyInvariantNext ==
  StructureInvariant' /\ EmptyStack' => StackInvariant'
  <1>1. StructureInvariant /\ EmptyStack => StackInvariant
    BY EmptyInvariant
  <1> QED BY <1>1, PTL

\* A push keeps the invariant.
LEMMA PushedInvariant ==
  ASSUME StackInvariant, StructureInvariant', NEW f, Pushed(f)
  PROVE  StackInvariant'
  <1>1. live' = live \cup {f} /\ f \in Frames /\ unclean' = unclean /\ live \subseteq Frames
    BY DEF Pushed, Enter, StackInvariant, StructureInvariant, StructureType
  <1>2. LiveInUse'
    <2> SUFFICES ASSUME NEW g \in Frames
                 PROVE  (g \in live' => InUse(g)') /\ (~unclean' /\ InUse(g)' => g \in live')
      BY DEF LiveInUse
    <2>1. g \in live => InUse(g)'
      BY DEF StackInvariant, LiveInUse, Pushed
    <2> QED BY <1>1, <2>1 DEF Pushed
  <1>3. PrevInUse'
    <2> SUFFICES ASSUME NEW g \in live', prev'[g] \in Frames, NEW h \in Frames, h = prev'[g]
                 PROVE  InUse(h)'
      BY DEF PrevInUse
    <2>1. CASE g = f
      BY <2>1 DEF Pushed
    <2>2. CASE g # f
      BY <2>2, <1>1 DEF StackInvariant, PrevInUse, Pushed
    <2> QED BY <2>1, <2>2
  <1>4. PICK c : IsChain(c)
    BY DEF StackInvariant
  <1>5. \E d : IsChain(d)'
    <2> SUFFICES ASSUME NEW n, n = Depth PROVE \E d : IsChain(d)'
      OBVIOUS
    <2> QED BY <1>4, PushedChain DEF StackInvariant
  <1> QED BY <1>2, <1>3, <1>5 DEF StackInvariant

\* A pop keeps it: prev leads from no other method to the frame that is left.
LEMMA PoppedInvariant ==
  ASSUME StackInvariant, StructureInvariant', NEW f, Popped(f)
  PROVE  StackInvariant'
  <1>1. /\ live' = live \ {f} /\ f \in Frames /\ unclean' = unclean /\ live \subseteq Frames
        /\ \A g \in Frames : /\ InUse(g)' <=> InUse(g) /\ g # f
                             /\ g # f => prev'[g] = prev[g]
    BY DEF Popped, StackInvariant, StructureInvariant, StructureType
  <1>2. LiveInUse'
    BY <1>1 DEF StackInvariant, LiveInUse
  <1>3. PICK c : IsChain(c)
    BY DEF StackInvariant
  <1> SUFFICES ASSUME NEW n, n = Depth PROVE StackInvariant'
    OBVIOUS
  <1>4. IsChain(Prefix(c, n - 1))' /\ n - 1 \in Nat /\ c[n] = f /\ n \in Nat /\ n > 0
    <2>1. IsChain(Prefix(c, n - 1))' /\ n - 1 \in Nat /\ c[n] = f
      BY <1>3, PoppedChain DEF StackInvariant
    <2>2. n \in Nat
      BY LiveFinite DEF StackInvariant, StructureInvariant
    <2> QED BY <2>1, <2>2
  <1>5. \A g \in live' : prev[g] # f
    <2> SUFFICES ASSUME NEW g \in live' PROVE prev[g] # f
      OBVIOUS
    <2>1. PICK i \in 1..n : c[i] = g
      BY <1>1, <1>3 DEF IsChain
    <2>2. CASE i = 1
      <3>1. prev[c[1]] \notin live
        BY <1>3, <1>4 DEF IsChain
      <3> QED BY <2>1, <2>2, <3>1 DEF Popped
    <2>3. CASE i # 1
      <3>1. i - 1 \in 1..(n - 1) /\ i - 1 + 1 = i /\ i - 1 \in 1..n /\ n \in 1..n /\ i - 1 # n
        BY <2>3, <1>4
      <3>2. prev[c[i - 1 + 1]] = c[i - 1]
        BY <1>3, <3>1 DEF IsChain
      <3>3. c[i - 1] # c[n]
        BY <1>3, <3>1 DEF IsChain
      <3> QED BY <2>1, <3>1, <3>2, <3>3, <1>4
    <2> QED BY <2>2, <2>3
  <1>6. PrevInUse'
    <2> SUFFICES ASSUME NEW g \in live', NEW h \in Frames, h = prev'[g]
                 PROVE  InUse(h)'
      BY DEF PrevInUse
    <2>1. h = prev[g] /\ g \in live
      BY <1>1
    <2>2. InUse(h) /\ h # f
      BY <2>1, <1>5 DEF StackInvariant, PrevInUse
    <2> QED BY <2>2, <1>1
  <1> QED BY <1>2, <1>4, <1>6 DEF StackInvariant

\* No frame is in use at the start.
LEMMA StackInit == Init => StackInvariant
  <1> SUFFICES ASSUME Init PROVE StackInvariant
    OBVIOUS
  <1>1. StructureInvariant
    BY StructureInit
  <1>2. EmptyStack
    BY DEF Init, EmptyStack
  <1> QED BY <1>1, <1>2, EmptyInvariant

\* Every step keeps the invariant.
LEMMA StackStep == StackInvariant /\ [Next]_vars => StackInvariant'
  <1> SUFFICES ASSUME StackInvariant, [Next]_vars PROVE StackInvariant'
    OBVIOUS
  <1>1. StructureInvariant'
    BY StructureStep DEF StackInvariant
  <1>2. CASE EmptyStack'
    BY <1>1, <1>2, EmptyInvariantNext
  <1>3. CASE Grow
    BY <1>1, <1>3, GrowPushes, PushedInvariant
  <1>4. ASSUME NEW f \in Frames, Pop(f) PROVE StackInvariant'
    BY <1>1, <1>4, PopPops, PoppedInvariant DEF StackInvariant
  <1>5. CASE SameStack
    <2>1. PICK c : IsChain(c)
      BY DEF StackInvariant
    <2> QED BY <1>1, <1>5, <2>1, SameChain DEF StackInvariant
  <1> QED BY <1>2, <1>3, <1>4, <1>5, StackSteps

\* The methods on the C stack are exactly the frames reached from the active one
\* by following prev, and no other frame is in use until a fatal error.
THEOREM StackHolds == Spec => []StackInvariant
  BY StackInit, StackStep, PTL DEF Spec

\* When no method is on the C stack, no frame is left pushed or allocated
\* (zephir_memory_grow_stack and zephir_memory_restore_stack pair up).
THEOREM BalancedStackHolds == Spec => []BalancedStack
  <1>1. StackInvariant => BalancedStack
    <2> SUFFICES ASSUME StackInvariant, live = {}, ~unclean
                 PROVE  active = NULL /\ heap = {} /\ addresses = NoAddresses
      BY DEF BalancedStack
    <2> USE DEF StackInvariant, StructureInvariant, StructureType
    <2>1. \A f \in Frames : ~InUse(f)
      BY DEF LiveInUse
    <2>2. addresses = NoAddresses
      BY <2>1 DEF UnusedEmpty, NoAddresses
    <2>3. heap = {}
      BY <2>1, FrameFacts DEF InUse
    <2>4. active \notin Frames
      <3>1. active \in Frames => InUse(active)
        BY FrameFacts DEF InUse, HeapLinks, Frames
      <3> QED BY <2>1, <3>1
    <2> QED BY <2>2, <2>3, <2>4
  <1> QED BY <1>1, StackHolds, PTL

-----------------------------------------------------------------------------
(* A suspended method finds its frame as it left it.                       *)

\* Its registered zvals, its restore loop, its pending call and its zvals.
SameFrame(f) ==
  /\ addresses'[f] = addresses[f]
  /\ cursor'[f] = cursor[f] /\ wait'[f] = wait[f]
  /\ \A x \in Vars \ {wait[f]} : zv'[f][x] = zv[f][x]

Undisturbed == \A f \in live \cap live' : f # active => SameFrame(f)

\* No step but those of the method itself touches its frame.
LEMMA UndisturbedStep == StackInvariant /\ [Next]_vars => Undisturbed
  <1> SUFFICES ASSUME StackInvariant, [Next]_vars, NEW g \in live \cap live', g # active
               PROVE  SameFrame(g)
    BY DEF Undisturbed
  <1> USE DEF StackInvariant, StructureInvariant, StructureType
  <1>1. CASE UNCHANGED vars
    BY <1>1 DEF vars, observed, methods, SameFrame
  <1>2. CASE Lifecycle
    BY <1>2 DEF Lifecycle, RInit, RShutdown, Bailout
  <1>3. CASE Grow
    <2>1. PICK f : Pushed(f)
      BY <1>3, GrowPushes
    <2>2. f # g /\ addresses'[g] = addresses[g]
      BY <2>1 DEF Pushed
    <2>3. wait'[g] = wait[g] /\ cursor'[g] = cursor[g] /\ zv'[g] = zv[g]
      BY <2>1, <2>2 DEF Pushed, Enter
    <2> QED BY <2>2, <2>3 DEF SameFrame
  <1>4. ASSUME NEW f \in Frames, Leave(f) PROVE SameFrame(g)
    <2>1. CASE ReturnMM(f)
      BY <2>1 DEF ReturnMM, Running, BeginRestore, observed, SameFrame
    <2>2. ASSUME NEW y \in Vars, NEW x \in Vars, ReturnCCtor(f, y, x) PROVE SameFrame(g)
      <3>1. f = active /\ addresses' = addresses /\ wait' = wait /\ cursor'[g] = cursor[g]
        BY <2>2 DEF ReturnCCtor, Running, BeginRestore, observed
      <3>2. PICK c : wait[prev[f]] = x /\ zv' = [zv EXCEPT ![prev[f]][x] = c]
        BY <2>2 DEF ReturnCCtor
      <3>3. \A z \in Vars \ {wait[g]} : zv'[g][z] = zv[g][z]
        BY <3>2
      <3> QED BY <3>1, <3>3 DEF SameFrame
    <2>3. CASE RestoreStep(f)
      BY <2>3 DEF RestoreStep, observed, SameFrame
    <2>4. CASE Pop(f)
      BY <2>4 DEF Pop, SameFrame
    <2> QED BY <1>4, <2>1, <2>2, <2>3, <2>4 DEF Leave
  <1>5. ASSUME NEW f \in Frames, NEW x \in Vars, Statement(f, x) PROVE SameFrame(g)
    <2>1. ASSUME NEW c, FirstUse(f, x, c) PROVE SameFrame(g)
      BY <2>1 DEF FirstUse, Running, Observe, SameFrame
    <2>2. ASSUME NEW old, NEW c, AnyUse(f, x, old, c) PROVE SameFrame(g)
      BY <2>2 DEF AnyUse, Running, Observe, observed, SameFrame
    <2>3. CASE CallBegin(f, x)
      BY <2>3 DEF CallBegin, Running, Observe, observed, SameFrame
    <2>4. CASE CallSucceeds(f, x)
      BY <2>4 DEF CallSucceeds, observed, SameFrame
    <2>5. CASE CallFails(f, x)
      BY <2>5 DEF CallFails, BeginRestore, observed, SameFrame
    <2> QED BY <1>5, <2>1, <2>2, <2>3, <2>4, <2>5
            DEF Statement, InitVar, ObsVar, InitNVar, ObsNVar, CpyWrt
  <1>6. ASSUME NEW v \in Values, AddExternal(v) \/ DropExternal(v) PROVE SameFrame(g)
    BY <1>6 DEF AddExternal, DropExternal, observed, methods, SameFrame
  <1> QED BY <1>1, <1>2, <1>3, <1>4, <1>5, <1>6 DEF Next

\* No statement of a callee touches the frame of a suspended method, but for
\* the zval that receives its result.
THEOREM CallerUndisturbedHolds == Spec => CallerUndisturbed
  <1>1. StackInvariant /\ [Next]_vars =>
          [\A f \in live \cap live' : f # active =>
             /\ addresses'[f] = addresses[f]
             /\ cursor'[f] = cursor[f] /\ wait'[f] = wait[f]
             /\ \A x \in Vars \ {wait[f]} : zv'[f][x] = zv[f][x]]_vars
    BY UndisturbedStep DEF Undisturbed, SameFrame
  <1> QED BY <1>1, StackHolds, PTL DEF Spec, CallerUndisturbed

-----------------------------------------------------------------------------
(* The frames implement the stack of activations.                          *)

\* A function on 1..n is a sequence of length n.
LEMMA FunctionIsSeq ==
  ASSUME NEW n \in Nat, NEW a, a = [i \in 1..n |-> a[i]]
  PROVE  Len(a) = n /\ (a = << >> <=> n = 0) /\ a \in Seq({a[i] : i \in 1..n})
  <1> DEFINE S == {a[i] : i \in 1..n}
  <1>1. a \in [1..n -> S]
    OBVIOUS
  <1>2. a \in Seq(S) /\ DOMAIN a = 1..n
    BY <1>1, SeqDef
  <1>3. Len(a) = n
    BY <1>2, LenProperties
  <1> HIDE DEF S
  <1>4. a = << >> <=> Len(a) = 0
    BY <1>2, EmptySeq
  <1> QED BY <1>2, <1>3, <1>4 DEF S

\* The activations are those of the chain, before and after a step.
LEMMA ChainActivations ==
  \A c : StructureInvariant /\ IsChain(c) =>
           Activations = [i \in 1..Depth |-> Activation(c[i])]
  BY UpToChain DEF Activations, StructureInvariant

\* The same after a step.
LEMMA ChainActivationsNext ==
  \A c : StructureInvariant' /\ IsChain(c)' =>
           Activations' = [i \in 1..Depth' |-> Activation(c[i])']
  <1>1. (\A c : StructureInvariant /\ IsChain(c) =>
                  Activations = [i \in 1..Depth |-> Activation(c[i])])'
    BY ChainActivations, PTL
  <1> QED BY <1>1

\* An activation is what its frame has registered and released.
LEMMA SameActivation ==
  ASSUME NEW f, addresses'[f] = addresses[f], cursor'[f] = cursor[f]
  PROVE  Activation(f)' = Activation(f)
  BY DEF Activation, Observed, Released

\* No method, no activation.
LEMMA NoActivations ==
  StackInvariant => (live = {} <=> Activations = << >>)
  <1> SUFFICES ASSUME StackInvariant PROVE live = {} <=> Activations = << >>
    OBVIOUS
  <1>1. PICK c : IsChain(c)
    BY DEF StackInvariant
  <1> SUFFICES ASSUME NEW a, a = [i \in 1..Depth |-> Activation(c[i])]
               PROVE  live = {} <=> a = << >>
    BY <1>1, ChainActivations DEF StackInvariant
  <1>2. Depth \in Nat /\ (Depth = 0 <=> live = {})
    BY LiveFinite DEF StackInvariant, StructureInvariant
  <1>3. a = [i \in 1..Depth |-> a[i]]
    OBVIOUS
  <1> QED BY <1>2, <1>3, FunctionIsSeq

\* While the stack stays the same, so does the chain.
LEMMA SameChainActivations ==
  ASSUME StackInvariant, StackInvariant', SameStack, NEW c, IsChain(c)
  PROVE  /\ Activations = [i \in 1..Depth |-> Activation(c[i])]
         /\ Activations' = [i \in 1..Depth |-> Activation(c[i])']
  <1>1. Activations = [i \in 1..Depth |-> Activation(c[i])]
    BY ChainActivations DEF StackInvariant
  <1>2. Activations' = [i \in 1..Depth |-> Activation(c[i])']
    BY SameChain, ChainActivationsNext DEF StackInvariant
  <1> QED BY <1>1, <1>2

\* A step of the active method changes at most the last activation.
LEMMA TopChanges ==
  ASSUME StackInvariant, StackInvariant', SameStack, NEW f \in live, f = active,
         \A g \in live : g # f => addresses'[g] = addresses[g] /\ cursor'[g] = cursor[g]
  PROVE  /\ Activations # << >>
         /\ Activations[Len(Activations)] = Activation(f)
         /\ Activations' = [Activations EXCEPT ![Len(Activations)] = Activation(f)']
  <1>1. PICK c : IsChain(c)
    BY DEF StackInvariant
  <1> SUFFICES ASSUME NEW n, n = Depth,
                      NEW a, a = [i \in 1..n |-> Activation(c[i])],
                      NEW b, b = [i \in 1..n |-> Activation(c[i])']
               PROVE  a # << >> /\ a[Len(a)] = Activation(f)
                      /\ b = [a EXCEPT ![Len(a)] = Activation(f)']
    BY <1>1, SameChainActivations
  <1>2. n \in Nat /\ n # 0
    BY LiveFinite DEF StackInvariant, StructureInvariant
  <1>3. n \in 1..n /\ c[n] = f
    BY <1>1, <1>2 DEF IsChain
  <1>4. Len(a) = n /\ a # << >>
    <2>1. a = [i \in 1..n |-> a[i]]
      OBVIOUS
    <2> QED BY <2>1, <1>2, FunctionIsSeq
  <1>5. \A i \in 1..n : i # n => c[i] \in live /\ c[i] # f
    BY <1>1, <1>3 DEF IsChain
  <1>6. \A i \in 1..n : i # n => Activation(c[i])' = Activation(c[i])
    BY <1>5, SameActivation
  <1>7. \A i \in 1..n : b[i] = IF i = n THEN Activation(f)' ELSE a[i]
    BY <1>3, <1>6
  <1>8. b = [i \in 1..n |-> b[i]] /\ a = [i \in 1..n |-> a[i]] /\ a[n] = Activation(f)
    BY <1>3
  <1> QED BY <1>3, <1>4, <1>7, <1>8

\* A step that touches no frame.
LEMMA SameActivations ==
  ASSUME StackInvariant, StackInvariant', SameStack,
         \A g \in live : addresses'[g] = addresses[g] /\ cursor'[g] = cursor[g]
  PROVE  UNCHANGED <<Activations, unclean>>
  <1>1. PICK c : IsChain(c)
    BY DEF StackInvariant
  <1>2. /\ Activations = [i \in 1..Depth |-> Activation(c[i])]
        /\ Activations' = [i \in 1..Depth |-> Activation(c[i])']
    BY <1>1, SameChainActivations
  <1>3. \A i \in 1..Depth : Activation(c[i])' = Activation(c[i])
    <2>1. \A i \in 1..Depth : c[i] \in live
      BY <1>1 DEF IsChain
    <2> QED BY <2>1, SameActivation
  <1> QED BY <1>2, <1>3 DEF SameStack

\* Pushing a frame is a call.
LEMMA GrowCalls ==
  ASSUME StackInvariant, StackInvariant', Grow
  PROVE  Stack!Call
  <1>1. PICK f : Pushed(f)
    BY GrowPushes
  <1>2. PICK c : IsChain(c)
    BY DEF StackInvariant
  <1> SUFFICES ASSUME NEW n, n = Depth, NEW d, d = Extended(c, n, f),
                      NEW a, a = [i \in 1..(n + 1) |-> Activation(d[i])']
               PROVE  Stack!Call
    OBVIOUS
  <1>3. n \in Nat
    BY LiveFinite DEF StackInvariant, StructureInvariant
  <1>4. Depth' = n + 1 /\ IsChain(d)'
    BY <1>1, <1>2, PushedChain DEF StackInvariant
  <1>5. Activations' = a
    BY <1>4, ChainActivationsNext DEF StackInvariant
  <1>6. Prefix(a, n) = Activations
    <2>1. Activations = [i \in 1..n |-> Activation(c[i])]
      BY <1>2, ChainActivations DEF StackInvariant
    <2>2. ASSUME NEW i \in 1..n PROVE a[i] = Activation(c[i])
      <3>1. i \in 1..(n + 1) /\ d[i] = c[i]
        BY <1>3 DEF Extended
      <3>2. c[i] \in live /\ c[i] # f /\ addresses'[c[i]] = addresses[c[i]]
        BY <1>1, <1>2 DEF IsChain, Pushed
      <3>3. cursor'[c[i]] = cursor[c[i]]
        BY <1>1, <3>2 DEF Pushed, Enter, StackInvariant, StructureInvariant, StructureType
      <3>4. Activation(c[i])' = Activation(c[i])
        BY <3>2, <3>3, SameActivation
      <3> QED BY <3>1, <3>4
    <2> QED BY <2>1, <2>2 DEF Prefix
  <1>7. a[n + 1] = [owned |-> {}, leaving |-> FALSE]
    <2>1. d[n + 1] = f /\ n + 1 \in 1..(n + 1)
      BY <1>3 DEF Extended
    <2>2. addresses'[f] = << >> /\ cursor'[f] = 0
      BY <1>1 DEF Pushed, Enter, StackInvariant, StructureInvariant, StructureType
    <2>3. Observed(f)' = {}
      <3>1. \A i \in 1..Len(<< >>) : FALSE
        OBVIOUS
      <3> QED BY <2>2, <3>1 DEF Observed
    <2>4. Activation(f)' = [owned |-> {}, leaving |-> FALSE]
      <3>1. (cursor'[f] > 0) = FALSE
        BY <2>2
      <3>2. Observed(f)' \ Released(f)' = {}
        BY <2>3
      <3>3. Activation(f)' = [owned |-> Observed(f)' \ Released(f)', leaving |-> cursor'[f] > 0]
        BY Zenon DEF Activation
      <3> QED BY <3>1, <3>2, <3>3
    <2> QED BY <2>1, <2>4
  <1>8. Prefix(a, n + 1) = a
    BY DEF Prefix
  <1>9. Append(Prefix(a, n), a[n + 1]) = Prefix(a, n + 1)
    BY <1>3, PrefixAppend
  <1>10. unclean' = unclean
    BY <1>1 DEF Pushed
  <1> QED BY <1>5, <1>6, <1>7, <1>8, <1>9, <1>10 DEF Stack!Call

\* A frame is popped when its activation has released every zval it owned.
LEMMA PopReturns ==
  ASSUME StackInvariant, StackInvariant', NEW f \in Frames, Pop(f)
  PROVE  Stack!Return
  <1>1. Popped(f)
    BY PopPops DEF StackInvariant
  <1>2. PICK c : IsChain(c)
    BY DEF StackInvariant
  <1> SUFFICES ASSUME NEW n, n = Depth, NEW m, m = n - 1, NEW d, d = Prefix(c, m),
                      NEW a, a = [i \in 1..n |-> Activation(c[i])]
               PROVE  Stack!Return
    OBVIOUS
  <1>3. m \in Nat /\ Depth' = m /\ c[n] = f /\ IsChain(d)'
    BY <1>1, <1>2, PoppedChain DEF StackInvariant
  <1>4. n \in Nat /\ n = m + 1 /\ n \in 1..n
    <2>1. n \in Nat
      BY LiveFinite DEF StackInvariant, StructureInvariant
    <2> QED BY <2>1, <1>3
  <1>5. Activations = a
    BY <1>2, ChainActivations DEF StackInvariant
  <1>6. Len(a) = n /\ a # << >>
    <2>1. a = [i \in 1..n |-> a[i]]
      OBVIOUS
    <2> QED BY <2>1, <1>4, FunctionIsSeq
  <1>7. Activations' = Prefix(a, m)
    <2>1. Activations' = [i \in 1..m |-> Activation(d[i])']
      BY <1>3, ChainActivationsNext DEF StackInvariant
    <2>2. ASSUME NEW i \in 1..m PROVE Activation(d[i])' = a[i]
      <3>1. i \in 1..n /\ i # n /\ d[i] = c[i]
        BY <1>3, <1>4 DEF Prefix
      <3>2. c[i] \in Frames /\ c[i] # f
        <4>1. c[i] \in live /\ c[i] # c[n]
          BY <3>1, <1>2, <1>4 DEF IsChain
        <4> QED BY <4>1, <1>3 DEF StackInvariant, StructureInvariant, StructureType
      <3>3. Activation(c[i])' = Activation(c[i])
        BY <3>2, <1>1, SameActivation DEF Popped
      <3> QED BY <3>1, <3>3
    <2> QED BY <2>1, <2>2 DEF Prefix
  <1>8. a[n].leaving /\ a[n].owned = {}
    <2>1. cursor[f] > 0 /\ cursor[f] > Len(addresses[f])
      BY DEF Pop, LoopEnded
    <2>2. cursor[f] \in Nat /\ Len(addresses[f]) \in Nat
      BY DEF StackInvariant, StructureInvariant, StructureType
    <2>3. \A i \in 1..Len(addresses[f]) : i \in 1..(cursor[f] - 1)
      BY <2>1, <2>2
    <2>4. Observed(f) \subseteq Released(f)
      BY <2>1, <2>2, <2>3 DEF Observed, Released
    <2> QED BY <2>1, <2>4, <1>3, <1>4 DEF Activation
  <1>9. a = Prefix(a, m + 1)
    BY <1>4 DEF Prefix
  <1>10. SubSeq(a, 1, Len(a) - 1) = Prefix(a, m)
    <2>1. SubSeq(Prefix(a, m + 1), 1, m) = Prefix(a, m)
      BY <1>3, PrefixFront
    <2>2. Len(a) - 1 = m
      BY <1>3, <1>4, <1>6
    <2> QED BY <2>1, <2>2, <1>9
  <1>11. unclean' = unclean
    BY <1>1 DEF Popped
  <1> QED BY <1>5, <1>6, <1>7, <1>8, <1>10, <1>11 DEF Stack!Return, Stack!Top, Stack!Front

\* What an activation is made of, in both states.
LEMMA ActivationFields ==
  ASSUME NEW f
  PROVE  /\ Activation(f) = [owned |-> Observed(f) \ Released(f), leaving |-> cursor[f] > 0]
         /\ Activation(f)' = [owned |-> Observed(f)' \ Released(f)', leaving |-> cursor'[f] > 0]
  BY Zenon DEF Activation

\* The records of ActivationStack.
LEMMA RecordFacts ==
  ASSUME NEW o, NEW l
  PROVE  /\ [owned |-> o, leaving |-> l].owned = o
         /\ [owned |-> o, leaving |-> l].leaving = l
  OBVIOUS

\* The records in which Own and Release replace the last activation.
Grown(o, p, l)  == [[owned |-> o, leaving |-> l] EXCEPT !.owned = @ \cup p]
Shrunk(o, p, l) == [[owned |-> o, leaving |-> l] EXCEPT !.owned = @ \ p]

\* They are records of the same shape.
LEMMA GrownRecord ==
  ASSUME NEW o, NEW p, NEW l
  PROVE  Grown(o, p, l) = [owned |-> o \cup p, leaving |-> l]
  <1>1. [[owned |-> o, leaving |-> l] EXCEPT !.owned = @ \cup p] = [owned |-> o \cup p, leaving |-> l]
    OBVIOUS
  <1> QED BY <1>1, Zenon DEF Grown

\* The same for a zval that is released.
LEMMA ShrunkRecord ==
  ASSUME NEW o, NEW p, NEW l
  PROVE  Shrunk(o, p, l) = [owned |-> o \ p, leaving |-> l]
  <1>1. [[owned |-> o, leaving |-> l] EXCEPT !.owned = @ \ p] = [owned |-> o \ p, leaving |-> l]
    OBVIOUS
  <1> QED BY <1>1, Zenon DEF Shrunk

\* The last activation comes to own x.
LEMMA OwnsTop ==
  ASSUME NEW x, NEW o, Activations # << >>, unclean' = unclean,
         Activations[Len(Activations)] = [owned |-> o, leaving |-> FALSE],
         Activations' = [Activations EXCEPT ![Len(Activations)] = [owned |-> o \cup {x}, leaving |-> FALSE]]
  PROVE  Stack!Own(x)
  <1>1. Grown(o, {x}, FALSE) = [owned |-> o \cup {x}, leaving |-> FALSE]
    BY GrownRecord
  <1>2. [Activations[Len(Activations)] EXCEPT !.owned = @ \cup {x}]
          = [owned |-> o \cup {x}, leaving |-> FALSE]
    BY <1>1, Zenon DEF Grown
  <1>3. ~Activations[Len(Activations)].leaving
    BY RecordFacts
  <1> QED BY <1>2, <1>3, Zenon DEF Stack!Own, Stack!Top, Stack!ReplaceTop

\* The last activation has released x.
LEMMA ReleasesTop ==
  ASSUME NEW x, NEW o, x \in o, Activations # << >>, unclean' = unclean,
         Activations[Len(Activations)] = [owned |-> o, leaving |-> TRUE],
         Activations' = [Activations EXCEPT ![Len(Activations)] = [owned |-> o \ {x}, leaving |-> TRUE]]
  PROVE  Stack!Release(x)
  <1>1. Shrunk(o, {x}, TRUE) = [owned |-> o \ {x}, leaving |-> TRUE]
    BY ShrunkRecord
  <1>2. [Activations[Len(Activations)] EXCEPT !.owned = @ \ {x}]
          = [owned |-> o \ {x}, leaving |-> TRUE]
    BY <1>1, Zenon DEF Shrunk
  <1>3. Activations[Len(Activations)].leaving /\ x \in Activations[Len(Activations)].owned
    BY RecordFacts
  <1> QED BY <1>2, <1>3, Zenon DEF Stack!Release, Stack!Top, Stack!ReplaceTop

\* The method that is not restoring has released nothing.
LEMMA NothingReleased ==
  ASSUME NEW f, cursor[f] = 0
  PROVE  Released(f) = {}
  <1>1. \A i \in 1..0 : FALSE
    OBVIOUS
  <1> QED BY <1>1 DEF Released

\* Starting the restore loop is leaving; after a fatal error it skips every zval.
LEMMA RestoreLeaves ==
  ASSUME StackInvariant, StackInvariant', SameStack, NEW f \in live, f = active,
         cursor[f] = 0, BeginRestore(f), UNCHANGED addresses
  PROVE  Stack!StartLeaving
  <1> USE DEF StackInvariant, StructureInvariant, StructureType
  <1>1. /\ Activations # << >>
        /\ Activations[Len(Activations)] = Activation(f)
        /\ Activations' = [Activations EXCEPT ![Len(Activations)] = Activation(f)']
    BY TopChanges DEF BeginRestore
  <1>2. /\ Len(addresses[f]) \in Nat
        /\ cursor'[f] = IF unclean THEN Len(addresses[f]) + 1 ELSE 1
    BY DEF BeginRestore
  <1>3. Observed(f)' = Observed(f)
    BY DEF Observed
  <1>4. Observed(f)' \ Released(f)' = IF unclean THEN {} ELSE Observed(f) \ Released(f)
    <2>1. CASE unclean
      <3>1. cursor'[f] = Len(addresses[f]) + 1 /\ cursor'[f] # 0 /\ cursor'[f] - 1 = Len(addresses[f])
        BY <2>1, <1>2
      <3>2. Released(f)' = {addresses[f][i] : i \in 1..Len(addresses[f])}
        BY <3>1 DEF Released
      <3> QED BY <2>1, <3>2, <1>3 DEF Observed
    <2>2. CASE ~unclean
      <3>1. cursor'[f] # 0 /\ cursor'[f] - 1 = 0
        BY <2>2, <1>2
      <3>2. Released(f)' = {addresses[f][i] : i \in 1..0}
        BY <3>1 DEF Released
      <3>3. Released(f)' = {}
        BY <3>2
      <3> QED BY <2>2, <3>3, <1>3, NothingReleased
    <2> QED BY <2>1, <2>2
  <1>5. (cursor'[f] > 0) = TRUE /\ (cursor[f] > 0) = FALSE
    BY <1>2
  <1>6. /\ ~Activation(f).leaving
        /\ Activation(f)' = [owned |-> IF unclean THEN {} ELSE Activation(f).owned, leaving |-> TRUE]
    <2>1. Activation(f) = [owned |-> Observed(f) \ Released(f), leaving |-> FALSE]
      BY <1>5, ActivationFields
    <2>2. Activation(f).owned = Observed(f) \ Released(f) /\ Activation(f).leaving = FALSE
      BY <2>1, RecordFacts
    <2>3. Activation(f)' = [owned |-> Observed(f)' \ Released(f)', leaving |-> TRUE]
      BY <1>5, ActivationFields
    <2> QED BY <2>2, <2>3, <1>4
  <1>7. unclean' = unclean
    BY DEF SameStack
  <1> QED BY <1>1, <1>6, <1>7 DEF Stack!StartLeaving, Stack!Top, Stack!ReplaceTop

\* The first k positions are those before k, and k.
LEMMA UpToK ==
  ASSUME NEW k \in Nat, k # 0
  PROVE  \A i : i \in 1..k <=> i \in 1..(k - 1) \/ i = k
  OBVIOUS

\* The restore loop releases a zval the activation still owns: none is
\* registered twice.
LEMMA StepReleases ==
  ASSUME StackInvariant, StackInvariant', ObservedOnce, NEW f \in Frames, RestoreStep(f)
  PROVE  \E x \in Vars : Stack!Release(x)
  <1> USE DEF StackInvariant, StructureInvariant, StructureType
  <1> DEFINE k == cursor[f]
  <1> DEFINE x == addresses[f][k]
  <1>1. /\ f = active /\ f \in live /\ SameStack /\ addresses' = addresses
        /\ k \in 1..Len(addresses[f])
        /\ cursor' = [cursor EXCEPT ![f] = @ + 1]
    BY DEF RestoreStep, request, links, observed, SameStack
  <1>2. /\ Activations # << >>
        /\ Activations[Len(Activations)] = Activation(f)
        /\ Activations' = [Activations EXCEPT ![Len(Activations)] = Activation(f)']
    BY <1>1, TopChanges
  <1>3. Len(addresses[f]) \in Nat /\ k \in Nat /\ k # 0 /\ cursor'[f] = k + 1 /\ x \in Vars
    BY <1>1
  <1>4. Released(f) = {addresses[f][i] : i \in 1..(k - 1)}
    BY <1>3 DEF Released
  <1>5. Released(f)' = {addresses[f][i] : i \in 1..k}
    <2>1. cursor'[f] # 0 /\ cursor'[f] - 1 = k
      <3>1. cursor'[f] = k + 1 /\ k \in Nat
        BY <1>3
      <3> HIDE DEF k
      <3> QED BY <3>1
    <2> QED BY <2>1, <1>1 DEF Released
  <1>6. x \in Observed(f) /\ x \notin Released(f)
    <2>1. x \in Observed(f)
      BY <1>1 DEF Observed
    <2>2. ASSUME NEW i \in 1..(k - 1), addresses[f][i] = x PROVE FALSE
      <3>1. i \in 1..Len(addresses[f]) /\ i # k
        BY <1>1, <1>3
      <3> QED BY <2>2, <3>1, <1>1 DEF ObservedOnce
    <2> QED BY <2>1, <2>2, <1>4
  <1>7. Released(f)' = Released(f) \cup {x}
    <2>1. \A i : i \in 1..k <=> i \in 1..(k - 1) \/ i = k
      <3>1. k \in Nat /\ k # 0
        BY <1>3
      <3> HIDE DEF k
      <3> QED BY <3>1, UpToK
    <2> QED BY <2>1, <1>4, <1>5
  <1>8. Observed(f)' = Observed(f)
    BY <1>1 DEF Observed
  <1>9. Observed(f)' \ Released(f)' = (Observed(f) \ Released(f)) \ {x}
    BY <1>7, <1>8, ZenonT(60)
  <1>10. (cursor'[f] > 0) = TRUE /\ (cursor[f] > 0) = TRUE
    BY <1>3, SMTT(60)
  <1> HIDE DEF k, x
  <1>11. Activation(f) = [owned |-> Observed(f) \ Released(f), leaving |-> TRUE]
    BY <1>10, ActivationFields
  <1>12. Activation(f)' = [owned |-> (Observed(f) \ Released(f)) \ {x}, leaving |-> TRUE]
    BY <1>9, <1>10, ActivationFields
  <1>13. Stack!Release(x)
    <2> SUFFICES ASSUME NEW o, o = Observed(f) \ Released(f), NEW y, y = x PROVE Stack!Release(y)
      OBVIOUS
    <2>1. y \in o /\ unclean' = unclean
      BY <1>1, <1>6 DEF SameStack
    <2>2. Activations[Len(Activations)] = [owned |-> o, leaving |-> TRUE]
      BY <1>2, <1>11
    <2>3. Activations' = [Activations EXCEPT ![Len(Activations)] = [owned |-> o \ {y}, leaving |-> TRUE]]
      BY <1>2, <1>12
    <2> QED BY <1>2, <2>1, <2>2, <2>3, ReleasesTop
  <1> QED BY <1>3, <1>13

\* A macro that registers a zval makes the activation own it.
LEMMA ObserveOwns ==
  ASSUME StackInvariant, StackInvariant', SameStack, NEW f \in live, f = active,
         cursor[f] = 0, UNCHANGED cursor, NEW x \in Vars, Observe(f, x)
  PROVE  Stack!Own(x)
  <1> USE DEF StackInvariant, StructureInvariant, StructureType
  <1>1. /\ Activations # << >>
        /\ Activations[Len(Activations)] = Activation(f)
        /\ Activations' = [Activations EXCEPT ![Len(Activations)] = Activation(f)']
    BY TopChanges DEF Observe
  <1>2. Observed(f)' = Observed(f) \cup {x}
    BY ObserveEffect
  <1>3. Released(f) = {}
    BY NothingReleased
  <1>4. Released(f)' = {}
    <2>1. cursor'[f] = 0
      OBVIOUS
    <2>2. \A i \in 1..0 : FALSE
      OBVIOUS
    <2> QED BY <2>1, <2>2 DEF Released
  <1>5. Observed(f)' \ Released(f)' = (Observed(f) \ Released(f)) \cup {x}
    BY <1>2, <1>3, <1>4
  <1>6. (cursor'[f] > 0) = FALSE /\ (cursor[f] > 0) = FALSE
    OBVIOUS
  <1>7. Activation(f) = [owned |-> Observed(f) \ Released(f), leaving |-> FALSE]
    BY <1>6, ActivationFields
  <1>8. Activation(f)' = [owned |-> (Observed(f) \ Released(f)) \cup {x}, leaving |-> FALSE]
    BY <1>5, <1>6, ActivationFields
  <1> SUFFICES ASSUME NEW o, o = Observed(f) \ Released(f) PROVE Stack!Own(x)
    OBVIOUS
  <1>9. Activations[Len(Activations)] = [owned |-> o, leaving |-> FALSE]
    BY <1>1, <1>7
  <1>10. Activations' = [Activations EXCEPT ![Len(Activations)] = [owned |-> o \cup {x}, leaving |-> FALSE]]
    BY <1>1, <1>8
  <1>11. unclean' = unclean
    BY DEF SameStack
  <1> QED BY <1>1, <1>9, <1>10, <1>11, OwnsTop

\* What a statement of the active method does to its frame.
LEMMA StatementOnFrame ==
  ASSUME CanCatch = FALSE, UnsetCopies = FALSE, NEW f \in Frames, NEW x \in Vars, Statement(f, x)
  PROVE  /\ f = active /\ f \in live /\ SameStack /\ cursor[f] = 0
         /\ \/ UNCHANGED <<addresses, cursor>>
            \/ Observe(f, x) /\ UNCHANGED cursor
            \/ BeginRestore(f) /\ UNCHANGED addresses
  <1> DEFINE Goal == /\ f = active /\ f \in live /\ SameStack /\ cursor[f] = 0
                     /\ \/ UNCHANGED <<addresses, cursor>>
                        \/ Observe(f, x) /\ UNCHANGED cursor
                        \/ BeginRestore(f) /\ UNCHANGED addresses
  <1>1. ASSUME NEW c, FirstUse(f, x, c) PROVE Goal
    BY <1>1 DEF FirstUse, Running, SameStack, request, links
  <1>2. ASSUME NEW old, NEW c, AnyUse(f, x, old, c) PROVE Goal
    BY <1>2 DEF AnyUse, Running, SameStack, request, links, observed
  <1>3. ASSUME CallBegin(f, x) PROVE Goal
    BY <1>3 DEF CallBegin, Running, SameStack, request, links, observed
  <1>4. ASSUME CallSucceeds(f, x) PROVE Goal
    BY <1>4 DEF CallSucceeds, SameStack, request, links, observed
  <1>5. ASSUME CallFails(f, x) PROVE Goal
    BY <1>5 DEF CallFails, SameStack, request, links, observed
  <1> HIDE DEF Goal
  <1>6. Goal
    BY <1>1, <1>2, <1>3, <1>4, <1>5 DEF Statement, InitVar, ObsVar, InitNVar, ObsNVar, CpyWrt
  <1> QED BY <1>6 DEF Goal

\* Requests and fatal errors: the three lifecycle steps.
LEMMA LifecycleRefines ==
  ASSUME StackInvariant, StackInvariant', Lifecycle
  PROVE  Stack!NewRequest \/ Stack!Abort \/ UNCHANGED <<Activations, unclean>>
  <1>1. live' = {}
    BY DEF Lifecycle, RInit, RShutdown, Bailout, methods
  <1>2. Activations' = << >>
    <2>1. (live = {} <=> Activations = << >>)'
      BY NoActivations, PTL
    <2> QED BY <1>1, <2>1
  <1>3. CASE RInit
    <2>1. Activations = << >> /\ unclean' = FALSE
      BY <1>3, NoActivations DEF RInit
    <2> QED BY <1>2, <2>1 DEF Stack!NewRequest
  <1>4. CASE RShutdown
    <2>1. Activations = << >> /\ unclean' = unclean
      BY <1>4, NoActivations DEF RShutdown
    <2> QED BY <1>2, <2>1
  <1>5. CASE Bailout
    <2>1. Activations # << >> /\ unclean' = TRUE
      BY <1>5, NoActivations DEF Bailout
    <2> QED BY <1>2, <2>1 DEF Stack!Abort
  <1> QED BY <1>3, <1>4, <1>5 DEF Lifecycle

\* Every step of the kernel is a step of the stack of activations, or none.
LEMMA StepRefines ==
  ASSUME CanCatch = FALSE, UnsetCopies = FALSE, StackInvariant, StackInvariant', ObservedOnce, [Next]_vars
  PROVE  [Stack!StackNext]_<<Activations, unclean>>
  <1>1. CASE Lifecycle
    BY <1>1, LifecycleRefines DEF Stack!StackNext
  <1>2. CASE Grow
    BY <1>2, GrowCalls DEF Stack!StackNext
  <1>3. ASSUME NEW f \in Frames, Leave(f) PROVE [Stack!StackNext]_<<Activations, unclean>>
    <2>1. ASSUME ReturnMM(f) \/ \E y, x \in Vars : ReturnCCtor(f, y, x)
          PROVE  Stack!StartLeaving
      <3>1. /\ f = active /\ f \in live /\ cursor[f] = 0 /\ BeginRestore(f)
            /\ SameStack /\ UNCHANGED addresses
        BY <2>1 DEF ReturnMM, ReturnCCtor, Running, SameStack, request, links, observed
      <3> QED BY <3>1, RestoreLeaves
    <2>2. ASSUME RestoreStep(f) PROVE \E x \in Vars : Stack!Release(x)
      BY <2>2, StepReleases
    <2>3. ASSUME Pop(f) PROVE Stack!Return
      BY <2>3, PopReturns
    <2> QED BY <1>3, <2>1, <2>2, <2>3 DEF Leave, Stack!StackNext
  <1>4. ASSUME NEW f \in Frames, NEW x \in Vars, Statement(f, x)
        PROVE  [Stack!StackNext]_<<Activations, unclean>>
    <2>1. /\ f = active /\ f \in live /\ SameStack /\ cursor[f] = 0
          /\ \/ UNCHANGED <<addresses, cursor>>
             \/ Observe(f, x) /\ UNCHANGED cursor
             \/ BeginRestore(f) /\ UNCHANGED addresses
      BY <1>4, StatementOnFrame
    <2>2. ASSUME UNCHANGED <<addresses, cursor>> PROVE UNCHANGED <<Activations, unclean>>
      BY <2>1, <2>2, SameActivations
    <2>3. ASSUME Observe(f, x), UNCHANGED cursor PROVE Stack!Own(x)
      BY <2>1, <2>3, ObserveOwns
    <2>4. ASSUME BeginRestore(f), UNCHANGED addresses PROVE Stack!StartLeaving
      BY <2>1, <2>4, RestoreLeaves
    <2> QED BY <2>1, <2>2, <2>3, <2>4 DEF Stack!StackNext
  <1>5. CASE \/ \E v \in Values : AddExternal(v) \/ DropExternal(v)
             \/ UNCHANGED vars
    <2>1. SameStack /\ UNCHANGED <<addresses, cursor>>
      BY <1>5 DEF AddExternal, DropExternal, vars, SameStack, request, links, observed, methods
    <2> QED BY <2>1, SameActivations
  <1> QED BY <1>1, <1>2, <1>3, <1>4, <1>5 DEF Next

\* For methods with no try block that copy no unset zval, the linked frames of
\* memory.c implement a stack of activations: an activation leaves only when it
\* is on top and has released each zval it owned, each once.
THEOREM FramesImplementStack ==
  ASSUME CanCatch = FALSE, UnsetCopies = FALSE
  PROVE  Spec => ImplementsActivationStack
  <1>1. Init => Stack!StackInit
    <2> SUFFICES ASSUME Init PROVE Stack!StackInit
      OBVIOUS
    <2>1. Activations = << >>
      BY StackInit, NoActivations DEF Init
    <2>2. unclean = FALSE
      BY DEF Init
    <2> QED BY <2>1, <2>2 DEF Stack!StackInit
  <1>2. StackInvariant /\ StackInvariant' /\ ObservedOnce /\ [Next]_vars
          => [Stack!StackNext]_<<Activations, unclean>>
    BY StepRefines
  <1>3. Spec => []ObservedOnce
    BY ObservedOnceHolds
  <1> QED BY <1>1, <1>2, <1>3, StackHolds, PTL DEF Spec, ImplementsActivationStack, Stack!StackSpec
=============================================================================
