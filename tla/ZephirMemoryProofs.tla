------------------------- MODULE ZephirMemoryProofs -------------------------
(***************************************************************************)
(* Proofs about ZephirMemory, for every size of the frame block, every set *)
(* of heap frames, of zvals and of values.                                 *)
(*                                                                         *)
(*   1. StructureInvariant: the links and the buffers (FrameAsserts,       *)
(*      AddressesFit).                                                     *)
(*   2. ObservationInvariant, for methods with no try block that copy no   *)
(*      unset zval: a zval is IS_UNDEF exactly when it is not registered   *)
(*      (ObservedOnce).                                                    *)
(*   3. ReferenceInvariant, for such methods: the count of a value is      *)
(*      never less than the number of its owners (NoPrematureFree), never  *)
(*      negative (TypeOK), and until a fatal error exactly that number     *)
(*      unless it is a PHP reference (NoLeak).                             *)
(***************************************************************************)
EXTENDS ZephirMemory, FiniteSetTheorems, TLAPS

-----------------------------------------------------------------------------
(* 1. Links and buffers.                                                   *)

\* TypeOK but for the counts, which are naturals only if none is dropped twice.
StructureType ==
  /\ inRequest \in BOOLEAN /\ unclean \in BOOLEAN /\ started \in BOOLEAN
  /\ active \in Frames \cup {NULL}
  /\ heap \subseteq HeapFrames
  /\ next \in [Frames -> Frames \cup {NULL}]
  /\ prev \in [Frames -> Frames \cup {NULL}]
  /\ addresses \in [Frames -> Seq(Vars)]
  /\ capacity \in [Frames -> Nat]
  /\ live \subseteq Frames
  /\ zv \in [Frames -> [Vars -> Content]]
  /\ wait \in [Frames -> Vars \cup {NULL}]
  /\ cursor \in [Frames -> Nat]

\* The links of the block never change, but for the one that leaves it.
BlockLinks ==
  /\ \A i \in 1..(NumPreallocated - 1) : next[i] = i + 1
  /\ \A i \in 2..NumPreallocated : prev[i] = i - 1
  /\ prev[1] = NULL

\* A heap frame and its predecessor point at each other; the top of the stack
\* has no successor outside the block.
HeapLinks ==
  /\ \A g \in heap : prev[g] \in heap \cup {NumPreallocated} /\ next[prev[g]] = g
  /\ active \in heap \cup {NumPreallocated} => next[active] = NULL
  /\ active \notin heap => next[NumPreallocated] = NULL
  /\ active \in HeapFrames => active \in heap

\* Frames the stack has not reached hold no address.
InUse(f) ==
  \/ f \in heap
  \/ f \in Permanent /\ active # NULL /\ (active \in Permanent => f <= active)

UnusedEmpty == \A f \in Frames : ~InUse(f) => addresses[f] = << >>

StructureInvariant ==
  /\ StructureType
  /\ BlockLinks
  /\ HeapLinks
  /\ UnusedEmpty
  /\ AddressesFit
  /\ ~started => live = {}

\* The block and the heap frames are disjoint, and NULL is neither.
LEMMA FrameFacts ==
  /\ Permanent \subseteq Frames /\ HeapFrames \subseteq Frames
  /\ 1 \in Permanent /\ NumPreallocated \in Permanent
  /\ \A f \in HeapFrames : f \notin Permanent
  /\ NULL \notin Frames /\ NULL \notin Vars
  /\ \A i \in 1..(NumPreallocated - 1) : i \in Permanent /\ i + 1 \in Permanent
  /\ \A i \in Permanent : i \in 1..(NumPreallocated - 1) \/ i = NumPreallocated
  /\ \A i \in Permanent : i = 1 \/ i \in 2..NumPreallocated
  /\ \A i \in 2..NumPreallocated : i - 1 \in 1..(NumPreallocated - 1)
  /\ Permanent \subseteq Nat
  BY FramesAssumption DEF Permanent, Frames

\* Registering an address in the active frame keeps the buffers in order.
LEMMA ObserveStructure ==
  ASSUME StructureInvariant, NEW f \in Frames, NEW x \in Vars,
         f = active, Observe(f, x), UNCHANGED links
  PROVE  /\ addresses' \in [Frames -> Seq(Vars)] /\ capacity' \in [Frames -> Nat]
         /\ UnusedEmpty' /\ AddressesFit'
  <1> USE DEF StructureInvariant, StructureType, Observe
  <1>1. addresses' \in [Frames -> Seq(Vars)] /\ capacity' \in [Frames -> Nat]
    BY CapacityAssumption
  <1>2. UnusedEmpty'
    <2>1. InUse(f)
      BY FrameFacts DEF InUse, HeapLinks, Frames
    <2> QED
      BY <2>1 DEF UnusedEmpty, InUse, links
  <1>3. AddressesFit'
    <2> SUFFICES ASSUME NEW g \in Frames PROVE Len(addresses'[g]) <= capacity'[g]
      BY DEF AddressesFit
    <2>1. Len(addresses[g]) \in Nat /\ Len(addresses[g]) <= capacity[g]
      BY DEF AddressesFit
    <2>2. CASE g = f
      BY <2>1, <2>2, CapacityAssumption
    <2>3. CASE g # f
      BY <2>1, <2>3
    <2> QED BY <2>2, <2>3
  <1> QED BY <1>1, <1>2, <1>3

\* A step that leaves the links and the buffers alone.
LEMMA SameStructure ==
  ASSUME StructureInvariant, UNCHANGED <<request, links, observed, live>>,
         zv' \in [Frames -> [Vars -> Content]],
         wait' \in [Frames -> Vars \cup {NULL}],
         cursor' \in [Frames -> Nat]
  PROVE  StructureInvariant'
  BY DEF StructureInvariant, StructureType, BlockLinks, HeapLinks, UnusedEmpty,
         InUse, AddressesFit, request, links, observed

\* A statement that registers a zval of the active frame, or registers nothing.
LEMMA StatementStructure ==
  ASSUME StructureInvariant, NEW f \in Frames, NEW x \in Vars, f = active,
         Observe(f, x) \/ UNCHANGED observed,
         UNCHANGED <<request, links, live>>,
         zv' \in [Frames -> [Vars -> Content]],
         wait' \in [Frames -> Vars \cup {NULL}],
         cursor' \in [Frames -> Nat]
  PROVE  StructureInvariant'
  <1>1. CASE UNCHANGED observed
    BY <1>1, SameStructure
  <1>2. CASE Observe(f, x)
    <2>1. /\ addresses' \in [Frames -> Seq(Vars)] /\ capacity' \in [Frames -> Nat]
          /\ UnusedEmpty' /\ AddressesFit'
      BY <1>2, ObserveStructure
    <2> QED
      BY <2>1 DEF StructureInvariant, StructureType, BlockLinks, HeapLinks,
                  request, links
  <1> QED BY <1>1, <1>2

\* The freshly allocated block.
LEMMA BlockFacts ==
  /\ BlockNext \in [Frames -> Frames \cup {NULL}]
  /\ BlockPrev \in [Frames -> Frames \cup {NULL}]
  /\ BlockCapacity \in [Frames -> Nat]
  /\ NoAddresses \in [Frames -> Seq(Vars)]
  /\ \A i \in 1..(NumPreallocated - 1) : BlockNext[i] = i + 1
  /\ \A i \in 2..NumPreallocated : BlockPrev[i] = i - 1
  /\ BlockPrev[1] = NULL /\ BlockNext[NumPreallocated] = NULL
  <1>1. ASSUME NEW f \in Frames PROVE BlockNext[f] \in Frames \cup {NULL}
    BY FrameFacts DEF BlockNext
  <1>2. ASSUME NEW f \in Frames PROVE BlockPrev[f] \in Frames \cup {NULL}
    <2>1. CASE f \in 2..NumPreallocated
      BY <2>1, FrameFacts DEF BlockPrev
    <2>2. CASE f \notin 2..NumPreallocated
      BY <2>2 DEF BlockPrev
    <2> QED BY <2>1, <2>2
  <1>3. BlockCapacity \in [Frames -> Nat] /\ NoAddresses \in [Frames -> Seq(Vars)]
    BY CapacityAssumption DEF BlockCapacity, NoAddresses
  <1>4. \A i \in 1..(NumPreallocated - 1) : BlockNext[i] = i + 1
    BY FrameFacts DEF BlockNext
  <1>5. \A i \in 2..NumPreallocated : i \in Permanent
    BY FramesAssumption DEF Permanent
  <1>6. \A i \in 2..NumPreallocated : BlockPrev[i] = i - 1
    BY <1>5, FrameFacts DEF BlockPrev
  <1>7. /\ 1 \notin 2..NumPreallocated
        /\ NumPreallocated \notin 1..(NumPreallocated - 1)
    BY FramesAssumption
  <1>8. BlockPrev[1] = NULL /\ BlockNext[NumPreallocated] = NULL
    BY <1>7, FrameFacts DEF BlockPrev, BlockNext
  <1> QED
    BY <1>1, <1>2, <1>3, <1>4, <1>6, <1>8 DEF BlockNext, BlockPrev

\* A block just allocated, with at most its first frame in use.
FreshBlock ==
  /\ next = BlockNext /\ prev = BlockPrev
  /\ addresses = NoAddresses /\ capacity = BlockCapacity
  /\ heap = {} /\ active \in {NULL, 1}

FramesInOrder == BlockLinks /\ HeapLinks /\ UnusedEmpty /\ AddressesFit

\* A freshly allocated block, with nothing behind it, is in order.
LEMMA BlockStructure == FreshBlock => FramesInOrder
  <1> SUFFICES ASSUME FreshBlock PROVE FramesInOrder
    OBVIOUS
  <1> USE DEF FreshBlock
  <1>1. BlockLinks
    BY BlockFacts DEF BlockLinks
  <1>2. HeapLinks
    <2>1. active \notin HeapFrames /\ active # NumPreallocated
      BY FrameFacts, FramesAssumption DEF Permanent, Frames
    <2> QED BY <2>1, BlockFacts DEF HeapLinks
  <1>3. UnusedEmpty
    BY DEF UnusedEmpty, NoAddresses
  <1>4. AddressesFit
    <2> SUFFICES ASSUME NEW f \in Frames PROVE Len(addresses[f]) <= capacity[f]
      BY DEF AddressesFit
    <2>1. addresses[f] = << >> /\ capacity[f] \in Nat
      BY BlockFacts DEF NoAddresses
    <2> QED BY <2>1
  <1> QED BY <1>1, <1>2, <1>3, <1>4 DEF FramesInOrder

\* The same, of the state after a step that allocates the block.
LEMMA FreshBlockNext == FreshBlock' => FramesInOrder'
  BY BlockStructure, PTL

\* Before the first request the links are those of a fresh block.
LEMMA StructureInit == Init => StructureInvariant
  <1> SUFFICES ASSUME Init PROVE StructureInvariant
    OBVIOUS
  <1> USE DEF Init
  <1>1. zv \in [Frames -> [Vars -> Content]]
    BY DEF Content
  <1>2. StructureType
    BY <1>1, BlockFacts DEF StructureType
  <1>3. FramesInOrder
    BY BlockStructure DEF FreshBlock
  <1> QED BY <1>2, <1>3 DEF StructureInvariant, FramesInOrder

\* The first half of Next: requests, fatal errors and pushed frames.
LEMMA StructureLifecycle ==
  ASSUME StructureInvariant, Lifecycle
  PROVE  StructureInvariant'
  <1> USE DEF StructureInvariant, StructureType
  <1>1. CASE RInit
    <2> USE <1>1 DEF RInit, InitializeMemory, methods
    <2>1. StructureType'
      BY BlockFacts
    <2>2. FramesInOrder'
      BY FreshBlockNext DEF FreshBlock
    <2> QED BY <2>1, <2>2 DEF FramesInOrder
  <1>2. CASE RShutdown
    <2> USE <1>2 DEF RShutdown, methods
    <2>1. StructureType'
      BY BlockFacts
    <2>2. FramesInOrder'
      BY FreshBlockNext DEF FreshBlock
    <2> QED BY <2>1, <2>2 DEF FramesInOrder
  <1>3. CASE Bailout
    <2> USE <1>3 DEF Bailout, links, observed
    <2>1. zv' \in [Frames -> [Vars -> Content]]
      BY DEF Content
    <2>2. StructureType'
      BY <2>1
    <2>3. FramesInOrder'
      BY DEF FramesInOrder, BlockLinks, HeapLinks, UnusedEmpty, AddressesFit, InUse
    <2> QED BY <2>2, <2>3 DEF FramesInOrder
  <1> QED BY <1>1, <1>2, <1>3 DEF Lifecycle

\* The frame a method starts on, whichever way it was found.
LEMMA EnterType ==
  ASSUME StructureType, NEW f \in Frames, Enter(f)
  PROVE  /\ active' = f /\ live' \subseteq Frames
         /\ zv' \in [Frames -> [Vars -> Content]]
         /\ wait' \in [Frames -> Vars \cup {NULL}]
         /\ cursor' \in [Frames -> Nat]
  BY DEF StructureType, Enter, Content

\* Each way of pushing a frame (the first, the next of the block, a heap frame)
\* keeps the links.
LEMMA StructureGrow ==
  ASSUME StructureInvariant, Grow
  PROVE  StructureInvariant'
  <1> USE DEF StructureInvariant, StructureType
  <1>1. CASE GrowUninitialized
    <2> USE <1>1 DEF GrowUninitialized, InitializeMemory
    <2>1. StructureType'
      <3>1. 1 \in Frames /\ Enter(1)
        BY FrameFacts
      <3>2. /\ active' = 1 /\ live' \subseteq Frames
            /\ zv' \in [Frames -> [Vars -> Content]]
            /\ wait' \in [Frames -> Vars \cup {NULL}]
            /\ cursor' \in [Frames -> Nat]
        BY <3>1, EnterType
      <3> QED BY <3>1, <3>2, BlockFacts
    <2>2. FramesInOrder'
      BY FreshBlockNext DEF FreshBlock, Enter
    <2> QED BY <2>1, <2>2 DEF FramesInOrder
  <1>2. CASE GrowFirst
    <2> USE <1>2 DEF GrowFirst, request, observed
    <2>1. StructureType' /\ active' = 1
      BY EnterType, FrameFacts
    <2>2. BlockLinks' /\ AddressesFit'
      BY DEF BlockLinks, AddressesFit
    <2>3. HeapLinks'
      <3>1. 1 \notin HeapFrames /\ 1 # NumPreallocated /\ NULL \notin heap
        BY FrameFacts, FramesAssumption
      <3> QED BY <2>1, <3>1 DEF HeapLinks
    <2>4. UnusedEmpty'
      BY <2>1, FrameFacts DEF UnusedEmpty, InUse
    <2> QED BY <2>1, <2>2, <2>3, <2>4
  <1>3. CASE GrowNext
    <2> USE <1>3 DEF GrowNext, request, observed
    <2>1. active \in 1..(NumPreallocated - 1)
      BY FrameFacts DEF HeapLinks, Frames
    <2>2. next[active] = active + 1 /\ next[active] \in Permanent
      BY <2>1, FrameFacts DEF BlockLinks
    <2>3. StructureType' /\ active' = active + 1
      BY <2>2, EnterType, FrameFacts
    <2>4. BlockLinks' /\ AddressesFit'
      BY DEF BlockLinks, AddressesFit
    <2>5. HeapLinks'
      <3>1. active \notin heap /\ active' \notin HeapFrames
        BY <2>1, <2>2, <2>3, FrameFacts
      <3> QED BY <2>3, <3>1 DEF HeapLinks
    <2>6. UnusedEmpty'
      <3>1. active \in Nat /\ active' \in Permanent /\ active \in Permanent
        BY <2>1, <2>2, <2>3, FrameFacts
      <3>2. active # NULL /\ active' # NULL
        BY <3>1, FrameFacts
      <3> QED BY <2>3, <3>1, <3>2, FrameFacts DEF UnusedEmpty, InUse
    <2> QED BY <2>3, <2>4, <2>5, <2>6
  <1>4. CASE GrowHeap
    <2>1. PICK f \in HeapFrames \ heap :
            /\ heap' = heap \cup {f}
            /\ prev' = [prev EXCEPT ![f] = active]
            /\ next' = [next EXCEPT ![active] = f, ![f] = NULL]
            /\ addresses' = [addresses EXCEPT ![f] = << >>]
            /\ capacity' = [capacity EXCEPT ![f] = 0]
            /\ Enter(f)
      BY <1>4 DEF GrowHeap
    <2> USE <1>4 DEF GrowHeap, request
    <2>2. f \in Frames /\ f \notin Permanent /\ f # NULL
      BY FrameFacts
    <2>3. active \in heap \cup {NumPreallocated} /\ f # active
      <3>1. active \notin 1..(NumPreallocated - 1)
        BY FrameFacts DEF BlockLinks
      <3>2. CASE active \in Permanent
        BY <3>1, <3>2, <2>2, FrameFacts
      <3>3. CASE active \in HeapFrames
        BY <3>3 DEF HeapLinks
      <3> QED BY <3>2, <3>3, FrameFacts DEF Frames
    <2>4. StructureType'
      <3>1. /\ active' = f /\ live' \subseteq Frames
            /\ zv' \in [Frames -> [Vars -> Content]]
            /\ wait' \in [Frames -> Vars \cup {NULL}]
            /\ cursor' \in [Frames -> Nat]
        BY <2>1, <2>2, EnterType
      <3>2. next' \in [Frames -> Frames \cup {NULL}] /\ prev' \in [Frames -> Frames \cup {NULL}]
        BY <2>1, <2>2
      <3>3. addresses' \in [Frames -> Seq(Vars)] /\ capacity' \in [Frames -> Nat]
        BY <2>1, <2>2
      <3> QED BY <2>1, <2>2, <3>1, <3>2, <3>3
    <2>5. BlockLinks'
      <3>1. active \notin 1..(NumPreallocated - 1)
        BY FrameFacts DEF BlockLinks
      <3>2. \A i \in 1..(NumPreallocated - 1) : next'[i] = i + 1
        <4> SUFFICES ASSUME NEW i \in 1..(NumPreallocated - 1) PROVE next'[i] = i + 1
          OBVIOUS
        <4>1. i \in Permanent /\ i # active
          BY <3>1, FrameFacts
        <4>2. i \in Frames /\ i # f
          BY <4>1, <2>2, FrameFacts
        <4> QED BY <2>1, <4>1, <4>2 DEF BlockLinks
      <3>3. \A i \in Permanent : prev'[i] = prev[i]
        BY <2>1, <2>2, FrameFacts
      <3>4. \A i \in 2..NumPreallocated : i \in Permanent
        BY FramesAssumption DEF Permanent
      <3> QED BY <3>2, <3>3, <3>4, FrameFacts DEF BlockLinks
    <2>6. HeapLinks'
      <3>1. active' = f /\ active' \in heap' /\ next'[f] = NULL
        BY <2>1, <2>2, EnterType
      <3>2. prev'[f] = active /\ next'[active] = f
        BY <2>1, <2>2, <2>3, FrameFacts
      <3>3. ASSUME NEW g \in heap
            PROVE  prev'[g] \in heap \cup {NumPreallocated} /\ next'[prev'[g]] = g
        <4>1. /\ prev[g] \in heap \cup {NumPreallocated} /\ next[prev[g]] = g
              /\ g \in Frames /\ g # f /\ g # NULL
          BY <2>1, FrameFacts, SMTT(60) DEF HeapLinks
        <4>2. NumPreallocated # f /\ f \notin heap
          BY <2>2, FrameFacts
        <4>3. prev[g] # f
          BY <4>1, <4>2
        <4>4. heap \subseteq Frames /\ NumPreallocated \in Frames
          BY FrameFacts
        <4>5. prev[g] # f /\ prev[g] \in Frames
          BY <4>1, <4>3, <4>4
        <4>6. prev[g] # active
          BY <4>1
        <4>7. prev'[g] = prev[g] /\ next'[prev[g]] = next[prev[g]]
          BY <4>1, <4>5, <4>6, <2>1
        <4> QED BY <4>1, <4>7
      <3>4. \A g \in heap' : /\ prev'[g] \in heap' \cup {NumPreallocated}
                             /\ next'[prev'[g]] = g
        <4>1. heap' = heap \cup {f}
          BY <2>1
        <4>2. prev'[f] \in heap \cup {NumPreallocated} /\ next'[prev'[f]] = f
          BY <2>3, <3>2
        <4> QED BY <4>1, <4>2, <3>3
      <3> QED BY <3>1, <3>4 DEF HeapLinks
    <2>7. UnusedEmpty'
      <3>1. active' = f /\ active' \notin Permanent /\ active' # NULL
        BY <2>1, <2>2, EnterType
      <3>2. active # NULL
        OBVIOUS
      <3>3. \A g \in Frames : InUse(g) => InUse(g)'
        BY <2>1, <3>1, <3>2 DEF InUse
      <3> QED BY <2>1, <3>3 DEF UnusedEmpty
    <2>8. AddressesFit'
      BY <2>1, <2>2 DEF AddressesFit
    <2> QED BY <2>1, <2>4, <2>5, <2>6, <2>7, <2>8
  <1> QED BY <1>1, <1>2, <1>3, <1>4 DEF Grow

\* The end of a frame: a heap frame is unlinked, a frame of the block emptied.
LEMMA StructurePop ==
  ASSUME StructureInvariant, NEW f \in Frames, Pop(f)
  PROVE  StructureInvariant'
  <1> USE DEF StructureInvariant, StructureType, Pop, request
  <1>1. /\ live' \subseteq Frames /\ (~started => live' = {})
        /\ zv' \in [Frames -> [Vars -> Content]]
        /\ cursor' \in [Frames -> Nat] /\ addresses' \in [Frames -> Seq(Vars)]
    BY DEF Content
  <1>2. CASE f \in Permanent
    <2>1. UNCHANGED <<heap, next, prev, capacity>> /\ active' = prev[f]
      BY <1>2
    <2>2. f = 1 \/ (f \in 2..NumPreallocated /\ f - 1 \in 1..(NumPreallocated - 1))
      BY <1>2, FrameFacts
    <2>3. active' = IF f = 1 THEN NULL ELSE f - 1
      BY <2>1, <2>2, FramesAssumption DEF BlockLinks
    <2>4. active' \in (Permanent \ {NumPreallocated}) \cup {NULL}
      BY <2>2, <2>3, FramesAssumption DEF Permanent
    <2>5. StructureType'
      BY <1>1, <2>1
    <2>6. BlockLinks' /\ AddressesFit'
      <3>1. \A g \in Frames : Len(addresses'[g]) <= Len(addresses[g])
        BY <1>1
      <3>2. \A g \in Frames : Len(addresses'[g]) <= capacity[g]
        <4> SUFFICES ASSUME NEW g \in Frames PROVE Len(addresses'[g]) <= capacity[g]
          OBVIOUS
        <4>1. /\ Len(addresses'[g]) \in Nat /\ Len(addresses[g]) \in Nat
              /\ capacity[g] \in Nat /\ Len(addresses[g]) <= capacity[g]
          BY <1>1 DEF AddressesFit
        <4> QED BY <3>1, <4>1
      <3> QED BY <2>1, <3>2 DEF BlockLinks, AddressesFit
    <2>7. HeapLinks'
      <3>1. f \notin heap /\ active' \notin heap \cup {NumPreallocated}
            /\ active' \notin HeapFrames
        BY <1>2, <2>4, FrameFacts
      <3> QED BY <2>1, <3>1 DEF HeapLinks
    <2>8. UnusedEmpty'
      <3>1. ASSUME NEW g \in Frames, g # f, InUse(g) PROVE InUse(g)'
        <4>1. g \in heap \/ (g \in Permanent /\ g <= f)
          BY <1>2, <3>1 DEF InUse
        <4>2. CASE g \in heap
          BY <4>2, <2>1 DEF InUse
        <4>3. CASE g \in Permanent /\ g <= f
          <5>1. f # 1 /\ g <= f - 1
            BY <4>3, <3>1, <1>2, FramesAssumption DEF Permanent
          <5>2. active' = f - 1 /\ active' # NULL
            BY <5>1, <2>2, <2>3, FrameFacts
          <5> QED BY <4>3, <5>1, <5>2 DEF InUse
        <4> QED BY <4>1, <4>2, <4>3
      <3>2. ASSUME NEW g \in Frames, ~InUse(g)' PROVE addresses'[g] = << >>
        <4>1. CASE g = f
          BY <4>1
        <4>2. CASE g # f
          BY <4>2, <3>1, <3>2 DEF UnusedEmpty
        <4> QED BY <4>1, <4>2
      <3> QED BY <3>2 DEF UnusedEmpty
    <2> QED BY <1>1, <2>5, <2>6, <2>7, <2>8
  <1>3. CASE f \notin Permanent
    <2>1. FreeFrame(f) /\ active' = prev[f] /\ addresses'[f] = << >>
      BY <1>3
    <2> USE DEF FreeFrame
    <2>2. f \in heap /\ next[f] = NULL /\ f \in HeapFrames
      BY <1>3 DEF HeapLinks, Frames
    <2>3. prev[f] \in heap \cup {NumPreallocated} /\ next[prev[f]] = f /\ f # NULL
      BY <2>2, FrameFacts DEF HeapLinks
    <2>4. prev[f] # f /\ prev[f] \in Frames
      BY <2>2, <2>3, FrameFacts
    <2>5. StructureType'
      <3>1. next' \in [Frames -> Frames \cup {NULL}] /\ prev' \in [Frames -> Frames \cup {NULL}]
        BY <2>1
      <3> QED BY <1>1, <2>1, <2>4, <3>1
    <2>6. prev[f] \notin 1..(NumPreallocated - 1)
      <3>1. NumPreallocated \notin 1..(NumPreallocated - 1)
        BY FramesAssumption
      <3>2. \A i \in 1..(NumPreallocated - 1) : i \notin heap
        BY FrameFacts
      <3> QED BY <2>3, <3>1, <3>2
    <2>7. BlockLinks'
      <3>1. \A i \in 1..(NumPreallocated - 1) : i \in Frames /\ i # prev[f]
        BY <2>6, FrameFacts
      <3>2. \A i \in 1..(NumPreallocated - 1) : next'[i] = next[i]
        BY <2>1, <3>1
      <3>3. \A i \in Permanent : prev'[i] = prev[i]
        BY <2>1, <1>3, FrameFacts
      <3>4. \A i \in 2..NumPreallocated : i \in Permanent
        BY FramesAssumption DEF Permanent
      <3> QED BY <3>2, <3>3, <3>4, FrameFacts DEF BlockLinks
    <2>8. HeapLinks'
      <3>1. heap' = heap \ {f} /\ active' \in heap' \cup {NumPreallocated}
        BY <2>1, <2>3, <2>4
      <3>2. next'[active'] = NULL
        BY <2>1, <2>4
      <3>3. NumPreallocated \notin HeapFrames
        BY FrameFacts
      <3>4. ASSUME NEW g \in heap \ {f}
            PROVE  prev'[g] \in heap' \cup {NumPreallocated} /\ next'[prev'[g]] = g
        <4>1. heap \subseteq Frames /\ NumPreallocated \in Frames /\ NULL \notin Frames
          BY FrameFacts
        <4>2. g \in Frames /\ g # f /\ g # NULL
          BY <4>1
        <4>3. prev[g] \in heap \cup {NumPreallocated} /\ next[prev[g]] = g
          BY DEF HeapLinks
        <4>4. prev[g] # f /\ prev[g] # prev[f]
          BY <4>2, <4>3, <2>2, <2>3
        <4>5. prev[g] \in Frames
          BY <4>1, <4>3
        <4>6. prev'[g] = prev[g] /\ next'[prev[g]] = next[prev[g]]
          BY <4>2, <4>4, <4>5, <2>1
        <4> QED BY <3>1, <4>3, <4>4, <4>6
      <3> QED BY <3>1, <3>2, <3>3, <3>4 DEF HeapLinks
    <2>9. UnusedEmpty'
      <3>1. active' # NULL /\ (active' \in Permanent => active' = NumPreallocated)
        BY <2>1, <2>3, FrameFacts
      <3>2. ASSUME NEW g \in Frames, g # f, InUse(g) PROVE InUse(g)'
        <4>1. CASE g \in heap
          BY <4>1, <3>2, <2>1 DEF InUse
        <4>2. CASE g \in Permanent
          <5>1. g <= NumPreallocated
            BY <4>2 DEF Permanent
          <5> QED BY <4>2, <5>1, <3>1 DEF InUse
        <4> QED BY <4>1, <4>2, <3>2 DEF InUse
      <3>3. ASSUME NEW g \in Frames, ~InUse(g)' PROVE addresses'[g] = << >>
        <4>1. CASE g = f
          BY <4>1
        <4>2. CASE g # f
          BY <4>2, <3>2, <3>3 DEF UnusedEmpty
        <4> QED BY <4>1, <4>2
      <3> QED BY <3>3 DEF UnusedEmpty
    <2>10. AddressesFit'
      BY <2>1 DEF AddressesFit
    <2> QED BY <1>1, <2>5, <2>7, <2>8, <2>9, <2>10
  <1> QED BY <1>2, <1>3

\* The ways out of a method, the restore loop and the pop keep the links.
LEMMA StructureLeave ==
  ASSUME StructureInvariant, NEW f \in Frames, Leave(f)
  PROVE  StructureInvariant'
  <1>1. /\ zv \in [Frames -> [Vars -> Content]] /\ wait \in [Frames -> Vars \cup {NULL}]
        /\ cursor \in [Frames -> Nat] /\ addresses \in [Frames -> Seq(Vars)]
    BY DEF StructureInvariant, StructureType
  <1>2. ASSUME BeginRestore(f) PROVE cursor' \in [Frames -> Nat]
    <2>1. Len(addresses[f]) \in Nat
      BY <1>1
    <2> QED BY <1>1, <1>2, <2>1 DEF BeginRestore
  <1>3. CASE ReturnMM(f)
    <2>1. BeginRestore(f) /\ UNCHANGED <<request, links, observed, live, zv, wait>>
      BY <1>3 DEF ReturnMM
    <2> QED BY <1>1, <1>2, <2>1, SameStructure
  <1>4. ASSUME NEW y \in Vars, NEW x \in Vars, ReturnCCtor(f, y, x)
        PROVE  StructureInvariant'
    <2>1. PICK c \in {zv[f][y]} \cup Fresh : zv' = [zv EXCEPT ![prev[f]][x] = c]
      BY <1>4 DEF ReturnCCtor
    <2>2. c \in Content
      BY <1>1, <2>1 DEF Fresh, Content
    <2>3. zv' \in [Frames -> [Vars -> Content]]
      BY <1>1, <2>1, <2>2
    <2>4. BeginRestore(f) /\ UNCHANGED <<request, links, observed, live, wait>>
      BY <1>4 DEF ReturnCCtor
    <2> QED BY <1>1, <1>2, <2>3, <2>4, SameStructure
  <1>5. CASE RestoreStep(f)
    <2>1. /\ cursor' = [cursor EXCEPT ![f] = @ + 1]
          /\ UNCHANGED <<request, links, observed, live, zv, wait>>
      BY <1>5 DEF RestoreStep
    <2>2. cursor' \in [Frames -> Nat]
      BY <1>1, <2>1
    <2> QED BY <1>1, <2>1, <2>2, SameStructure
  <1>6. CASE Pop(f)
    BY <1>6, StructurePop
  <1> QED BY <1>3, <1>4, <1>5, <1>6 DEF Leave

\* A write of c into a local zval, by a macro that registers it if need be.
LEMMA StructureWrite ==
  ASSUME StructureInvariant, NEW f \in Frames, NEW x \in Vars, NEW old,
         NEW c \in Content, FirstUse(f, x, c) \/ AnyUse(f, x, old, c)
  PROVE  StructureInvariant'
  <1> USE DEF StructureInvariant, StructureType
  <1>1. f = active /\ UNCHANGED <<request, links, live, wait, cursor>>
    BY DEF FirstUse, AnyUse, Running
  <1>2. zv' = [zv EXCEPT ![f][x] = c] /\ (Observe(f, x) \/ UNCHANGED observed)
    BY DEF FirstUse, AnyUse
  <1>3. zv' \in [Frames -> [Vars -> Content]]
    BY <1>2
  <1> QED BY <1>1, <1>2, <1>3, StatementStructure

\* What a macro writes is what a zval can hold.
LEMMA WrittenContent ==
  Constructed \subseteq Content /\ Fetched \subseteq Content /\ Copied \subseteq Content
  BY DEF Constructed, Fetched, Copied, Unset, Content, Fresh, Alive

\* What a macro drops when it has written a zval that held something: that, or
\* nothing if it is a PHP reference.
Drops(held, old) == old = held \/ (held \in References /\ old = Undef)

\* It is what ZEPHIR_INIT_NVAR drops.
LEMMA InitNVarDropsOld ==
  ASSUME NEW f \in Frames, NEW x \in Vars
  PROVE  Drops(zv[f][x], InitNVarDrops(f, x)) /\ Drops(zv[f][x], zv[f][x])
  BY DEF Drops, InitNVarDrops

\* The macros of memory.h all write one zval of the active frame.
LEMMA StatementKinds ==
  ASSUME NEW f \in Frames, NEW x \in Vars, Statement(f, x)
  PROVE  \/ \E c \in Content : FirstUse(f, x, c)
         \/ \E c \in Content, old \in {zv[f][x], InitNVarDrops(f, x)} : AnyUse(f, x, old, c)
         \/ CallBegin(f, x) \/ CallSucceeds(f, x) \/ CallFails(f, x)
  BY WrittenContent DEF Statement, InitVar, ObsVar, InitNVar, ObsNVar, CpyWrt

\* A statement never changes a link, and fits what it registers in the buffer.
LEMMA StructureStatement ==
  ASSUME StructureInvariant, NEW f \in Frames, NEW x \in Vars, Statement(f, x)
  PROVE  StructureInvariant'
  <1> USE DEF StructureInvariant, StructureType
  <1>1. ASSUME NEW c \in Content, NEW old, FirstUse(f, x, c) \/ AnyUse(f, x, old, c)
        PROVE  StructureInvariant'
    BY <1>1, StructureWrite
  <1>2. CASE CallBegin(f, x)
    <2>1. f = active /\ UNCHANGED <<request, links, live, cursor>>
      BY <1>2 DEF CallBegin, Running
    <2>2. /\ zv' \in [Frames -> [Vars -> Content]]
          /\ wait' \in [Frames -> Vars \cup {NULL}]
      BY <1>2 DEF CallBegin, Content
    <2>3. Observe(f, x) \/ UNCHANGED observed
      BY <1>2 DEF CallBegin
    <2> QED BY <2>1, <2>2, <2>3, StatementStructure
  <1>3. CASE CallSucceeds(f, x)
    <2>1. UNCHANGED <<request, links, observed, live, cursor>>
      BY <1>3 DEF CallSucceeds
    <2>2. zv' \in [Frames -> [Vars -> Content]]
      <3>1. CASE zv[f][x] = Undef
        <4>1. PICK c \in {Scalar} \cup Values \cup Unset : zv' = [zv EXCEPT ![f][x] = c]
          BY <1>3, <3>1 DEF CallSucceeds
        <4>2. c \in Content
          BY <4>1 DEF Content, Unset
        <4> QED BY <4>1, <4>2
      <3>2. CASE zv[f][x] # Undef
        BY <1>3, <3>2 DEF CallSucceeds
      <3> QED BY <3>1, <3>2
    <2>3. wait' \in [Frames -> Vars \cup {NULL}]
      BY <1>3 DEF CallSucceeds
    <2> QED BY <2>1, <2>2, <2>3, SameStructure
  <1>4. CASE CallFails(f, x)
    <2>1. UNCHANGED <<request, links, observed, live>>
      BY <1>4 DEF CallFails
    <2>2. zv' \in [Frames -> [Vars -> Content]]
      BY <1>4 DEF CallFails, Content
    <2>3. wait' \in [Frames -> Vars \cup {NULL}]
      BY <1>4 DEF CallFails
    <2>4. cursor' \in [Frames -> Nat]
      <3>1. BeginRestore(f) \/ UNCHANGED cursor
        BY <1>4 DEF CallFails
      <3>2. Len(addresses[f]) + 1 \in Nat
        OBVIOUS
      <3>3. CASE BeginRestore(f)
        BY <3>2, <3>3 DEF BeginRestore
      <3> QED BY <3>1, <3>3
    <2> QED BY <2>1, <2>2, <2>3, <2>4, SameStructure
  <1> QED BY <1>1, <1>2, <1>3, <1>4, StatementKinds

\* A step that changes counts only, or nothing.
LEMMA StructureIdle ==
  ASSUME StructureInvariant, UNCHANGED <<request, links, observed, methods>>
  PROVE  StructureInvariant'
  BY SameStructure DEF StructureInvariant, StructureType, methods

\* The structure is inductive: every step of a request keeps it.
LEMMA StructureStep == StructureInvariant /\ [Next]_vars => StructureInvariant'
  <1> SUFFICES ASSUME StructureInvariant, [Next]_vars PROVE StructureInvariant'
    OBVIOUS
  <1>1. CASE Lifecycle
    BY <1>1, StructureLifecycle
  <1>2. CASE Grow
    BY <1>2, StructureGrow
  <1>3. ASSUME NEW f \in Frames, Leave(f) PROVE StructureInvariant'
    BY <1>3, StructureLeave
  <1>4. ASSUME NEW f \in Frames, NEW x \in Vars, Statement(f, x)
        PROVE  StructureInvariant'
    BY <1>4, StructureStatement
  <1>5. ASSUME NEW v \in Values, AddExternal(v) \/ DropExternal(v)
        PROVE  StructureInvariant'
    BY <1>5, StructureIdle DEF AddExternal, DropExternal
  <1>6. CASE UNCHANGED vars
    BY <1>6, StructureIdle DEF vars
  <1> QED BY <1>1, <1>2, <1>3, <1>4, <1>5, <1>6 DEF Next

\* In every reachable state the links of the frames run through the block and
\* then through the heap frames, up to the active one, frames beyond it are
\* empty, and no buffer is overrun: what grow_stack_common and
\* restore_stack_common rely on when they follow next and prev.
THEOREM StructureHolds == Spec => []StructureInvariant
  BY StructureInit, StructureStep, PTL DEF Spec

\* The assertions of zephir_memory_grow_stack_common and
\* zephir_memory_restore_stack_common hold in every reachable state.
THEOREM FrameAssertsHold == Spec => []FrameAsserts
  <1>1. StructureInvariant => FrameAsserts
    <2> SUFFICES ASSUME StructureInvariant PROVE FrameAsserts
      OBVIOUS
    <2> USE DEF StructureInvariant, StructureType
    <2>1. active = NULL => addresses[1] = << >>
      BY FrameFacts DEF UnusedEmpty, InUse
    <2>2. ASSUME active \in Permanent \ {NumPreallocated}
          PROVE  next[active] \in Permanent /\ addresses[next[active]] = << >>
      <3>1. active \in 1..(NumPreallocated - 1) /\ active \in Nat
        BY <2>2, FrameFacts
      <3>2. next[active] = active + 1 /\ active + 1 \in Permanent
        BY <3>1, FrameFacts DEF BlockLinks
      <3>3. ~InUse(active + 1)
        BY <2>2, <3>1, <3>2, FrameFacts DEF InUse
      <3> QED BY <3>2, <3>3, FrameFacts DEF UnusedEmpty
    <2>3. active \in heap \cup {NumPreallocated} => next[active] = NULL
      BY DEF HeapLinks
    <2>4. active \in HeapFrames => active \in heap /\ prev[active] # NULL
      <3>1. NULL \notin heap \cup {NumPreallocated}
        BY FrameFacts
      <3> QED BY <3>1 DEF HeapLinks
    <2> QED BY <2>1, <2>2, <2>3, <2>4 DEF FrameAsserts
  <1> QED BY <1>1, StructureHolds, PTL

\* zephir_do_memory_observe never writes past the buffer of a frame.
THEOREM AddressesFitHolds == Spec => []AddressesFit
  <1>1. StructureInvariant => AddressesFit
    BY DEF StructureInvariant
  <1> QED BY <1>1, StructureHolds, PTL

-----------------------------------------------------------------------------
(* 2. Registered zvals.                                                    *)

\* In a method that runs, a zval other than the one that waits for a result
\* is IS_UNDEF exactly when it is not registered.  This is what lets the
\* macros test Z_TYPE_P instead of searching the frame.
UndefIffUnobserved ==
  \A f \in live : cursor[f] = 0 =>
    \A x \in Vars : x # wait[f] => (zv[f][x] # Undef <=> x \in Observed(f))

\* The zval of the result is registered before the call.
WaitObserved == \A f \in live : wait[f] # NULL => wait[f] \in Observed(f)

ObservationInvariant ==
  StructureInvariant /\ UndefIffUnobserved /\ WaitObserved /\ ObservedOnce

\* Appending e adds one element, e, at the end.
LEMMA AppendFacts ==
  ASSUME NEW S, NEW s \in Seq(S), NEW e \in S
  PROVE  /\ Len(Append(s, e)) = Len(s) + 1 /\ Len(s) \in Nat
         /\ \A i \in 1..Len(s) : Append(s, e)[i] = s[i]
         /\ Append(s, e)[Len(s) + 1] = e
  OBVIOUS

\* zephir_do_memory_observe adds x to the names of f, and no name twice.
LEMMA ObserveEffect ==
  ASSUME StructureType, NEW f \in Frames, NEW x \in Vars, Observe(f, x)
  PROVE  /\ \A g \in Frames : Observed(g)' = Observed(g) \cup (IF g = f THEN {x} ELSE {})
         /\ x \notin Observed(f) /\ ObservedOnce => ObservedOnce'
  <1> USE DEF StructureType
  <1> DEFINE s == addresses[f]
  <1>1. /\ addresses'[f] = Append(s, x) /\ s \in Seq(Vars)
        /\ \A g \in Frames : g # f => addresses'[g] = addresses[g]
    BY DEF Observe
  <1>2. /\ Len(Append(s, x)) = Len(s) + 1 /\ Len(s) \in Nat
        /\ \A i \in 1..Len(s) : Append(s, x)[i] = s[i]
        /\ Append(s, x)[Len(s) + 1] = x
    BY <1>1, AppendFacts
  <1>3. Observed(f)' = Observed(f) \cup {x}
    <2>1. \A i \in 1..(Len(s) + 1) : i \in 1..Len(s) \/ i = Len(s) + 1
      BY <1>2
    <2>2. 1..Len(s) \subseteq 1..(Len(s) + 1) /\ Len(s) + 1 \in 1..(Len(s) + 1)
      BY <1>2
    <2>3. Observed(f)' = {Append(s, x)[i] : i \in 1..(Len(s) + 1)}
      BY <1>1, <1>2 DEF Observed
    <2> HIDE DEF s
    <2>4. {Append(s, x)[i] : i \in 1..(Len(s) + 1)} = {s[i] : i \in 1..Len(s)} \cup {x}
      BY <1>2, <2>1, <2>2
    <2> QED BY <2>3, <2>4 DEF Observed, s
  <1>4. \A g \in Frames : g # f => Observed(g)' = Observed(g)
    BY <1>1 DEF Observed
  <1>5. ASSUME x \notin Observed(f), ObservedOnce PROVE ObservedOnce'
    <2> SUFFICES ASSUME NEW g \in Frames, NEW i \in 1..Len(addresses'[g]),
                        NEW j \in 1..Len(addresses'[g]),
                        addresses'[g][i] = addresses'[g][j]
                 PROVE  i = j
      BY DEF ObservedOnce
    <2>1. CASE g # f
      BY <2>1, <1>1, <1>5 DEF ObservedOnce
    <2>2. CASE g = f
      <3>1. \A k \in 1..Len(s) : s[k] # x
        BY <1>5 DEF Observed
      <3>2. i \in 1..(Len(s) + 1) /\ j \in 1..(Len(s) + 1)
        BY <2>2, <1>1, <1>2
      <3>3. \A k \in 1..(Len(s) + 1) : k \in 1..Len(s) \/ k = Len(s) + 1
        BY <1>2
      <3>4. /\ i \in 1..Len(s) \/ i = Len(s) + 1
            /\ j \in 1..Len(s) \/ j = Len(s) + 1
        BY <3>2, <3>3, Zenon
      <3>5. Append(s, x)[i] = Append(s, x)[j]
        BY <2>2, <1>1
      <3>6. i \in 1..Len(s) /\ j \in 1..Len(s) => i = j
        BY <3>5, <1>2, <1>5 DEF ObservedOnce
      <3> QED BY <3>1, <3>4, <3>5, <3>6, <1>2
    <2> QED BY <2>1, <2>2
  <1> QED BY <1>3, <1>4, <1>5

\* A statement of the active method keeps the invariant of the other methods.
LEMMA OthersObserved ==
  ASSUME ObservationInvariant, NEW f \in Frames, live' \subseteq live,
         \A g \in live' \ {f} : /\ zv'[g] = zv[g] /\ wait'[g] = wait[g]
                               /\ cursor'[g] = cursor[g] /\ Observed(g)' = Observed(g),
         \A x \in Vars : f \in live' /\ cursor'[f] = 0 /\ x # wait'[f] =>
                         (zv'[f][x] # Undef <=> x \in Observed(f)'),
         f \in live' /\ wait'[f] # NULL => wait'[f] \in Observed(f)'
  PROVE  UndefIffUnobserved' /\ WaitObserved'
  <1> USE DEF ObservationInvariant
  <1>1. ASSUME NEW g \in live', cursor'[g] = 0, NEW x \in Vars, x # wait'[g]
        PROVE  zv'[g][x] # Undef <=> x \in Observed(g)'
    <2>1. CASE g = f
      <3>1. Observed(g)' = Observed(f)'
        BY <2>1 DEF Observed
      <3>2. zv'[f][x] # Undef <=> x \in Observed(f)'
        BY <1>1, <2>1
      <3> QED BY <2>1, <3>1, <3>2
    <2>2. CASE g # f
      <3>1. /\ zv'[g] = zv[g] /\ wait'[g] = wait[g] /\ g \in live
            /\ cursor'[g] = cursor[g] /\ Observed(g)' = Observed(g)
        BY <2>2
      <3> QED BY <1>1, <3>1 DEF UndefIffUnobserved
    <2> QED BY <2>1, <2>2
  <1>2. ASSUME NEW g \in live', wait'[g] # NULL PROVE wait'[g] \in Observed(g)'
    <2>1. CASE g = f
      <3>1. Observed(g)' = Observed(f)'
        BY <2>1 DEF Observed
      <3>2. wait'[f] \in Observed(f)'
        BY <1>2, <2>1
      <3> QED BY <2>1, <3>1, <3>2
    <2>2. CASE g # f
      <3>1. wait'[g] = wait[g] /\ Observed(g)' = Observed(g) /\ g \in live
        BY <2>2
      <3> QED BY <1>2, <3>1 DEF WaitObserved
    <2> QED BY <2>1, <2>2
  <1> QED BY <1>1, <1>2 DEF UndefIffUnobserved, WaitObserved

\* At the start no method is on the C stack.
LEMMA ObservationInit == Init => ObservationInvariant
  <1> SUFFICES ASSUME Init PROVE ObservationInvariant
    OBVIOUS
  <1>1. StructureInvariant
    BY StructureInit
  <1>2. UndefIffUnobserved /\ WaitObserved
    BY DEF Init, UndefIffUnobserved, WaitObserved
  <1>3. ObservedOnce
    BY DEF Init, NoAddresses, ObservedOnce
  <1> QED BY <1>1, <1>2, <1>3 DEF ObservationInvariant

\* Requests start and end with no method on the C stack, and a fatal error
\* leaves none.
LEMMA ObservationLifecycle ==
  ASSUME ObservationInvariant, Lifecycle
  PROVE  UndefIffUnobserved' /\ WaitObserved' /\ ObservedOnce'
  <1>1. live' = {}
    BY DEF Lifecycle, RInit, RShutdown, Bailout, methods
  <1>2. addresses' = NoAddresses \/ addresses' = addresses
    BY DEF Lifecycle, RInit, RShutdown, Bailout, observed
  <1>3. ObservedOnce'
    BY <1>2 DEF ObservationInvariant, ObservedOnce, NoAddresses
  <1> QED BY <1>1, <1>3 DEF UndefIffUnobserved, WaitObserved

\* The frame a method starts on is empty.
LEMMA ObservationGrow ==
  ASSUME ObservationInvariant, Grow
  PROVE  UndefIffUnobserved' /\ WaitObserved' /\ ObservedOnce'
  <1> USE DEF ObservationInvariant, StructureInvariant, StructureType
  <1>1. PICK f \in Frames :
          /\ Enter(f) /\ addresses'[f] = << >>
          /\ \A g \in live : g # f => addresses'[g] = addresses[g]
          /\ \A g \in Frames : addresses'[g] = << >> \/ addresses'[g] = addresses[g]
    <2>1. CASE GrowUninitialized
      <3>1. live = {} /\ Enter(1) /\ addresses' = NoAddresses
        BY <2>1 DEF GrowUninitialized
      <3> QED BY <3>1, FrameFacts DEF NoAddresses
    <2>2. CASE GrowFirst
      <3>1. Enter(1) /\ addresses' = addresses /\ addresses[1] = << >>
        BY <2>2, FrameFacts DEF GrowFirst, observed, UnusedEmpty, InUse
      <3> QED BY <3>1, FrameFacts
    <2>3. CASE GrowNext
      <3>1. active \in 1..(NumPreallocated - 1)
        BY <2>3, FrameFacts DEF GrowNext, HeapLinks, Frames
      <3>2. next[active] = active + 1 /\ active + 1 \in Permanent /\ active \in Nat
        BY <3>1, FrameFacts DEF BlockLinks
      <3>3. ~InUse(active + 1)
        BY <3>1, <3>2, FrameFacts DEF InUse
      <3>4. Enter(active + 1) /\ addresses' = addresses /\ addresses[active + 1] = << >>
        BY <2>3, <3>2, <3>3, FrameFacts DEF GrowNext, observed, UnusedEmpty
      <3> QED BY <3>2, <3>4, FrameFacts
    <2>4. CASE GrowHeap
      <3>1. PICK f \in HeapFrames : /\ Enter(f)
                                    /\ addresses' = [addresses EXCEPT ![f] = << >>]
        BY <2>4 DEF GrowHeap
      <3>2. f \in Frames
        BY FrameFacts
      <3>3. addresses'[f] = << >> /\ \A g \in Frames : g # f => addresses'[g] = addresses[g]
        BY <3>1, <3>2
      <3> QED BY <3>1, <3>2, <3>3
    <2> QED BY <2>1, <2>2, <2>3, <2>4 DEF Grow
  <1>2. /\ live' = live \cup {f} /\ wait'[f] = NULL /\ cursor'[f] = 0
        /\ \A x \in Vars : zv'[f][x] = Undef
        /\ \A g \in live : g # f => /\ zv'[g] = zv[g] /\ wait'[g] = wait[g]
                                    /\ cursor'[g] = cursor[g]
    BY <1>1 DEF Enter
  <1>3. Observed(f)' = {} /\ \A g \in live : g # f => Observed(g)' = Observed(g)
    BY <1>1 DEF Observed
  <1>4. UndefIffUnobserved'
    <2> SUFFICES ASSUME NEW g \in live', cursor'[g] = 0, NEW x \in Vars, x # wait'[g]
                 PROVE  zv'[g][x] # Undef <=> x \in Observed(g)'
      BY DEF UndefIffUnobserved
    <2>1. CASE g = f
      <3>1. Observed(g)' = {}
        BY <1>1, <2>1 DEF Observed
      <3> QED BY <3>1, <1>2, <2>1
    <2>2. CASE g # f
      <3>1. /\ g \in live /\ zv'[g] = zv[g] /\ wait'[g] = wait[g]
            /\ cursor'[g] = cursor[g] /\ Observed(g)' = Observed(g)
        BY <1>2, <1>3, <2>2
      <3> QED BY <3>1 DEF UndefIffUnobserved
    <2> QED BY <2>1, <2>2
  <1>5. WaitObserved'
    <2> SUFFICES ASSUME NEW g \in live', wait'[g] # NULL
                 PROVE  wait'[g] \in Observed(g)'
      BY DEF WaitObserved
    <2>1. g # f /\ g \in live
      BY <1>2
    <2>2. wait'[g] = wait[g] /\ Observed(g)' = Observed(g)
      BY <1>2, <1>3, <2>1
    <2> QED BY <2>1, <2>2 DEF WaitObserved
  <1>6. ObservedOnce'
    BY <1>1 DEF ObservedOnce
  <1> QED BY <1>4, <1>5, <1>6

\* Once a method leaves, nothing is read off its zvals.
LEMMA ObservationLeave ==
  ASSUME ObservationInvariant, NEW f \in Frames, Leave(f)
  PROVE  UndefIffUnobserved' /\ WaitObserved' /\ ObservedOnce'
  <1> USE DEF ObservationInvariant, StructureInvariant, StructureType
  <1>1. CASE ReturnMM(f)
    <2>1. UNCHANGED <<observed, live, zv, wait>> /\ wait[f] = NULL
      BY <1>1 DEF ReturnMM, Running
    <2>2. Len(addresses[f]) + 1 # 0 /\ Len(addresses[f]) \in Nat
      OBVIOUS
    <2>3. cursor'[f] # 0 /\ \A g \in Frames : g # f => cursor'[g] = cursor[g]
      BY <1>1, <2>2 DEF ReturnMM, BeginRestore
    <2>4. \A g \in Frames : Observed(g)' = Observed(g)
      BY <2>1 DEF Observed, observed
    <2>5. UndefIffUnobserved' /\ WaitObserved'
      BY <2>1, <2>3, <2>4, OthersObserved
    <2> QED BY <2>1, <2>5 DEF ObservedOnce, observed
  <1>2. ASSUME NEW y \in Vars, NEW x \in Vars, ReturnCCtor(f, y, x)
        PROVE  UndefIffUnobserved' /\ WaitObserved' /\ ObservedOnce'
    <2>1. /\ UNCHANGED <<observed, live, wait>> /\ wait[f] = NULL
          /\ wait[prev[f]] = x /\ prev[f] \in live
      BY <1>2 DEF ReturnCCtor, Running
    <2>2. prev[f] # f /\ prev[f] \in Frames
      BY <2>1, FrameFacts
    <2>3. PICK c : zv' = [zv EXCEPT ![prev[f]][x] = c]
      BY <1>2 DEF ReturnCCtor
    <2>4. Len(addresses[f]) + 1 # 0 /\ Len(addresses[f]) \in Nat
      OBVIOUS
    <2>5. cursor'[f] # 0 /\ \A g \in Frames : g # f => cursor'[g] = cursor[g]
      BY <1>2, <2>4 DEF ReturnCCtor, BeginRestore
    <2>6. \A g \in Frames : Observed(g)' = Observed(g)
      BY <2>1 DEF Observed, observed
    <2>7. UndefIffUnobserved'
      <3> SUFFICES ASSUME NEW g \in live, cursor'[g] = 0, NEW z \in Vars, z # wait[g]
                   PROVE  zv'[g][z] # Undef <=> z \in Observed(g)'
        BY <2>1 DEF UndefIffUnobserved
      <3>1. g \in Frames /\ g # f /\ cursor[g] = 0
        BY <2>5
      <3>2. zv'[g][z] = zv[g][z]
        <4>1. CASE g = prev[f]
          BY <4>1, <2>1, <2>2, <2>3
        <4>2. CASE g # prev[f]
          BY <4>2, <2>2, <2>3, <3>1
        <4> QED BY <4>1, <4>2
      <3>3. Observed(g)' = Observed(g)
        BY <2>6, <3>1
      <3> QED BY <3>1, <3>2, <3>3 DEF UndefIffUnobserved
    <2>8. WaitObserved'
      BY <2>1, <2>6 DEF WaitObserved
    <2> QED BY <2>1, <2>7, <2>8 DEF ObservedOnce, observed
  <1>3. CASE RestoreStep(f)
    <2>1. UNCHANGED <<observed, live, zv, wait>>
      BY <1>3 DEF RestoreStep
    <2>2. cursor[f] + 1 # 0 /\ cursor[f] # 0
      BY <1>3 DEF RestoreStep
    <2>3. cursor'[f] # 0 /\ \A g \in Frames : g # f => cursor'[g] = cursor[g]
      BY <1>3, <2>2 DEF RestoreStep
    <2>4. \A g \in Frames : Observed(g)' = Observed(g)
      BY <2>1 DEF Observed, observed
    <2>5. f \in live /\ wait[f] # NULL => wait[f] \in Observed(f)
      BY DEF WaitObserved
    <2>6. UndefIffUnobserved' /\ WaitObserved'
      BY <2>1, <2>3, <2>4, <2>5, OthersObserved
    <2> QED BY <2>1, <2>6 DEF ObservedOnce, observed
  <1>4. CASE Pop(f)
    <2>1. /\ live' = live \ {f} /\ addresses' = [addresses EXCEPT ![f] = << >>]
          /\ zv' = [zv EXCEPT ![f] = [x \in Vars |-> Undef]]
          /\ cursor' = [cursor EXCEPT ![f] = 0] /\ wait' = wait
      BY <1>4 DEF Pop
    <2>2. \A g \in live' \ {f} : /\ zv'[g] = zv[g] /\ wait'[g] = wait[g]
                                 /\ cursor'[g] = cursor[g] /\ Observed(g)' = Observed(g)
      BY <2>1 DEF Observed
    <2>3. UndefIffUnobserved' /\ WaitObserved'
      BY <2>1, <2>2, OthersObserved
    <2>4. ObservedOnce'
      BY <2>1 DEF ObservedOnce
    <2> QED BY <2>3, <2>4
  <1> QED BY <1>1, <1>2, <1>3, <1>4 DEF Leave

\* What a macro does to the zval it names: register it if it was IS_UNDEF.
LEMMA ObservationTouch ==
  ASSUME ObservationInvariant, NEW f \in Frames, NEW x \in Vars, Running(f),
         IF zv[f][x] = Undef THEN Observe(f, x) ELSE UNCHANGED observed
  PROVE  /\ Observed(f)' = Observed(f) \cup {x}
         /\ \A g \in Frames : g # f => Observed(g)' = Observed(g)
         /\ ObservedOnce'
  <1> USE DEF ObservationInvariant, StructureInvariant
  <1>1. zv[f][x] # Undef <=> x \in Observed(f)
    BY FrameFacts DEF UndefIffUnobserved, Running
  <1>2. CASE zv[f][x] = Undef
    <2>1. /\ \A g \in Frames : Observed(g)' = Observed(g) \cup (IF g = f THEN {x} ELSE {})
          /\ ObservedOnce'
      BY <1>1, <1>2, ObserveEffect
    <2> QED BY <2>1
  <1>3. CASE zv[f][x] # Undef
    <2>1. addresses' = addresses
      BY <1>3 DEF observed
    <2>2. \A g \in Frames : Observed(g)' = Observed(g)
      BY <2>1 DEF Observed
    <2> QED BY <1>1, <1>3, <2>1, <2>2 DEF ObservedOnce
  <1> QED BY <1>2, <1>3

\* A write of c, not IS_UNDEF, into a local zval.
LEMMA ObservationWrite ==
  ASSUME ObservationInvariant, NEW f \in Frames, NEW x \in Vars, NEW c \in Content,
         NEW old, c # Undef, FirstUse(f, x, c) \/ AnyUse(f, x, old, c)
  PROVE  UndefIffUnobserved' /\ WaitObserved' /\ ObservedOnce'
  <1> USE DEF ObservationInvariant, StructureInvariant, StructureType
  <1>1. /\ Running(f) /\ UNCHANGED <<live, wait, cursor>>
        /\ zv' = [zv EXCEPT ![f][x] = c]
    BY DEF FirstUse, AnyUse
  <1>2. f \in live /\ wait[f] = NULL /\ cursor[f] = 0
    BY <1>1 DEF Running
  <1>3. IF zv[f][x] = Undef THEN Observe(f, x) ELSE UNCHANGED observed
    <2>1. CASE FirstUse(f, x, c)
      <3>1. zv[f][x] # Undef <=> x \in Observed(f)
        BY <1>2, FrameFacts DEF UndefIffUnobserved
      <3> QED BY <2>1, <3>1 DEF FirstUse
    <2>2. CASE AnyUse(f, x, old, c)
      BY <2>2 DEF AnyUse
    <2> QED BY <2>1, <2>2
  <1>4. /\ Observed(f)' = Observed(f) \cup {x}
        /\ \A g \in Frames : g # f => Observed(g)' = Observed(g)
        /\ ObservedOnce'
    BY <1>1, <1>3, ObservationTouch
  <1>5. \A g \in live' \ {f} : /\ zv'[g] = zv[g] /\ wait'[g] = wait[g]
                               /\ cursor'[g] = cursor[g] /\ Observed(g)' = Observed(g)
    BY <1>1, <1>4
  <1>6. ASSUME NEW y \in Vars PROVE zv'[f][y] # Undef <=> y \in Observed(f)'
    <2>1. zv[f][y] # Undef <=> y \in Observed(f)
      BY <1>2, FrameFacts DEF UndefIffUnobserved
    <2>2. CASE y = x
      BY <2>2, <1>1, <1>4
    <2>3. CASE y # x
      <3>1. zv'[f][y] = zv[f][y]
        BY <2>3, <1>1
      <3> QED BY <2>1, <2>3, <3>1, <1>4
    <2> QED BY <2>2, <2>3
  <1> QED BY <1>1, <1>2, <1>4, <1>5, <1>6, OthersObserved

\* Where no unset zval is copied, no macro writes IS_UNDEF.
LEMMA WrittenDefined ==
  ASSUME UnsetCopies = FALSE
  PROVE  Undef \notin Constructed /\ Undef \notin Fetched /\ Undef \notin Copied
  BY ContentAssumption DEF Constructed, Fetched, Copied, Unset, Fresh, Alive

\* Every statement but a call writes a value, so no later statement meets IS_UNDEF.
LEMMA StatementWrites ==
  ASSUME UnsetCopies = FALSE, NEW f \in Frames, NEW x \in Vars, Statement(f, x)
  PROVE  \/ \E c \in Content : c # Undef /\ FirstUse(f, x, c)
         \/ \E c \in Content, old \in {zv[f][x], InitNVarDrops(f, x)} :
              c # Undef /\ AnyUse(f, x, old, c)
         \/ CallBegin(f, x) \/ CallSucceeds(f, x) \/ CallFails(f, x)
  <1>1. ASSUME NEW c \in Constructed \cup Fetched \cup Copied PROVE c \in Content /\ c # Undef
    BY <1>1, WrittenContent, WrittenDefined
  <1> QED BY <1>1 DEF Statement, InitVar, ObsVar, InitNVar, ObsNVar, CpyWrt

\* With no try block and no copy of an unset zval, a statement registers x
\* exactly when x is IS_UNDEF.
LEMMA ObservationStatement ==
  ASSUME CanCatch = FALSE, UnsetCopies = FALSE, ObservationInvariant, NEW f \in Frames, NEW x \in Vars,
         Statement(f, x)
  PROVE  UndefIffUnobserved' /\ WaitObserved' /\ ObservedOnce'
  <1> USE DEF ObservationInvariant, StructureInvariant, StructureType
  <1>1. ASSUME NEW c \in Content, NEW old, c # Undef, FirstUse(f, x, c) \/ AnyUse(f, x, old, c)
        PROVE  UndefIffUnobserved' /\ WaitObserved' /\ ObservedOnce'
    BY <1>1, ObservationWrite
  <1>2. CASE CallBegin(f, x)
    <2>1. /\ Running(f) /\ UNCHANGED <<live, cursor>>
          /\ IF zv[f][x] = Undef THEN Observe(f, x) ELSE UNCHANGED observed
          /\ zv' = [zv EXCEPT ![f][x] = Undef] /\ wait' = [wait EXCEPT ![f] = x]
      BY <1>2 DEF CallBegin
    <2>2. f \in live /\ wait[f] = NULL /\ cursor[f] = 0
      BY <2>1 DEF Running
    <2>3. /\ Observed(f)' = Observed(f) \cup {x}
          /\ \A g \in Frames : g # f => Observed(g)' = Observed(g)
          /\ ObservedOnce'
      BY <2>1, ObservationTouch
    <2>4. \A g \in live' \ {f} : /\ zv'[g] = zv[g] /\ wait'[g] = wait[g]
                                 /\ cursor'[g] = cursor[g] /\ Observed(g)' = Observed(g)
      BY <2>1, <2>3
    <2>5. ASSUME NEW y \in Vars, y # x
          PROVE  zv'[f][y] # Undef <=> y \in Observed(f)'
      <3>1. zv[f][y] # Undef <=> y \in Observed(f)
        BY <2>2, FrameFacts DEF UndefIffUnobserved
      <3>2. zv'[f][y] = zv[f][y]
        BY <2>1, <2>5
      <3> QED BY <2>3, <2>5, <3>1, <3>2
    <2>6. wait'[f] = x
      BY <2>1
    <2> QED BY <2>1, <2>2, <2>3, <2>4, <2>5, <2>6, OthersObserved
  <1>3. CASE CallSucceeds(f, x)
    <2>1. /\ f \in live /\ wait[f] = x /\ cursor[f] = 0
          /\ UNCHANGED <<observed, live, cursor>> /\ wait' = [wait EXCEPT ![f] = NULL]
      BY <1>3 DEF CallSucceeds
    <2>2. PICK c : c # Undef /\ zv' = [zv EXCEPT ![f][x] = c]
      <3>1. CASE zv[f][x] = Undef
        BY <1>3, <3>1, ContentAssumption DEF CallSucceeds, Unset
      <3>2. CASE zv[f][x] # Undef
        <4>1. zv' = [zv EXCEPT ![f][x] = zv[f][x]]
          BY <1>3, <3>2 DEF CallSucceeds
        <4> QED BY <3>2, <4>1
      <3> QED BY <3>1, <3>2
    <2>3. \A g \in Frames : Observed(g)' = Observed(g)
      BY <2>1 DEF Observed, observed
    <2>4. \A g \in live' \ {f} : /\ zv'[g] = zv[g] /\ wait'[g] = wait[g]
                                 /\ cursor'[g] = cursor[g] /\ Observed(g)' = Observed(g)
      BY <2>1, <2>2, <2>3
    <2>5. ASSUME NEW y \in Vars PROVE zv'[f][y] # Undef <=> y \in Observed(f)'
      <3>1. CASE y = x
        <4>1. x \in Observed(f)
          BY <2>1, FrameFacts DEF WaitObserved
        <4> QED BY <3>1, <4>1, <2>2, <2>3
      <3>2. CASE y # x
        <4>1. zv[f][y] # Undef <=> y \in Observed(f)
          BY <2>1, <3>2 DEF UndefIffUnobserved
        <4> QED BY <3>2, <4>1, <2>2, <2>3
      <3> QED BY <3>1, <3>2
    <2>6. wait'[f] = NULL
      BY <2>1
    <2>7. ObservedOnce'
      BY <2>1 DEF ObservedOnce, observed
    <2> QED BY <2>1, <2>4, <2>5, <2>6, <2>7, OthersObserved
  <1>4. CASE CallFails(f, x)
    <2>1. /\ UNCHANGED <<observed, live>> /\ wait' = [wait EXCEPT ![f] = NULL]
          /\ BeginRestore(f)
      BY <1>4 DEF CallFails
    <2>2. PICK c : zv' = [zv EXCEPT ![f][x] = c]
      BY <1>4 DEF CallFails
    <2>3. Len(addresses[f]) + 1 # 0 /\ Len(addresses[f]) \in Nat
      OBVIOUS
    <2>4. cursor'[f] # 0 /\ \A g \in Frames : g # f => cursor'[g] = cursor[g]
      BY <2>1, <2>3 DEF BeginRestore
    <2>5. \A g \in Frames : Observed(g)' = Observed(g)
      BY <2>1 DEF Observed, observed
    <2>6. \A g \in live' \ {f} : /\ zv'[g] = zv[g] /\ wait'[g] = wait[g]
                                 /\ cursor'[g] = cursor[g] /\ Observed(g)' = Observed(g)
      BY <2>1, <2>2, <2>4, <2>5
    <2>7. wait'[f] = NULL
      BY <2>1
    <2>8. ObservedOnce'
      BY <2>1 DEF ObservedOnce, observed
    <2> QED BY <2>1, <2>4, <2>6, <2>7, <2>8, OthersObserved
  <1> QED BY <1>1, <1>2, <1>3, <1>4, StatementWrites

\* Every step keeps the agreement of IS_UNDEF with the registered addresses.
LEMMA ObservationStep ==
  ASSUME CanCatch = FALSE, UnsetCopies = FALSE
  PROVE  ObservationInvariant /\ [Next]_vars => ObservationInvariant'
  <1> SUFFICES ASSUME ObservationInvariant, [Next]_vars PROVE ObservationInvariant'
    OBVIOUS
  <1> DEFINE Goal == UndefIffUnobserved' /\ WaitObserved' /\ ObservedOnce'
  <1>1. ASSUME Lifecycle PROVE Goal
    BY <1>1, ObservationLifecycle
  <1>2. ASSUME Grow PROVE Goal
    BY <1>2, ObservationGrow
  <1>3. ASSUME NEW f \in Frames, Leave(f) PROVE Goal
    BY <1>3, ObservationLeave
  <1>4. ASSUME NEW f \in Frames, NEW x \in Vars, Statement(f, x) PROVE Goal
    BY <1>4, ObservationStatement
  <1>5. ASSUME UNCHANGED <<observed, methods>> PROVE Goal
    BY <1>5 DEF Observed, observed, methods, ObservationInvariant, UndefIffUnobserved,
                WaitObserved, ObservedOnce
  <1>6. Goal
    BY <1>1, <1>2, <1>3, <1>4, <1>5 DEF Next, vars, AddExternal, DropExternal
  <1>7. StructureInvariant'
    BY StructureStep DEF ObservationInvariant
  <1> QED BY <1>6, <1>7 DEF ObservationInvariant

\* A method with no try block that copies no unset zval never registers a zval
\* twice, so its frame drops one reference for each reference its zvals own.
THEOREM ObservedOnceHolds ==
  ASSUME CanCatch = FALSE, UnsetCopies = FALSE
  PROVE  Spec => []ObservedOnce
  <1>1. ObservationInvariant /\ [Next]_vars => ObservationInvariant'
    BY ObservationStep
  <1>2. ObservationInvariant => ObservedOnce
    BY DEF ObservationInvariant
  <1> QED BY <1>1, <1>2, ObservationInit, PTL DEF Spec

-----------------------------------------------------------------------------
(* 3. References.  Every step that changes a count moves at most one       *)
(* owner: p, a zval of a frame, stops holding one content and comes to     *)
(* hold another (Passes).  The reference to the first is dropped with it,  *)
(* unless it is a PHP reference.  MoveCounts counts once and for all, so   *)
(* that each action only has to name its p and what p holds.               *)

Slots == Frames \X Vars

\* Holders as a function, so that one name stands for all the owners.
Held == [v \in Values |-> Holders(v)]

\* What is not IS_UNDEF is registered, also while the frame is restored.
ValuesObserved ==
  \A f \in live : \A x \in Vars : zv[f][x] # Undef => x \in Observed(f)

\* A method that waits for a call has not begun to leave.
WaitingRuns == \A f \in live : wait[f] # NULL => cursor[f] = 0

\* No reference to v is without an owner.
AllOwned(v) == ~unclean /\ v \notin References

\* A value has a reference for each owner, and no other until a fatal error,
\* unless it is a PHP reference.
OwnersCounted ==
  \A v \in Values : /\ rc[v] >= Cardinality(Held[v]) + ext[v]
                    /\ AllOwned(v) => rc[v] = Cardinality(Held[v]) + ext[v]

CountsType == rc \in [Values -> Nat] /\ ext \in [Values -> Nat]

ReferenceInvariant ==
  ObservationInvariant /\ ValuesObserved /\ WaitingRuns /\ CountsType /\ OwnersCounted

-----------------------------------------------------------------------------
(* Counting owners.                                                        *)

\* There are finitely many slots, so any set of owners has a size.
LEMMA SlotsFinite ==
  ASSUME NEW S \in SUBSET Slots
  PROVE  IsFiniteSet(S) /\ Cardinality(S) \in Nat
  <1>1. IsFiniteSet(1..NumPreallocated)
    BY FramesAssumption, FS_Interval
  <1>2. IsFiniteSet(Frames)
    BY <1>1, FramesAssumption, FS_Union DEF Frames, Permanent
  <1>3. IsFiniteSet(Slots)
    BY <1>2, ContentAssumption, FS_Product DEF Slots
  <1>4. IsFiniteSet(S)
    BY <1>3, FS_Subset
  <1> QED BY <1>4, FS_CardinalityType

\* Fewer owners, or one more, or one less.
LEMMA Sizes ==
  ASSUME NEW S \in SUBSET Slots, NEW T \in SUBSET Slots, NEW p \in Slots
  PROVE  /\ S \subseteq T => Cardinality(S) <= Cardinality(T)
         /\ S \subseteq T \cup {p} => Cardinality(S) <= Cardinality(T) + 1
         /\ p \in T /\ S \subseteq T \ {p} => Cardinality(S) <= Cardinality(T) - 1
         /\ p \notin T => Cardinality(T \cup {p}) = Cardinality(T) + 1
         /\ p \in T => Cardinality(T \ {p}) = Cardinality(T) - 1
  <1>1. /\ IsFiniteSet(T) /\ Cardinality(T) \in Nat /\ Cardinality(S) \in Nat
    BY SlotsFinite
  <1>2. /\ IsFiniteSet(T \cup {p})
        /\ Cardinality(T \cup {p}) = IF p \in T THEN Cardinality(T) ELSE Cardinality(T) + 1
    BY <1>1, FS_AddElement
  <1>3. /\ IsFiniteSet(T \ {p})
        /\ Cardinality(T \ {p}) = IF p \in T THEN Cardinality(T) - 1 ELSE Cardinality(T)
    BY <1>1, FS_RemoveElement
  <1>4. S \subseteq T => Cardinality(S) <= Cardinality(T)
    BY <1>1, FS_Subset
  <1>5. S \subseteq T \cup {p} => Cardinality(S) <= Cardinality(T \cup {p})
    BY <1>2, FS_Subset
  <1>6. S \subseteq T \ {p} => Cardinality(S) <= Cardinality(T \ {p})
    BY <1>3, FS_Subset
  <1> QED BY <1>1, <1>2, <1>3, <1>4, <1>5, <1>6

\* The slots that hold a value, spelled out.
HeldFacts ==
  /\ Held \in [Values -> SUBSET Slots]
  /\ \A v \in Values, f \in Frames, x \in Vars :
       <<f, x>> \in Held[v] <=> /\ f \in live /\ zv[f][x] = v
                                /\ x \notin Released(f)

\* Held is the set Holders describes.
LEMMA HeldFact == HeldFacts
  BY DEF HeldFacts, Held, Holders, Slots

\* The same of the next state.
LEMMA HeldFactNext == HeldFacts'
  BY HeldFact, PTL

\* The slot p passes from held to new, and the other slots keep what they hold
\* (or, after a fatal error, may forget it).
Passes(p, held, old, new) ==
  /\ rc' = Moved(old, new) /\ Drops(held, old) /\ ext' = ext /\ unclean' = unclean
  /\ \A v \in Values :
       /\ (p \in Held[v] => v = held) /\ (v = held => p \in Held[v])
       /\ v = new => Held'[v] \subseteq Held[v] \cup {p}
       /\ v # new => Held'[v] \subseteq Held[v] \ {p}
       /\ ~unclean => /\ v = new => Held'[v] = Held[v] \cup {p}
                      /\ v # new => Held'[v] = Held[v] \ {p}

\* Then the count of each value follows the number of its owners.
LEMMA MoveCounts ==
  ASSUME CountsType, OwnersCounted,
         NEW p \in Slots, NEW held, NEW old, NEW new, Passes(p, held, old, new)
  PROVE  CountsType' /\ OwnersCounted'
  <1>1. /\ Held \in [Values -> SUBSET Slots] /\ Held' \in [Values -> SUBSET Slots]
    BY HeldFact, HeldFactNext DEF HeldFacts
  <1>2. ext' = ext /\ unclean' = unclean
    BY DEF Passes
  <1>3. ASSUME NEW v \in Values
        PROVE  /\ rc'[v] \in Nat
               /\ rc'[v] >= Cardinality(Held'[v]) + ext[v]
               /\ AllOwned(v) => rc'[v] = Cardinality(Held'[v]) + ext[v]
    <2> DEFINE H == Held[v]
               G == Held'[v]
    <2>1. H \in SUBSET Slots /\ G \in SUBSET Slots
      BY <1>1
    <2>2. /\ rc[v] \in Nat /\ ext[v] \in Nat
          /\ Cardinality(H) \in Nat /\ Cardinality(G) \in Nat
      BY <2>1, SlotsFinite DEF CountsType
    <2>3. /\ rc[v] >= Cardinality(H) + ext[v]
          /\ AllOwned(v) => rc[v] = Cardinality(H) + ext[v]
      BY DEF OwnersCounted
    <2>4. /\ (p \in H => v = held) /\ (v = held => p \in H)
          /\ v = new => G \subseteq H \cup {p}
          /\ v # new => G \subseteq H \ {p}
          /\ AllOwned(v) => (v = new => G = H \cup {p}) /\ (v # new => G = H \ {p})
      BY DEF Passes, AllOwned
    <2>5. rc'[v] = (IF v = new THEN rc[v] + 1 ELSE rc[v]) - (IF v = old THEN 1 ELSE 0)
      BY DEF Passes, Moved
    <2>10. v = old => v = held
      BY ContentAssumption DEF Passes, Drops
    <2>11. v = held /\ v # old => ~AllOwned(v)
      BY DEF Passes, Drops, AllOwned
    <2> HIDE DEF H, G
    <2>6. /\ G \subseteq H => Cardinality(G) <= Cardinality(H)
          /\ G \subseteq H \cup {p} => Cardinality(G) <= Cardinality(H) + 1
          /\ p \in H /\ G \subseteq H \ {p} => Cardinality(G) <= Cardinality(H) - 1
          /\ p \notin H => Cardinality(H \cup {p}) = Cardinality(H) + 1
          /\ p \in H => Cardinality(H \ {p}) = Cardinality(H) - 1
      BY <2>1, Sizes
    <2>7. CASE v = old /\ v # new
      <3>1. Cardinality(G) <= Cardinality(H) - 1 /\ rc'[v] = rc[v] - 1
        BY <2>2, <2>4, <2>5, <2>6, <2>7, <2>10
      <3>2. AllOwned(v) => Cardinality(G) = Cardinality(H) - 1
        BY <2>4, <2>6, <2>7, <2>10
      <3> QED BY <2>2, <2>3, <3>1, <3>2 DEF H, G
    <2>8. CASE v # held /\ v # old /\ v = new
      <3>1. Cardinality(G) <= Cardinality(H) + 1 /\ rc'[v] = rc[v] + 1
        BY <2>2, <2>4, <2>5, <2>6, <2>8
      <3>2. AllOwned(v) => Cardinality(G) = Cardinality(H) + 1
        BY <2>4, <2>6, <2>8
      <3> QED BY <2>2, <2>3, <3>1, <3>2 DEF H, G
    <2>9. CASE (v = old /\ v = new) \/ (v # held /\ v # old /\ v # new)
      <3>1. rc'[v] = rc[v]
        BY <2>2, <2>5, <2>9
      <3>2. v = new => G \subseteq H /\ (AllOwned(v) => G = H)
        BY <2>4, <2>9, <2>10
      <3>3. v # new => G \subseteq H /\ (AllOwned(v) => G = H)
        BY <2>4, <2>9, <2>10
      <3> QED BY <2>2, <2>3, <2>6, <3>1, <3>2, <3>3 DEF H, G
    \* A PHP reference that is overwritten: its owner goes, its count stays.
    <2>12. CASE v = held /\ v # old
      <3>1. Cardinality(G) <= Cardinality(H)
        <4>1. G \subseteq H
          BY <2>4, <2>12
        <4> QED BY <2>6, <4>1
      <3>2. rc'[v] \in Nat /\ rc'[v] >= rc[v]
        BY <2>2, <2>5, <2>12
      <3>3. rc'[v] >= Cardinality(G) + ext[v]
        BY <2>2, <2>3, <3>1, <3>2
      <3> QED BY <2>11, <2>12, <3>2, <3>3 DEF G
    <2> QED BY <2>7, <2>8, <2>9, <2>12
  <1>4. CountsType'
    <2>1. rc' = [v \in Values |-> rc'[v]]
      BY DEF Passes, Moved
    <2> QED BY <1>2, <1>3, <2>1 DEF CountsType
  <1> QED BY <1>2, <1>3, <1>4 DEF OwnersCounted, AllOwned

\* A step that moves no reference: owners are kept, or forgotten after a fatal
\* error.
KeepsOwners ==
  /\ rc' = rc /\ ext' = ext /\ unclean' = unclean
  /\ \A v \in Values : /\ Held'[v] \subseteq Held[v]
                       /\ ~unclean => Held'[v] = Held[v]

\* Then the counts still agree with the owners.
LEMMA KeptCounts ==
  ASSUME CountsType, OwnersCounted, KeepsOwners
  PROVE  CountsType' /\ OwnersCounted'
  <1>1. Held \in [Values -> SUBSET Slots]
    BY HeldFact DEF HeldFacts
  <1>2. ASSUME NEW v \in Values
        PROVE  /\ rc[v] >= Cardinality(Held'[v]) + ext[v]
               /\ AllOwned(v) => rc[v] = Cardinality(Held'[v]) + ext[v]
    <2>1. Held[v] \in SUBSET Slots /\ Held'[v] \in SUBSET Slots
      BY <1>1 DEF KeepsOwners
    <2>2. IsFiniteSet(Held[v]) /\ Held'[v] \in SUBSET Held[v]
      BY <2>1, SlotsFinite DEF KeepsOwners
    <2>3. /\ Cardinality(Held'[v]) <= Cardinality(Held[v])
          /\ Cardinality(Held[v]) \in Nat /\ Cardinality(Held'[v]) \in Nat
      BY <2>1, <2>2, SlotsFinite, FS_Subset
    <2>4. rc[v] \in Nat /\ ext[v] \in Nat
      BY DEF CountsType
    <2>5. rc[v] >= Cardinality(Held[v]) + ext[v]
      BY DEF OwnersCounted
    <2>6. AllOwned(v) => rc[v] = Cardinality(Held'[v]) + ext[v]
      BY DEF OwnersCounted, KeepsOwners, AllOwned
    <2> QED BY <2>3, <2>4, <2>5, <2>6
  <1> QED BY <1>2 DEF CountsType, OwnersCounted, KeepsOwners, AllOwned

-----------------------------------------------------------------------------
(* From the slots a step touches to the owners it moves.                   *)

\* What a slot other than <<f, x>> owns after the step it owned before, and
\* until a fatal error the other way round.
OthersKept(f, x) ==
  \A g \in Frames, y \in Vars, v \in Values : <<g, y>> # <<f, x>> =>
    /\ <<g, y>> \in Held'[v] => <<g, y>> \in Held[v]
    /\ ~unclean => (<<g, y>> \in Held[v] => <<g, y>> \in Held'[v])

\* If one slot changes and the others are kept, that slot passes from what it
\* held to new.
LEMMA SlotPasses ==
  ASSUME NEW f \in Frames, NEW x \in Vars, NEW held, NEW old, NEW new,
         rc' = Moved(old, new), Drops(held, old), ext' = ext, unclean' = unclean,
         OthersKept(f, x),
         \A v \in Values : <<f, x>> \in Held[v] => v = held,
         \A v \in Values : v = held => <<f, x>> \in Held[v],
         \A v \in Values : <<f, x>> \in Held'[v] => v = new,
         \A v \in Values : ~unclean /\ v = new => <<f, x>> \in Held'[v]
  PROVE  Passes(<<f, x>>, held, old, new)
  <1>1. /\ Held \in [Values -> SUBSET Slots] /\ Held' \in [Values -> SUBSET Slots]
    BY HeldFact, HeldFactNext DEF HeldFacts
  <1>2. ASSUME NEW v \in Values
        PROVE  /\ v = new => Held'[v] \subseteq Held[v] \cup {<<f, x>>}
               /\ v # new => Held'[v] \subseteq Held[v] \ {<<f, x>>}
               /\ ~unclean => /\ v = new => Held'[v] = Held[v] \cup {<<f, x>>}
                              /\ v # new => Held'[v] = Held[v] \ {<<f, x>>}
    <2>1. Held[v] \subseteq Slots /\ Held'[v] \subseteq Slots
      BY <1>1
    <2>2. ASSUME NEW q \in Slots, q # <<f, x>>
          PROVE  /\ q \in Held'[v] => q \in Held[v]
                 /\ ~unclean => (q \in Held[v] => q \in Held'[v])
      <3>1. PICK g \in Frames, y \in Vars : q = <<g, y>>
        BY DEF Slots
      <3> QED BY <2>2, <3>1 DEF OthersKept
    <2> QED BY <2>1, <2>2
  <1> QED BY <1>2 DEF Passes

\* The same for a step that touches no slot.
LEMMA SlotsKept ==
  ASSUME UNCHANGED <<rc, ext, unclean>>,
         \A g \in Frames, y \in Vars, v \in Values :
           /\ <<g, y>> \in Held'[v] => <<g, y>> \in Held[v]
           /\ ~unclean => (<<g, y>> \in Held[v] => <<g, y>> \in Held'[v])
  PROVE  KeepsOwners
  <1>1. /\ Held \in [Values -> SUBSET Slots] /\ Held' \in [Values -> SUBSET Slots]
    BY HeldFact, HeldFactNext DEF HeldFacts
  <1>2. ASSUME NEW v \in Values, NEW q \in Slots
        PROVE  /\ q \in Held'[v] => q \in Held[v]
               /\ ~unclean => (q \in Held[v] => q \in Held'[v])
    <2>1. PICK g \in Frames, y \in Vars : q = <<g, y>>
      BY DEF Slots
    <2> QED BY <2>1
  <1>3. ASSUME NEW v \in Values
        PROVE  Held'[v] \subseteq Held[v] /\ (~unclean => Held'[v] = Held[v])
    BY <1>1, <1>2
  <1> QED BY <1>3 DEF KeepsOwners

\* Every statement writes one zval of the active frame, registered before or
\* by the statement itself, and moves the references that go with it.
StatementEffect(f, x) ==
  /\ f \in live /\ cursor[f] = 0
  /\ live' = live /\ ext' = ext /\ unclean' = unclean
  /\ \E c \in Content, old \in {zv[f][x], Undef} :
       /\ zv' = [zv EXCEPT ![f][x] = c]
       /\ rc' = Moved(old, c) /\ Drops(zv[f][x], old)
  /\ addresses'[f] = addresses[f] \/ Observe(f, x)
  /\ zv[f][x] = Undef => x \in Observed(f) \/ Observe(f, x)
  /\ \A g \in Frames : g # f => addresses'[g] = addresses[g] /\ cursor'[g] = cursor[g]
  /\ ~unclean => cursor'[f] \in {0, 1}

\* All the macros of memory.h have that effect, and so has the end of a call.
LEMMA StatementEffects ==
  ASSUME ReferenceInvariant, NEW f \in Frames, NEW x \in Vars, Statement(f, x)
  PROVE  StatementEffect(f, x)
  <1> USE DEF ReferenceInvariant, ObservationInvariant, StructureInvariant, StructureType
  <1>1. ASSUME NEW c \in Content, FirstUse(f, x, c) PROVE StatementEffect(f, x)
    <2>1. f \in live /\ cursor[f] = 0 /\ wait[f] = NULL /\ x \notin Observed(f)
      BY <1>1 DEF FirstUse, Running
    <2>2. zv[f][x] = Undef
      BY <2>1, FrameFacts DEF UndefIffUnobserved
    <2> QED BY <1>1, <2>1, <2>2 DEF FirstUse, Observe, StatementEffect, Drops, request
  <1>2. ASSUME NEW c \in Content, NEW old \in {zv[f][x], InitNVarDrops(f, x)},
               AnyUse(f, x, old, c)
        PROVE  StatementEffect(f, x)
    <2>1. f \in live /\ cursor[f] = 0
      BY <1>2 DEF AnyUse, Running
    <2>2. old \in {zv[f][x], Undef} /\ Drops(zv[f][x], old)
      BY InitNVarDropsOld DEF InitNVarDrops
    <2>3. \E d \in Content, o \in {zv[f][x], Undef} :
            /\ zv' = [zv EXCEPT ![f][x] = d]
            /\ rc' = Moved(o, d) /\ Drops(zv[f][x], o)
      BY <1>2, <2>2 DEF AnyUse
    <2> QED BY <1>2, <2>1, <2>3 DEF AnyUse, Observe, StatementEffect, request, observed
  <1>3. CASE CallBegin(f, x)
    <2>1. f \in live /\ cursor[f] = 0 /\ Undef \in Content
      BY <1>3 DEF CallBegin, Running, Content
    <2> QED BY <1>3, <2>1 DEF CallBegin, Observe, StatementEffect, Drops, request, observed
  <1>4. CASE CallSucceeds(f, x)
    <2>1. \E c \in Content : zv' = [zv EXCEPT ![f][x] = c] /\ rc' = Moved(zv[f][x], c)
      <3>1. CASE zv[f][x] = Undef
        <4>1. PICK c \in {Scalar} \cup Values \cup Unset :
                zv' = [zv EXCEPT ![f][x] = c] /\ rc' = Moved(Undef, c)
          BY <1>4, <3>1 DEF CallSucceeds
        <4> QED BY <3>1, <4>1 DEF Content, Unset
      <3>2. CASE zv[f][x] # Undef
        <4>1. zv' = zv /\ rc' = rc
          BY <1>4, <3>2 DEF CallSucceeds
        <4>2. zv' = [zv EXCEPT ![f][x] = zv[f][x]] /\ zv[f][x] \in Content
          BY <4>1
        <4>3. rc' = Moved(zv[f][x], zv[f][x])
          <5>1. \A v \in Values : rc[v] = (IF v = zv[f][x] THEN rc[v] + 1 ELSE rc[v])
                                          - (IF v = zv[f][x] THEN 1 ELSE 0)
            BY DEF CountsType
          <5> QED BY <4>1, <5>1 DEF Moved, CountsType
        <4> QED BY <4>2, <4>3
      <3> QED BY <3>1, <3>2
    <2>2. x \in Observed(f)
      BY <1>4, FrameFacts DEF CallSucceeds, WaitObserved
    <2> QED BY <1>4, <2>1, <2>2 DEF CallSucceeds, StatementEffect, Drops, request, observed
  <1>5. CASE CallFails(f, x)
    <2>1. \E c \in Content : zv' = [zv EXCEPT ![f][x] = c] /\ rc' = Moved(zv[f][x], c)
      <3>1. PICK c \in {Undef, Scalar} : zv' = [zv EXCEPT ![f][x] = c]
        BY <1>5 DEF CallFails
      <3>2. \A v \in Values : v # c /\ v # Undef
        BY ContentAssumption
      <3>3. rc' = Moved(zv[f][x], c)
        BY <1>5, <3>2 DEF CallFails, Moved
      <3> QED BY <3>1, <3>3 DEF Content
    <2>2. x \in Observed(f)
      BY <1>5, FrameFacts DEF CallFails, WaitObserved
    <2>3. /\ ~unclean => cursor'[f] \in {0, 1}
          /\ \A g \in Frames : g # f => cursor'[g] = cursor[g]
      BY <1>5 DEF CallFails, BeginRestore
    <2> QED BY <1>5, <2>1, <2>2, <2>3 DEF CallFails, StatementEffect, Drops, request, observed
  <1> QED BY <1>1, <1>2, <1>3, <1>4, <1>5, StatementKinds

\* A frame that has not begun its restore loop has released nothing; neither
\* has one that is at the first turn of it.
LEMMA NoneReleased ==
  ASSUME NEW f \in Frames, cursor[f] \in {0, 1}
  PROVE  Released(f) = {}
  <1>1. \A i \in 1..(IF cursor[f] = 0 THEN 0 ELSE cursor[f] - 1) : FALSE
    OBVIOUS
  <1> QED BY <1>1 DEF Released

\* The same of all frames, and of the next state.
LEMMA NoneReleasedFrames == \A f \in Frames : cursor[f] \in {0, 1} => Released(f) = {}
  BY NoneReleased

\* The same of the next state.
LEMMA NoneReleasedNext ==
  (\A f \in Frames : cursor[f] \in {0, 1} => Released(f) = {})'
  BY NoneReleasedFrames, PTL

\* A statement passes its slot from the content it finds to the one it writes.
LEMMA StatementPasses ==
  ASSUME ReferenceInvariant, NEW f \in Frames, NEW x \in Vars, StatementEffect(f, x)
  PROVE  CountsType' /\ OwnersCounted'
  <1> USE DEF ReferenceInvariant, ObservationInvariant, StructureInvariant, StructureType
  <1>1. PICK c \in Content, old \in {zv[f][x], Undef} :
          /\ zv' = [zv EXCEPT ![f][x] = c]
          /\ rc' = Moved(old, c) /\ Drops(zv[f][x], old)
    BY DEF StatementEffect
  <1>2. /\ f \in live /\ cursor[f] = 0 /\ live' = live /\ ext' = ext /\ unclean' = unclean
        /\ \A g \in Frames : g # f => addresses'[g] = addresses[g] /\ cursor'[g] = cursor[g]
        /\ ~unclean => cursor'[f] \in {0, 1}
    BY DEF StatementEffect
  <1>3. Released(f) = {} /\ (~unclean => Released(f)' = {})
    BY <1>2, NoneReleased, NoneReleasedNext
  <1>4. \A g \in Frames : g # f => Released(g)' = Released(g)
    BY <1>2 DEF Released
  <1>5. \A g \in Frames, y \in Vars : <<g, y>> # <<f, x>> => zv'[g][y] = zv[g][y]
    BY <1>1
  <1>6. zv'[f][x] = c
    BY <1>1
  <1>7. OthersKept(f, x)
    <2> SUFFICES ASSUME NEW g \in Frames, NEW y \in Vars, NEW v \in Values,
                        <<g, y>> # <<f, x>>
                 PROVE  /\ <<g, y>> \in Held'[v] => <<g, y>> \in Held[v]
                        /\ ~unclean => (<<g, y>> \in Held[v] => <<g, y>> \in Held'[v])
      BY DEF OthersKept
    <2>1. <<g, y>> \in Held[v] <=> g \in live /\ zv[g][y] = v /\ y \notin Released(g)
      BY HeldFact DEF HeldFacts
    <2>2. <<g, y>> \in Held'[v] <=> g \in live' /\ zv'[g][y] = v /\ y \notin Released(g)'
      BY HeldFactNext DEF HeldFacts
    <2>3. CASE g = f
      <3>1. Released(g) = {} /\ (~unclean => Released(g)' = {})
        BY <1>2, <2>3, NoneReleased, NoneReleasedNext
      <3> QED BY <1>2, <1>5, <2>1, <2>2, <3>1
    <2>4. CASE g # f
      <3>1. Released(g)' = Released(g)
        BY <1>4, <2>4
      <3> QED BY <1>2, <1>5, <2>1, <2>2, <3>1
    <2> QED BY <2>3, <2>4
  <1>8. ASSUME NEW v \in Values
        PROVE  /\ <<f, x>> \in Held[v] => v = zv[f][x]
               /\ v = zv[f][x] => <<f, x>> \in Held[v]
               /\ <<f, x>> \in Held'[v] => v = c
               /\ ~unclean /\ v = c => <<f, x>> \in Held'[v]
    <2>1. <<f, x>> \in Held[v] <=> f \in live /\ zv[f][x] = v /\ x \notin Released(f)
      BY HeldFact DEF HeldFacts
    <2>2. <<f, x>> \in Held'[v] <=> f \in live' /\ zv'[f][x] = v /\ x \notin Released(f)'
      BY HeldFactNext DEF HeldFacts
    <2> QED BY <1>2, <1>3, <1>6, <2>1, <2>2
  <1>9. Passes(<<f, x>>, zv[f][x], old, c)
    BY <1>1, <1>2, <1>7, <1>8, SlotPasses
  <1>10. <<f, x>> \in Slots
    BY DEF Slots
  <1> QED BY <1>9, <1>10, MoveCounts

\* What a statement writes is registered, and it unregisters nothing.
LEMMA StatementObserved ==
  ASSUME ReferenceInvariant, NEW f \in Frames, NEW x \in Vars, StatementEffect(f, x)
  PROVE  ValuesObserved'
  <1> USE DEF ReferenceInvariant, ObservationInvariant, StructureInvariant, StructureType
  <1>1. PICK c \in Content : zv' = [zv EXCEPT ![f][x] = c]
    BY DEF StatementEffect
  <1>2. \A g \in Frames : Observed(g) \subseteq Observed(g)'
    <2>1. CASE Observe(f, x)
      BY <2>1, ObserveEffect
    <2>2. CASE addresses'[f] = addresses[f]
      <3>1. \A g \in Frames : addresses'[g] = addresses[g]
        BY <2>2 DEF StatementEffect
      <3> QED BY <3>1 DEF Observed
    <2> QED BY <2>1, <2>2 DEF StatementEffect
  <1>3. x \in Observed(f)'
    <2>1. CASE Observe(f, x)
      <3>1. Observed(f)' = Observed(f) \cup {x}
        BY <2>1, ObserveEffect
      <3> QED BY <3>1
    <2>2. CASE ~Observe(f, x)
      <3>1. x \in Observed(f)
        BY <2>2 DEF StatementEffect, ValuesObserved
      <3>2. Observed(f) \subseteq Observed(f)'
        BY <1>2
      <3> QED BY <3>1, <3>2
    <2> QED BY <2>1, <2>2
  <1> SUFFICES ASSUME NEW g \in live', NEW y \in Vars, zv'[g][y] # Undef
               PROVE  y \in Observed(g)'
    BY DEF ValuesObserved
  <1>4. g \in live /\ g \in Frames
    BY DEF StatementEffect
  <1>5. CASE g = f /\ y = x
    <2>1. Observed(g)' = Observed(f)'
      BY <1>5 DEF Observed
    <2> QED BY <1>3, <1>5, <2>1
  <1>6. CASE ~(g = f /\ y = x)
    <2>1. zv'[g][y] = zv[g][y]
      BY <1>1, <1>4, <1>6
    <2>2. y \in Observed(g)
      BY <1>4, <2>1 DEF ValuesObserved
    <2>3. Observed(g) \subseteq Observed(g)'
      BY <1>2, <1>4
    <2> QED BY <2>2, <2>3
  <1> QED BY <1>5, <1>6

\* What the restore loop releases next is registered and not yet released.
LEMMA NextReleased ==
  ASSUME StructureType, ObservedOnce, NEW f \in Frames, RestoreStep(f)
  PROVE  /\ addresses[f][cursor[f]] \in Vars
         /\ addresses[f][cursor[f]] \notin Released(f)
         /\ Released(f)' = Released(f) \cup {addresses[f][cursor[f]]}
         /\ \A g \in Frames : g # f => Released(g)' = Released(g)
  <1> USE DEF StructureType
  <1> DEFINE k == cursor[f]
             s == addresses[f]
  <1>1. /\ k \in 1..Len(s) /\ s \in Seq(Vars) /\ k \in Nat /\ Len(s) \in Nat
        /\ addresses' = addresses /\ cursor' = [cursor EXCEPT ![f] = k + 1]
    BY DEF RestoreStep, observed
  <1>2. cursor'[f] = k + 1 /\ k + 1 # 0 /\ k # 0
    BY <1>1
  <1>3. Released(f) = {s[i] : i \in 1..(k - 1)}
    BY <1>2 DEF Released
  <1>4. Released(f)' = {s[i] : i \in 1..k}
    <2>1. (IF cursor'[f] = 0 THEN 0 ELSE cursor'[f] - 1) = k
      BY <1>1, <1>2
    <2> QED BY <1>1, <2>1 DEF Released
  <1>5. \A i \in 1..k : i \in 1..(k - 1) \/ i = k
    BY <1>1
  <1>6. k \in 1..k /\ \A i \in 1..(k - 1) : i \in 1..k /\ i \in 1..Len(s) /\ i # k
    BY <1>1
  <1>7. s[k] \in Vars
    BY <1>1
  <1>8. \A i \in 1..(k - 1) : s[i] # s[k]
    BY <1>1, <1>6 DEF ObservedOnce
  <1>9. \A g \in Frames : g # f => Released(g)' = Released(g)
    <2>1. \A g \in Frames : g # f => cursor'[g] = cursor[g]
      BY <1>1
    <2> QED BY <1>1, <2>1 DEF Released
  <1> HIDE DEF k, s
  <1>10. {s[i] : i \in 1..k} = {s[i] : i \in 1..(k - 1)} \cup {s[k]}
    BY <1>5, <1>6
  <1> QED BY <1>3, <1>4, <1>7, <1>8, <1>9, <1>10 DEF k, s

\* Leaving a method: no owner changes before the restore loop, one goes with
\* each turn of it, and none is left when the frame pops.
LEMMA LeaveCounts ==
  ASSUME ReferenceInvariant, NEW f \in Frames, Leave(f)
  PROVE  CountsType' /\ OwnersCounted'
  <1> USE DEF ReferenceInvariant, ObservationInvariant, StructureInvariant, StructureType
  <1>1. CASE ReturnMM(f)
    <2>1. /\ UNCHANGED <<unclean, addresses, live, zv, rc, ext>> /\ cursor[f] = 0
          /\ ~unclean => cursor'[f] = 1
          /\ \A g \in Frames : g # f => cursor'[g] = cursor[g]
      BY <1>1 DEF ReturnMM, Running, BeginRestore, request, observed, counts
    <2>2. Released(f) = {} /\ (~unclean => Released(f)' = {})
      BY <2>1, NoneReleased, NoneReleasedNext
    <2>3. \A g \in Frames : g # f => Released(g)' = Released(g)
      BY <2>1 DEF Released
    <2>4. ASSUME NEW g \in Frames, NEW y \in Vars, NEW v \in Values
          PROVE  /\ <<g, y>> \in Held'[v] => <<g, y>> \in Held[v]
                 /\ ~unclean => (<<g, y>> \in Held[v] => <<g, y>> \in Held'[v])
      <3>1. <<g, y>> \in Held[v] <=> g \in live /\ zv[g][y] = v /\ y \notin Released(g)
        BY HeldFact DEF HeldFacts
      <3>2. <<g, y>> \in Held'[v] <=> g \in live' /\ zv'[g][y] = v /\ y \notin Released(g)'
        BY HeldFactNext DEF HeldFacts
      <3>3. CASE g = f
        <4>1. Released(g) = {} /\ (~unclean => Released(g)' = {})
          BY <2>1, <3>3, NoneReleased, NoneReleasedNext
        <4> QED BY <2>1, <3>1, <3>2, <4>1
      <3>4. CASE g # f
        <4>1. Released(g)' = Released(g)
          BY <2>3, <3>4
        <4> QED BY <2>1, <3>1, <3>2, <4>1
      <3> QED BY <3>3, <3>4
    <2>5. KeepsOwners
      BY <2>1, <2>4, SlotsKept
    <2> QED BY <2>5, KeptCounts
  <1>2. ASSUME NEW z \in Vars, NEW x \in Vars, ReturnCCtor(f, z, x)
        PROVE  CountsType' /\ OwnersCounted'
    <2>1. /\ UNCHANGED <<unclean, addresses, live, ext>> /\ cursor[f] = 0
          /\ ~unclean => cursor'[f] = 1
          /\ \A g \in Frames : g # f => cursor'[g] = cursor[g]
          /\ wait[f] = NULL
      BY <1>2 DEF ReturnCCtor, Running, BeginRestore, request, observed
    <2>2. PICK q \in Frames : /\ q = prev[f] /\ q \in live /\ q # f
                             /\ wait[q] = x /\ zv[q][x] = Undef
      BY <1>2, <2>1, FrameFacts DEF ReturnCCtor
    <2>3. PICK c : zv' = [zv EXCEPT ![q][x] = c] /\ rc' = Moved(Undef, c)
      BY <1>2, <2>2 DEF ReturnCCtor
    <2>4. zv'[q][x] = c
      BY <2>2, <2>3
    <2>5. \A g \in Frames, y \in Vars : <<g, y>> # <<q, x>> => zv'[g][y] = zv[g][y]
      BY <2>2, <2>3
    <2>6. \A g \in Frames : g # f => Released(g)' = Released(g)
      BY <2>1 DEF Released
    <2>7. Released(q) = {} /\ Released(q)' = {}
      <3>1. cursor[q] = 0
        BY <2>2, FrameFacts DEF WaitingRuns
      <3> QED BY <2>2, <2>6, <3>1, NoneReleased
    <2>8. OthersKept(q, x)
      <3> SUFFICES ASSUME NEW g \in Frames, NEW y \in Vars, NEW v \in Values,
                          <<g, y>> # <<q, x>>
                   PROVE  /\ <<g, y>> \in Held'[v] => <<g, y>> \in Held[v]
                          /\ ~unclean => (<<g, y>> \in Held[v] => <<g, y>> \in Held'[v])
        BY DEF OthersKept
      <3>1. <<g, y>> \in Held[v] <=> g \in live /\ zv[g][y] = v /\ y \notin Released(g)
        BY HeldFact DEF HeldFacts
      <3>2. <<g, y>> \in Held'[v] <=> g \in live' /\ zv'[g][y] = v /\ y \notin Released(g)'
        BY HeldFactNext DEF HeldFacts
      <3>3. CASE g = f
        <4>1. Released(g) = {} /\ (~unclean => Released(g)' = {})
          BY <2>1, <3>3, NoneReleased, NoneReleasedNext
        <4> QED BY <2>1, <2>5, <3>1, <3>2, <4>1
      <3>4. CASE g # f
        <4>1. Released(g)' = Released(g)
          BY <2>6, <3>4
        <4> QED BY <2>1, <2>5, <3>1, <3>2, <4>1
      <3> QED BY <3>3, <3>4
    <2>9. ASSUME NEW v \in Values
          PROVE  /\ <<q, x>> \in Held[v] => v = Undef
                 /\ v = Undef => <<q, x>> \in Held[v]
                 /\ <<q, x>> \in Held'[v] => v = c
                 /\ ~unclean /\ v = c => <<q, x>> \in Held'[v]
      <3>1. <<q, x>> \in Held[v] <=> q \in live /\ zv[q][x] = v /\ x \notin Released(q)
        BY <2>2, HeldFact DEF HeldFacts
      <3>2. <<q, x>> \in Held'[v] <=> q \in live' /\ zv'[q][x] = v /\ x \notin Released(q)'
        BY <2>2, HeldFactNext DEF HeldFacts
      <3> QED BY <2>1, <2>2, <2>4, <2>7, <3>1, <3>2, ContentAssumption
    <2>10. Passes(<<q, x>>, Undef, Undef, c)
      <3>1. /\ rc' = Moved(Undef, c) /\ ext' = ext /\ unclean' = unclean
            /\ Drops(Undef, Undef)
        BY <2>1, <2>3 DEF Drops
      <3> QED BY <2>2, <2>8, <2>9, <3>1, SlotPasses
    <2>11. <<q, x>> \in Slots
      BY <2>2 DEF Slots
    <2> QED BY <2>10, <2>11, MoveCounts
  <1>3. CASE RestoreStep(f)
    <2> DEFINE a == addresses[f][cursor[f]]
    <2>1. /\ UNCHANGED <<unclean, addresses, live, zv, ext>> /\ f \in live
          /\ rc' = Moved(zv[f][a], Undef)
      BY <1>3 DEF RestoreStep, request, observed
    <2>2. /\ a \in Vars /\ a \notin Released(f)
          /\ Released(f)' = Released(f) \cup {a}
          /\ \A g \in Frames : g # f => Released(g)' = Released(g)
      BY <1>3, NextReleased
    <2> HIDE DEF a
    <2>3. OthersKept(f, a)
      <3> SUFFICES ASSUME NEW g \in Frames, NEW y \in Vars, NEW v \in Values,
                          <<g, y>> # <<f, a>>
                   PROVE  <<g, y>> \in Held'[v] <=> <<g, y>> \in Held[v]
        BY DEF OthersKept
      <3>1. <<g, y>> \in Held[v] <=> g \in live /\ zv[g][y] = v /\ y \notin Released(g)
        BY HeldFact DEF HeldFacts
      <3>2. <<g, y>> \in Held'[v] <=> g \in live' /\ zv'[g][y] = v /\ y \notin Released(g)'
        BY HeldFactNext DEF HeldFacts
      <3>3. CASE g = f
        <4>1. Released(g) = Released(f) /\ Released(g)' = Released(f)'
          BY <3>3 DEF Released
        <4>2. Released(g)' = Released(g) \cup {a} /\ y # a
          BY <2>2, <3>3, <4>1
        <4> QED BY <2>1, <3>1, <3>2, <4>2
      <3>4. CASE g # f
        <4>1. Released(g)' = Released(g)
          BY <2>2, <3>4
        <4> QED BY <2>1, <3>1, <3>2, <4>1
      <3> QED BY <3>3, <3>4
    <2>4. ASSUME NEW v \in Values
          PROVE  /\ <<f, a>> \in Held[v] => v = zv[f][a]
                 /\ v = zv[f][a] => <<f, a>> \in Held[v]
                 /\ <<f, a>> \in Held'[v] => v = Undef
                 /\ ~unclean /\ v = Undef => <<f, a>> \in Held'[v]
      <3>1. <<f, a>> \in Held[v] <=> f \in live /\ zv[f][a] = v /\ a \notin Released(f)
        BY <2>2, HeldFact DEF HeldFacts
      <3>2. <<f, a>> \in Held'[v] <=> f \in live' /\ zv'[f][a] = v /\ a \notin Released(f)'
        BY <2>2, HeldFactNext DEF HeldFacts
      <3> QED BY <2>1, <2>2, <3>1, <3>2, ContentAssumption
    <2>5. Passes(<<f, a>>, zv[f][a], zv[f][a], Undef)
      <3>1. Drops(zv[f][a], zv[f][a])
        BY DEF Drops
      <3> QED BY <2>1, <2>2, <2>3, <2>4, <3>1, SlotPasses
    <2>6. <<f, a>> \in Slots
      BY <2>2 DEF Slots
    <2> QED BY <2>5, <2>6, MoveCounts
  <1>4. CASE Pop(f)
    <2>1. /\ UNCHANGED <<unclean, rc, ext>> /\ f \in live /\ live' = live \ {f}
          /\ addresses' = [addresses EXCEPT ![f] = << >>]
          /\ zv' = [zv EXCEPT ![f] = [x \in Vars |-> Undef]]
          /\ cursor' = [cursor EXCEPT ![f] = 0] /\ cursor[f] > Len(addresses[f])
      BY <1>4 DEF Pop, LoopEnded, request, counts
    <2>2. Observed(f) \subseteq Released(f)
      <3>1. cursor[f] \in Nat /\ Len(addresses[f]) \in Nat
        OBVIOUS
      <3>2. 1..Len(addresses[f]) \subseteq 1..(IF cursor[f] = 0 THEN 0 ELSE cursor[f] - 1)
        BY <2>1, <3>1
      <3> QED BY <3>2 DEF Observed, Released
    <2>3. \A x \in Vars : zv[f][x] # Undef => x \in Released(f)
      BY <2>1, <2>2 DEF ValuesObserved
    <2>4. \A g \in Frames : g # f => Released(g)' = Released(g) /\ zv'[g] = zv[g]
      BY <2>1 DEF Released
    <2>5. ASSUME NEW g \in Frames, NEW y \in Vars, NEW v \in Values
          PROVE  <<g, y>> \in Held'[v] <=> <<g, y>> \in Held[v]
      <3>1. <<g, y>> \in Held[v] <=> g \in live /\ zv[g][y] = v /\ y \notin Released(g)
        BY HeldFact DEF HeldFacts
      <3>2. <<g, y>> \in Held'[v] <=> g \in live' /\ zv'[g][y] = v /\ y \notin Released(g)'
        BY HeldFactNext DEF HeldFacts
      <3>3. CASE g = f
        <4>1. zv[f][y] = v => y \in Released(f)
          BY <2>3, ContentAssumption
        <4> QED BY <2>1, <3>1, <3>2, <3>3, <4>1
      <3>4. CASE g # f
        <4>1. Released(g)' = Released(g) /\ zv'[g] = zv[g]
          BY <2>4, <3>4
        <4> QED BY <2>1, <3>1, <3>2, <3>4, <4>1
      <3> QED BY <3>3, <3>4
    <2>6. KeepsOwners
      BY <2>1, <2>5, SlotsKept
    <2> QED BY <2>6, KeptCounts
  <1> QED BY <1>1, <1>2, <1>3, <1>4 DEF Leave

\* Leaving writes the zval that waits for the result, which is registered, and
\* unregisters the zvals of the frame with the frame itself.
LEMMA LeaveObserved ==
  ASSUME ReferenceInvariant, NEW f \in Frames, Leave(f)
  PROVE  ValuesObserved'
  <1> USE DEF ReferenceInvariant, ObservationInvariant, StructureInvariant, StructureType
  <1>1. ASSUME ReturnMM(f) \/ RestoreStep(f) PROVE ValuesObserved'
    <2>1. UNCHANGED <<addresses, live, zv>>
      BY <1>1 DEF ReturnMM, RestoreStep, observed
    <2>2. \A g \in Frames : Observed(g)' = Observed(g)
      BY <2>1 DEF Observed
    <2> QED BY <2>1, <2>2 DEF ValuesObserved
  <1>2. ASSUME NEW z \in Vars, NEW x \in Vars, ReturnCCtor(f, z, x)
        PROVE  ValuesObserved'
    <2>1. UNCHANGED <<addresses, live>>
      BY <1>2 DEF ReturnCCtor, observed
    <2>2. PICK q \in Frames : q = prev[f] /\ q \in live /\ wait[q] = x
      BY <1>2 DEF ReturnCCtor
    <2>3. PICK c : zv' = [zv EXCEPT ![q][x] = c]
      BY <1>2, <2>2 DEF ReturnCCtor
    <2>4. x \in Observed(q)
      BY <2>2, FrameFacts DEF WaitObserved
    <2>5. \A g \in Frames : Observed(g)' = Observed(g)
      BY <2>1 DEF Observed
    <2> SUFFICES ASSUME NEW g \in live, NEW y \in Vars, zv'[g][y] # Undef
                 PROVE  y \in Observed(g)'
      BY <2>1 DEF ValuesObserved
    <2>6. Observed(g)' = Observed(g)
      BY <2>5
    <2>7. CASE g = q /\ y = x
      BY <2>4, <2>6, <2>7
    <2>8. CASE ~(g = q /\ y = x)
      <3>1. zv'[g][y] = zv[g][y]
        BY <2>3, <2>8
      <3> QED BY <2>6, <3>1 DEF ValuesObserved
    <2> QED BY <2>7, <2>8
  <1>3. CASE Pop(f)
    <2>1. /\ live' = live \ {f} /\ addresses' = [addresses EXCEPT ![f] = << >>]
          /\ zv' = [zv EXCEPT ![f] = [x \in Vars |-> Undef]]
      BY <1>3 DEF Pop
    <2>2. \A g \in live' : g \in live /\ zv'[g] = zv[g] /\ Observed(g)' = Observed(g)
      BY <2>1 DEF Observed
    <2> QED BY <2>2 DEF ValuesObserved
  <1> QED BY <1>1, <1>2, <1>3 DEF Leave

\* A method begins to leave only when it waits for no call.
LEMMA LeaveWaiting ==
  ASSUME ReferenceInvariant, NEW f \in Frames, Leave(f)
  PROVE  WaitingRuns'
  <1> USE DEF ReferenceInvariant, ObservationInvariant, StructureInvariant, StructureType
  <1>1. CASE Pop(f)
    BY <1>1 DEF Pop, WaitingRuns
  <1>2. CASE RestoreStep(f)
    <2>1. /\ UNCHANGED <<live, wait>> /\ cursor[f] # 0 /\ f \in live
          /\ \A g \in Frames : g # f => cursor'[g] = cursor[g]
      BY <1>2 DEF RestoreStep
    <2> QED BY <2>1 DEF WaitingRuns
  <1>3. ASSUME ReturnMM(f) \/ \E y, x \in Vars : ReturnCCtor(f, y, x) PROVE WaitingRuns'
    <2>1. /\ UNCHANGED <<live, wait>> /\ wait[f] = NULL
          /\ \A g \in Frames : g # f => cursor'[g] = cursor[g]
      BY <1>3 DEF ReturnMM, ReturnCCtor, Running, BeginRestore
    <2> QED BY <2>1 DEF WaitingRuns
  <1> QED BY <1>1, <1>2, <1>3 DEF Leave

\* A call begins in a method that is not leaving.
LEMMA StatementWaiting ==
  ASSUME ReferenceInvariant, NEW f \in Frames, NEW x \in Vars, Statement(f, x)
  PROVE  WaitingRuns'
  <1> USE DEF ReferenceInvariant, ObservationInvariant, StructureInvariant, StructureType
  <1>1. ASSUME NEW c \in Content, NEW old, FirstUse(f, x, c) \/ AnyUse(f, x, old, c)
        PROVE  WaitingRuns'
    BY <1>1 DEF FirstUse, AnyUse, WaitingRuns
  <1>2. CASE CallBegin(f, x)
    BY <1>2 DEF CallBegin, Running, WaitingRuns
  <1>3. CASE CallSucceeds(f, x)
    BY <1>3 DEF CallSucceeds, WaitingRuns
  <1>4. CASE CallFails(f, x)
    <2>1. /\ live' = live /\ wait' = [wait EXCEPT ![f] = NULL]
          /\ \A g \in Frames : g # f => cursor'[g] = cursor[g]
      BY <1>4 DEF CallFails, BeginRestore
    <2> QED BY <2>1 DEF WaitingRuns
  <1> QED BY <1>1, <1>2, <1>3, <1>4, StatementKinds

-----------------------------------------------------------------------------
(* Frames pushed, requests, and the rest of the engine.                    *)

\* With no method on the C stack, no zval owns anything.
LEMMA NothingHeld == live = {} => \A v \in Values : Held[v] = {}
  BY DEF Held, Holders

\* The same of the next state.
LEMMA NothingHeldNext == (live = {} => \A v \in Values : Held[v] = {})'
  BY NothingHeld, PTL

\* The frame a method starts on is one no zval was registered in, so no owner
\* is forgotten with what the frame held before.
LEMMA GrowReferences ==
  ASSUME ReferenceInvariant, Grow
  PROVE  ValuesObserved' /\ WaitingRuns' /\ CountsType' /\ OwnersCounted'
  <1> USE DEF ReferenceInvariant, ObservationInvariant, StructureInvariant, StructureType
  <1>1. PICK f \in Frames :
          /\ Enter(f)
          /\ live = {} \/ addresses[f] = << >>
          /\ \A g \in live : g # f => addresses'[g] = addresses[g]
    <2>1. CASE GrowUninitialized
      <3>1. live = {} /\ Enter(1)
        BY <2>1 DEF GrowUninitialized
      <3> QED BY <3>1, FrameFacts
    <2>2. CASE GrowFirst
      <3>1. Enter(1) /\ addresses' = addresses /\ addresses[1] = << >>
        BY <2>2, FrameFacts DEF GrowFirst, observed, UnusedEmpty, InUse
      <3> QED BY <3>1, FrameFacts
    <2>3. CASE GrowNext
      <3>1. active \in 1..(NumPreallocated - 1)
        BY <2>3, FrameFacts DEF GrowNext, HeapLinks, Frames
      <3>2. next[active] = active + 1 /\ active + 1 \in Permanent /\ active \in Nat
        BY <3>1, FrameFacts DEF BlockLinks
      <3>3. ~InUse(active + 1)
        BY <3>1, <3>2, FrameFacts DEF InUse
      <3>4. Enter(active + 1) /\ addresses' = addresses /\ addresses[active + 1] = << >>
        BY <2>3, <3>2, <3>3, FrameFacts DEF GrowNext, observed, UnusedEmpty
      <3> QED BY <3>2, <3>4, FrameFacts
    <2>4. CASE GrowHeap
      <3>1. PICK f \in HeapFrames \ heap :
              Enter(f) /\ addresses' = [addresses EXCEPT ![f] = << >>]
        BY <2>4 DEF GrowHeap
      <3>2. f \in Frames /\ ~InUse(f)
        BY FrameFacts DEF InUse
      <3>3. addresses[f] = << >> /\ \A g \in Frames : g # f => addresses'[g] = addresses[g]
        BY <3>1, <3>2 DEF UnusedEmpty
      <3> QED BY <3>1, <3>2, <3>3
    <2> QED BY <2>1, <2>2, <2>3, <2>4 DEF Grow
  <1>2. UNCHANGED <<rc, ext, unclean>>
    BY DEF Grow, GrowUninitialized, GrowFirst, GrowNext, GrowHeap, request, counts
  <1>3. /\ live' = live \cup {f} /\ wait'[f] = NULL
        /\ \A x \in Vars : zv'[f][x] = Undef
        /\ \A g \in Frames : g # f => /\ zv'[g] = zv[g] /\ wait'[g] = wait[g]
                                      /\ cursor'[g] = cursor[g]
    BY <1>1 DEF Enter
  <1>4. \A g \in live : g # f => Observed(g)' = Observed(g) /\ Released(g)' = Released(g)
    BY <1>1, <1>3 DEF Observed, Released
  <1>5. f \in live => \A x \in Vars : zv[f][x] = Undef
    <2>1. f \in live => Observed(f) = {}
      BY <1>1 DEF Observed
    <2> QED BY <2>1 DEF ValuesObserved
  <1>6. ValuesObserved'
    <2> SUFFICES ASSUME NEW g \in live', NEW y \in Vars, zv'[g][y] # Undef
                 PROVE  y \in Observed(g)'
      BY DEF ValuesObserved
    <2>1. g # f /\ g \in live /\ zv'[g] = zv[g]
      BY <1>3
    <2>2. Observed(g)' = Observed(g)
      BY <1>4, <2>1
    <2> QED BY <2>1, <2>2 DEF ValuesObserved
  <1>7. WaitingRuns'
    BY <1>3 DEF WaitingRuns
  <1>8. ASSUME NEW g \in Frames, NEW y \in Vars, NEW v \in Values
        PROVE  <<g, y>> \in Held'[v] <=> <<g, y>> \in Held[v]
    <2>1. <<g, y>> \in Held[v] <=> g \in live /\ zv[g][y] = v /\ y \notin Released(g)
      BY HeldFact DEF HeldFacts
    <2>2. <<g, y>> \in Held'[v] <=> g \in live' /\ zv'[g][y] = v /\ y \notin Released(g)'
      BY HeldFactNext DEF HeldFacts
    <2>3. CASE g = f
      BY <1>3, <1>5, <2>1, <2>2, <2>3, ContentAssumption
    <2>4. CASE g # f
      <3>1. /\ g \in live' <=> g \in live
            /\ zv'[g] = zv[g]
            /\ g \in live => Released(g)' = Released(g)
        BY <1>3, <1>4, <2>4
      <3> QED BY <2>1, <2>2, <3>1
    <2> QED BY <2>3, <2>4
  <1>9. KeepsOwners
    BY <1>2, <1>8, SlotsKept
  <1>10. CountsType' /\ OwnersCounted'
    BY <1>9, KeptCounts
  <1> QED BY <1>6, <1>7, <1>10

\* A request starts with no value and ends with no method; a fatal error
\* forgets owners without dropping their references.
LEMMA LifecycleReferences ==
  ASSUME ReferenceInvariant, Lifecycle
  PROVE  ValuesObserved' /\ WaitingRuns' /\ CountsType' /\ OwnersCounted'
  <1> USE DEF ReferenceInvariant
  <1>1. live' = {}
    BY DEF Lifecycle, RInit, RShutdown, Bailout, methods
  <1>2. ValuesObserved' /\ WaitingRuns'
    BY <1>1 DEF ValuesObserved, WaitingRuns
  <1>3. \A v \in Values : Held'[v] = {}
    BY <1>1, NothingHeldNext
  <1>4. Cardinality({}) = 0
    BY FS_EmptySet
  <1>5. CASE RInit
    <2>1. rc' = [v \in Values |-> 0] /\ ext' = [v \in Values |-> 0]
      BY <1>5 DEF RInit
    <2> QED BY <1>2, <1>3, <1>4, <2>1, SMTT(60) DEF CountsType, OwnersCounted, AllOwned
  <1>6. CASE RShutdown
    <2>1. UNCHANGED <<unclean, rc, ext>> /\ live = {}
      BY <1>6 DEF RShutdown, counts
    <2>2. \A v \in Values : Held[v] = {}
      BY <2>1, NothingHeld
    <2>3. KeepsOwners
      BY <1>3, <2>1, <2>2 DEF KeepsOwners
    <2> QED BY <1>2, <2>3, KeptCounts
  <1>7. CASE Bailout
    <2>1. unclean' /\ UNCHANGED <<rc, ext>>
      BY <1>7 DEF Bailout, counts
    <2>2. ASSUME NEW v \in Values PROVE rc[v] >= 0 + ext[v]
      <3>1. Held[v] \in SUBSET Slots
        BY HeldFact DEF HeldFacts
      <3>2. Cardinality(Held[v]) \in Nat
        BY <3>1, SlotsFinite
      <3> QED BY <3>2 DEF CountsType, OwnersCounted
    <2> QED BY <1>2, <1>3, <1>4, <2>1, <2>2 DEF CountsType, OwnersCounted, AllOwned
  <1> QED BY <1>5, <1>6, <1>7 DEF Lifecycle

\* The engine takes and drops only references it owns.
LEMMA ExternalReferences ==
  ASSUME ReferenceInvariant, NEW v \in Values, AddExternal(v) \/ DropExternal(v)
  PROVE  ValuesObserved' /\ WaitingRuns' /\ CountsType' /\ OwnersCounted'
  <1> USE DEF ReferenceInvariant
  <1>1. UNCHANGED <<unclean, addresses, live, zv, wait, cursor>>
    BY DEF AddExternal, DropExternal, request, observed, methods
  <1>2. ValuesObserved' /\ WaitingRuns'
    BY <1>1 DEF ValuesObserved, WaitingRuns, Observed
  <1>3. Held' = Held
    BY <1>1 DEF Held, Holders, Released
  <1>4. ASSUME NEW w \in Values
        PROVE  /\ rc'[w] \in Nat /\ ext'[w] \in Nat
               /\ rc'[w] >= Cardinality(Held[w]) + ext'[w]
               /\ AllOwned(w) => rc'[w] = Cardinality(Held[w]) + ext'[w]
    <2>1. Held[w] \in SUBSET Slots
      BY HeldFact DEF HeldFacts
    <2>2. /\ Cardinality(Held[w]) \in Nat /\ rc[w] \in Nat /\ ext[w] \in Nat
          /\ rc[w] >= Cardinality(Held[w]) + ext[w]
          /\ AllOwned(w) => rc[w] = Cardinality(Held[w]) + ext[w]
      BY <2>1, SlotsFinite DEF CountsType, OwnersCounted
    <2>3. CASE AddExternal(v)
      <3>1. /\ rc'[w] = IF w = v THEN rc[w] + 1 ELSE rc[w]
            /\ ext'[w] = IF w = v THEN ext[w] + 1 ELSE ext[w]
        BY <2>3 DEF AddExternal, CountsType
      <3> QED BY <2>2, <3>1
    <2>4. CASE DropExternal(v)
      <3>1. /\ rc'[w] = IF w = v THEN rc[w] - 1 ELSE rc[w]
            /\ ext'[w] = IF w = v THEN ext[w] - 1 ELSE ext[w]
            /\ ext[v] > 0
        BY <2>4 DEF DropExternal, CountsType
      <3> QED BY <2>2, <3>1
    <2> QED BY <2>3, <2>4
  <1>5. CountsType'
    <2>1. rc' = [w \in Values |-> rc'[w]] /\ ext' = [w \in Values |-> ext'[w]]
      BY DEF AddExternal, DropExternal, CountsType
    <2> QED BY <1>4, <2>1 DEF CountsType
  <1> QED BY <1>1, <1>2, <1>3, <1>4, <1>5 DEF OwnersCounted, AllOwned

-----------------------------------------------------------------------------
(* The invariant.                                                          *)

\* Before the first request nothing is alive.
LEMMA ReferenceInit == Init => ReferenceInvariant
  <1> SUFFICES ASSUME Init PROVE ReferenceInvariant
    OBVIOUS
  <1>1. ObservationInvariant
    BY ObservationInit
  <1>2. live = {} /\ rc = [v \in Values |-> 0] /\ ext = [v \in Values |-> 0]
    BY DEF Init
  <1>3. Cardinality({}) = 0
    BY FS_EmptySet
  <1>4. CountsType /\ OwnersCounted
    BY <1>2, <1>3, NothingHeld DEF CountsType, OwnersCounted
  <1> QED BY <1>1, <1>2, <1>4 DEF ReferenceInvariant, ValuesObserved, WaitingRuns

\* Every step keeps the counts in agreement with the owners.
LEMMA ReferenceStep ==
  ASSUME CanCatch = FALSE, UnsetCopies = FALSE
  PROVE  ReferenceInvariant /\ [Next]_vars => ReferenceInvariant'
  <1> SUFFICES ASSUME ReferenceInvariant, [Next]_vars PROVE ReferenceInvariant'
    OBVIOUS
  <1> DEFINE Goal == ValuesObserved' /\ WaitingRuns' /\ CountsType' /\ OwnersCounted'
  <1>1. ASSUME Lifecycle PROVE Goal
    BY <1>1, LifecycleReferences
  <1>2. ASSUME Grow PROVE Goal
    BY <1>2, GrowReferences
  <1>3. ASSUME NEW f \in Frames, Leave(f) PROVE Goal
    BY <1>3, LeaveCounts, LeaveObserved, LeaveWaiting
  <1>4. ASSUME NEW f \in Frames, NEW x \in Vars, Statement(f, x) PROVE Goal
    <2>1. StatementEffect(f, x)
      BY <1>4, StatementEffects
    <2> QED BY <1>4, <2>1, StatementPasses, StatementObserved, StatementWaiting
  <1>5. ASSUME NEW v \in Values, AddExternal(v) \/ DropExternal(v) PROVE Goal
    BY <1>5, ExternalReferences
  <1>6. ASSUME UNCHANGED vars PROVE Goal
    <2>1. UNCHANGED <<unclean, addresses, live, zv, wait, cursor, rc, ext>>
      BY <1>6 DEF vars, request, observed, methods, counts
    <2>2. Held' = Held
      BY <2>1 DEF Held, Holders, Released
    <2> QED BY <2>1, <2>2 DEF ReferenceInvariant, ValuesObserved, WaitingRuns, Observed,
                              CountsType, OwnersCounted, AllOwned
  <1>7. Goal
    BY <1>1, <1>2, <1>3, <1>4, <1>5, <1>6 DEF Next
  <1>8. ObservationInvariant'
    BY ObservationStep DEF ReferenceInvariant
  <1> QED BY <1>7, <1>8 DEF ReferenceInvariant

\* In a program with no try block that copies no unset zval the count of each
\* value agrees with its owners in every reachable state.
THEOREM ReferencesCounted ==
  ASSUME CanCatch = FALSE, UnsetCopies = FALSE
  PROVE  Spec => []ReferenceInvariant
  <1>1. ReferenceInvariant /\ [Next]_vars => ReferenceInvariant'
    BY ReferenceStep
  <1> QED BY <1>1, ReferenceInit, PTL DEF Spec

\* Every variable keeps to its type; in particular no count becomes negative:
\* the restore loop and the macros drop no reference twice.
THEOREM TypeCorrect ==
  ASSUME CanCatch = FALSE, UnsetCopies = FALSE
  PROVE  Spec => []TypeOK
  <1>1. ReferenceInvariant => TypeOK
    BY DEF ReferenceInvariant, ObservationInvariant, StructureInvariant, StructureType,
           CountsType, TypeOK
  <1> QED BY <1>1, ReferencesCounted, PTL

\* No value is freed while a zval of a method, a property or an array refers
\* to it, whatever the calls, destructors and fatal errors.
THEOREM NoPrematureFreeHolds ==
  ASSUME CanCatch = FALSE, UnsetCopies = FALSE
  PROVE  Spec => []NoPrematureFree
  <1>1. ReferenceInvariant => NoPrematureFree
    BY DEF ReferenceInvariant, OwnersCounted, NoPrematureFree, Held
  <1> QED BY <1>1, ReferencesCounted, PTL

\* Until a fatal error, no macro and no way out of a method leaks a value that
\* is not a PHP reference, whatever PHP references the zvals hold and lose.
THEOREM NoLeakHolds ==
  ASSUME CanCatch = FALSE, UnsetCopies = FALSE
  PROVE  Spec => []NoLeak
  <1>1. ReferenceInvariant => NoLeak
    BY DEF ReferenceInvariant, OwnersCounted, AllOwned, NoLeak, Held
  <1> QED BY <1>1, ReferencesCounted, PTL

=============================================================================
