----------------------- MODULE StatementCompilerProofs -----------------------
(***************************************************************************)
(* What the compilers of statements print, for every body, and what it     *)
(* does when it runs, whatever the calls, the conditions and the iterators *)
(* answer.                                                                 *)
(***************************************************************************)
EXTENDS StatementCompiler, FiniteSetTheorems, TLAPS

IsSeq(c) == \E S : c \in Seq(S)

Front(w) == SubSeq(w, 1, Len(w) - 1)

-----------------------------------------------------------------------------
(* Sequences.                                                              *)

LEMMA SeqFacts ==
  ASSUME NEW c, IsSeq(c)
  PROVE  Len(c) \in Nat /\ DOMAIN c = 1..Len(c)
  BY DEF IsSeq

LEMMA SeqEmpty ==
  ASSUME NEW c, IsSeq(c)
  PROVE  c = << >> <=> Len(c) = 0
  <1>1. PICK S : c \in Seq(S)
    BY DEF IsSeq
  <1> QED BY <1>1

LEMMA SeqJoined ==
  ASSUME NEW c, IsSeq(c), NEW f, IsSeq(f)
  PROVE  /\ IsSeq(c \o f) /\ Len(c \o f) = Len(c) + Len(f)
         /\ \A i \in 1..Len(c) : (c \o f)[i] = c[i]
         /\ \A i \in 1..Len(f) : (c \o f)[Len(c) + i] = f[i]
         /\ \A i \in 1..Len(c \o f) : i > Len(c) => i - Len(c) \in 1..Len(f) /\ (c \o f)[i] = f[i - Len(c)]
  <1>1. PICK S : c \in Seq(S)
    BY DEF IsSeq
  <1>2. PICK T : f \in Seq(T)
    BY DEF IsSeq
  <1>3. c \in Seq(S \cup T) /\ f \in Seq(S \cup T)
    BY <1>1, <1>2
  <1>4. c \o f \in Seq(S \cup T)
    BY <1>3
  <1> QED BY <1>3, <1>4 DEF IsSeq

LEMMA SeqAppended ==
  ASSUME NEW c, IsSeq(c), NEW e
  PROVE  Append(c, e) = c \o <<e>> /\ IsSeq(<<e>>) /\ Len(<<e>>) = 1 /\ <<e>>[1] = e
  <1>1. PICK S : c \in Seq(S)
    BY DEF IsSeq
  <1>2. c \in Seq(S \cup {e}) /\ <<e>> \in Seq(S \cup {e})
    BY <1>1
  <1>3. IsSeq(<<e>>)
    BY <1>2, Zenon DEF IsSeq
  <1>4. Append(c, e) = c \o <<e>>
    BY <1>2
  <1> QED BY <1>3, <1>4

LEMMA SeqFront ==
  ASSUME NEW w, IsSeq(w), Len(w) > 1
  PROVE  /\ IsSeq(Front(w)) /\ Len(Front(w)) = Len(w) - 1
         /\ \A k \in 1..Len(Front(w)) : Front(w)[k] = w[k]
  <1>1. PICK S : w \in Seq(S)
    BY DEF IsSeq
  <1>2. Len(w) \in Nat /\ Len(w) - 1 \in 1..Len(w)
    BY <1>1
  <1>3. Front(w) \in Seq(S) /\ Len(Front(w)) = Len(w) - 1
    BY <1>1, <1>2 DEF Front
  <1>4. \A k \in 1..(Len(w) - 1) : Front(w)[k] = w[k]
    BY <1>1, <1>2 DEF Front
  <1> QED BY <1>3, <1>4 DEF IsSeq

LEMMA SeqTail ==
  ASSUME NEW c, IsSeq(c), c # << >>
  PROVE  /\ IsSeq(Tail(c)) /\ Len(Tail(c)) = Len(c) - 1 /\ Len(c) > 0 /\ Head(c) = c[1]
         /\ \A i \in 1..Len(Tail(c)) : Tail(c)[i] = c[i + 1]
  <1>1. PICK S : c \in Seq(S)
    BY DEF IsSeq
  <1>2. Tail(c) \in Seq(S)
    BY <1>1
  <1> QED BY <1>1, <1>2 DEF IsSeq

-----------------------------------------------------------------------------
(* The loops over an iterator that are around a statement.                 *)

Obtains(c, i)  == {k \in 1..(i - 1) : c[k].op = "get_iterator"}
Destroys(c, i) == {k \in 1..(i - 1) : c[k].op = "destroy"}

LEMMA DepthFacts ==
  ASSUME NEW c, NEW i \in Nat
  PROVE  /\ IsFiniteSet(Obtains(c, i)) /\ IsFiniteSet(Destroys(c, i))
         /\ Depth(c, i) = Cardinality(Obtains(c, i)) - Cardinality(Destroys(c, i))
         /\ Cardinality(Obtains(c, i)) \in Nat /\ Cardinality(Destroys(c, i)) \in Nat
         /\ Depth(c, i) \in Int
  <1>1. IsFiniteSet(1..(i - 1))
    BY FS_Interval
  <1>2. IsFiniteSet(Obtains(c, i)) /\ IsFiniteSet(Destroys(c, i))
    <2>1. Obtains(c, i) \subseteq 1..(i - 1) /\ Destroys(c, i) \subseteq 1..(i - 1)
      BY DEF Obtains, Destroys
    <2> QED BY <1>1, <2>1, FS_Subset
  <1>3. Cardinality(Obtains(c, i)) \in Nat /\ Cardinality(Destroys(c, i)) \in Nat
    BY <1>2, FS_CardinalityType
  <1>4. Depth(c, i) = Cardinality(Obtains(c, i)) - Cardinality(Destroys(c, i))
    BY DEF Depth, Obtains, Destroys
  <1> QED BY <1>2, <1>3, <1>4

\* Only the statements before it count.
LEMMA DepthSame ==
  ASSUME NEW c, NEW d, NEW i \in Nat,
         \A k \in 1..(i - 1) : /\ c[k].op = "get_iterator" <=> d[k].op = "get_iterator"
                               /\ c[k].op = "destroy" <=> d[k].op = "destroy"
  PROVE  Depth(c, i) = Depth(d, i)
  <1>1. Obtains(c, i) = Obtains(d, i) /\ Destroys(c, i) = Destroys(d, i)
    BY DEF Obtains, Destroys
  <1> QED BY <1>1, DepthFacts

\* Statements that neither obtain nor destroy an iterator are at one depth.
LEMMA DepthFlat ==
  ASSUME NEW c, NEW i \in Nat, NEW j \in Nat, i > 0, i <= j,
         \A k \in i..(j - 1) : c[k].op \notin {"get_iterator", "destroy"}
  PROVE  Depth(c, j) = Depth(c, i)
  <1>1. Obtains(c, i) = Obtains(c, j)
    <2>1. \A k : k \in 1..(j - 1) /\ c[k].op = "get_iterator" <=> k \in 1..(i - 1) /\ c[k].op = "get_iterator"
      OBVIOUS
    <2> QED BY <2>1 DEF Obtains
  <1>2. Destroys(c, i) = Destroys(c, j)
    <2>1. \A k : k \in 1..(j - 1) /\ c[k].op = "destroy" <=> k \in 1..(i - 1) /\ c[k].op = "destroy"
      OBVIOUS
    <2> QED BY <2>1 DEF Destroys
  <1> QED BY <1>1, <1>2, DepthFacts

\* One more after an iterator is obtained, one less after it is destroyed.
LEMMA DepthStep ==
  ASSUME NEW c, NEW i \in Nat, i > 0
  PROVE  /\ c[i].op = "get_iterator" => Depth(c, i + 1) = Depth(c, i) + 1
         /\ c[i].op = "destroy" => Depth(c, i + 1) = Depth(c, i) - 1
         /\ c[i].op \notin {"get_iterator", "destroy"} => Depth(c, i + 1) = Depth(c, i)
  <1>1. i \notin Obtains(c, i) /\ i \notin Destroys(c, i) /\ i + 1 \in Nat
    BY DEF Obtains, Destroys
  <1>2. /\ IsFiniteSet(Obtains(c, i)) /\ IsFiniteSet(Destroys(c, i))
        /\ Depth(c, i) = Cardinality(Obtains(c, i)) - Cardinality(Destroys(c, i))
        /\ Cardinality(Obtains(c, i)) \in Nat /\ Cardinality(Destroys(c, i)) \in Nat
    BY DepthFacts
  <1>3. Depth(c, i + 1) = Cardinality(Obtains(c, i + 1)) - Cardinality(Destroys(c, i + 1))
    BY <1>1, DepthFacts
  <1>4. \A k : k \in 1..((i + 1) - 1) <=> k \in 1..(i - 1) \/ k = i
    OBVIOUS
  <1>5. ASSUME c[i].op = "get_iterator"
        PROVE  Depth(c, i + 1) = Depth(c, i) + 1
    <2>1. Obtains(c, i + 1) = Obtains(c, i) \cup {i}
      BY <1>4, <1>5 DEF Obtains
    <2>2. Destroys(c, i + 1) = Destroys(c, i)
      BY <1>4, <1>5 DEF Destroys
    <2>3. Cardinality(Obtains(c, i) \cup {i}) = Cardinality(Obtains(c, i)) + 1
      BY <1>1, <1>2, FS_AddElement
    <2>4. /\ Cardinality(Obtains(c, i + 1)) = Cardinality(Obtains(c, i)) + 1
          /\ Cardinality(Destroys(c, i + 1)) = Cardinality(Destroys(c, i))
      BY <2>1, <2>2, <2>3
    <2> QED BY <1>2, <1>3, <2>4
  <1>6. ASSUME c[i].op = "destroy"
        PROVE  Depth(c, i + 1) = Depth(c, i) - 1
    <2>1. Destroys(c, i + 1) = Destroys(c, i) \cup {i}
      BY <1>4, <1>6 DEF Destroys
    <2>2. Obtains(c, i + 1) = Obtains(c, i)
      BY <1>4, <1>6 DEF Obtains
    <2>3. Cardinality(Destroys(c, i) \cup {i}) = Cardinality(Destroys(c, i)) + 1
      BY <1>1, <1>2, FS_AddElement
    <2>4. /\ Cardinality(Destroys(c, i + 1)) = Cardinality(Destroys(c, i)) + 1
          /\ Cardinality(Obtains(c, i + 1)) = Cardinality(Obtains(c, i))
      BY <2>1, <2>2, <2>3
    <2> QED BY <1>2, <1>3, <2>4
  <1>7. ASSUME c[i].op \notin {"get_iterator", "destroy"}
        PROVE  Depth(c, i + 1) = Depth(c, i)
    <2>1. \A k \in i..((i + 1) - 1) : k = i
      OBVIOUS
    <2>2. i + 1 \in Nat /\ i <= i + 1
      OBVIOUS
    <2> QED BY <1>7, <2>1, <2>2, DepthFlat
  <1> QED BY <1>5, <1>6, <1>7

-----------------------------------------------------------------------------
(* Code.  A test is followed by what is done if it fails, the frame is     *)
(* restored just before the method returns, and jumps stay at their depth. *)

Tests == {"if", "if_temp", "case", "if_exception", "instanceof", "iterate"}
Flat(c) == \A i \in 1..Len(c) : c[i].op \notin {"get_iterator", "destroy"}

Paired(c) ==
  \A i \in 1..Len(c) :
    /\ c[i].op \in Tests => i < Len(c) /\ c[i + 1].op \in Pending \cup {"jump"}
    /\ c[i].op = "restore" => i < Len(c) /\ c[i + 1].op = "return"
    /\ c[i].op = "return" => i > 1 /\ c[i - 1].op = "restore"

Lands(c, j) == j \in 1..(Len(c) + 1) /\ (j <= Len(c) => c[j].op # "return")

Lead(c, i) == c[i].op = "jump" => Lands(c, c[i].to) /\ Depth(c, c[i].to) = Depth(c, i)

WellFormed(c) ==
  /\ IsSeq(c) /\ Paired(c)
  /\ \A i \in 1..Len(c) : Lead(c, i)
  /\ \A i \in 1..(Len(c) + 1) : Depth(c, i) \in Nat

\* A statement of c in the code c \o f.
LEMMA PrefixSame ==
  ASSUME NEW c, IsSeq(c), NEW f, IsSeq(f)
  PROVE  /\ \A i \in 1..(Len(c) + 1) : Depth(c \o f, i) = Depth(c, i)
         /\ Paired(f) => \A j : Lands(c, j) => Lands(c \o f, j)
  <1>1. /\ Len(c) \in Nat /\ Len(f) \in Nat /\ Len(c \o f) = Len(c) + Len(f)
        /\ \A i \in 1..Len(c) : (c \o f)[i] = c[i]
        /\ \A i \in 1..Len(f) : (c \o f)[Len(c) + i] = f[i]
    BY SeqFacts, SeqJoined
  <1>2. ASSUME NEW i \in 1..(Len(c) + 1)
        PROVE  Depth(c \o f, i) = Depth(c, i)
    <2>1. i \in Nat /\ \A k \in 1..(i - 1) : (c \o f)[k] = c[k]
      BY <1>1
    <2> QED BY <2>1, DepthSame, ZenonT(60)
  <1>3. ASSUME Paired(f), NEW j, Lands(c, j)
        PROVE  Lands(c \o f, j)
    <2>1. j \in 1..(Len(c) + 1) /\ j \in 1..(Len(c \o f) + 1)
      BY <1>1, <1>3 DEF Lands
    <2>2. CASE j <= Len(c)
      BY <1>1, <1>3, <2>1, <2>2 DEF Lands
    <2>3. CASE j = Len(c) + 1 /\ j <= Len(c \o f)
      <3>1. 1 \in 1..Len(f) /\ (c \o f)[j] = f[1]
        BY <1>1, <2>3
      <3>2. f[1].op # "return"
        BY <1>3, <3>1 DEF Paired
      <3> QED BY <2>1, <3>1, <3>2 DEF Lands
    <2>4. CASE j > Len(c \o f)
      BY <2>1, <2>4, <1>1 DEF Lands
    <2> QED BY <1>1, <2>1, <2>2, <2>3, <2>4
  <1> QED BY <1>2, <1>3

LEMMA PairedJoined ==
  ASSUME NEW c, IsSeq(c), NEW f, IsSeq(f), Paired(c), Paired(f)
  PROVE  Paired(c \o f)
  <1>1. /\ Len(c) \in Nat /\ Len(f) \in Nat /\ Len(c \o f) = Len(c) + Len(f)
        /\ \A i \in 1..Len(c) : (c \o f)[i] = c[i]
        /\ \A i \in 1..Len(f) : (c \o f)[Len(c) + i] = f[i]
    BY SeqFacts, SeqJoined
  <1> SUFFICES ASSUME NEW i \in 1..Len(c \o f)
               PROVE  /\ (c \o f)[i].op \in Tests =>
                           i < Len(c \o f) /\ (c \o f)[i + 1].op \in Pending \cup {"jump"}
                      /\ (c \o f)[i].op = "restore" =>
                           i < Len(c \o f) /\ (c \o f)[i + 1].op = "return"
                      /\ (c \o f)[i].op = "return" => i > 1 /\ (c \o f)[i - 1].op = "restore"
    BY DEF Paired
  <1>2. CASE i <= Len(c)
    <2>1. i \in 1..Len(c) /\ (c \o f)[i] = c[i]
      BY <1>1, <1>2
    <2>2. i < Len(c) => i + 1 \in 1..Len(c) /\ (c \o f)[i + 1] = c[i + 1]
      BY <1>1, <2>1
    <2>3. i > 1 => i - 1 \in 1..Len(c) /\ (c \o f)[i - 1] = c[i - 1]
      BY <1>1, <2>1
    <2>4. i < Len(c) => i < Len(c \o f)
      BY <1>1, <2>1
    <2> QED BY <2>1, <2>2, <2>3, <2>4 DEF Paired
  <1>3. CASE i > Len(c)
    <2> DEFINE k == i - Len(c)
    <2>1. k \in 1..Len(f) /\ i = Len(c) + k
      BY <1>1, <1>3
    <2> HIDE DEF k
    <2>2. (c \o f)[i] = f[k]
      BY <1>1, <2>1
    <2>3. k < Len(f) => k + 1 \in 1..Len(f) /\ i + 1 = Len(c) + (k + 1) /\ i < Len(c \o f)
      BY <1>1, <2>1
    <2>4. k > 1 => k - 1 \in 1..Len(f) /\ i - 1 = Len(c) + (k - 1) /\ i > 1
      BY <1>1, <2>1
    <2>5. k < Len(f) => (c \o f)[i + 1] = f[k + 1]
      BY <1>1, <2>3
    <2>6. k > 1 => (c \o f)[i - 1] = f[k - 1]
      BY <1>1, <2>4
    <2> QED BY <2>1, <2>2, <2>3, <2>4, <2>5, <2>6 DEF Paired
  <1> QED BY <1>1, <1>2, <1>3

\* Code that is longer by f.
LEMMA WellJoined ==
  ASSUME NEW c, WellFormed(c), NEW f, IsSeq(f), Paired(f),
         \A i \in 1..Len(f) : Lead(c \o f, Len(c) + i),
         \A i \in 1..Len(f) : Depth(c \o f, Len(c) + i + 1) \in Nat
  PROVE  WellFormed(c \o f)
  <1>1. /\ Len(c) \in Nat /\ Len(f) \in Nat /\ Len(c \o f) = Len(c) + Len(f)
        /\ \A i \in 1..Len(c) : (c \o f)[i] = c[i]
        /\ IsSeq(c) /\ IsSeq(c \o f) /\ Paired(c)
    BY SeqFacts, SeqJoined DEF WellFormed
  <1>2. ASSUME NEW i \in 1..Len(c \o f)
        PROVE  Lead(c \o f, i)
    <2>1. CASE i <= Len(c)
      <3>1. i \in 1..Len(c) /\ (c \o f)[i] = c[i] /\ Lead(c, i) /\ i \in 1..(Len(c) + 1)
        BY <1>1, <2>1 DEF WellFormed
      <3>2. ASSUME c[i].op = "jump"
            PROVE  Lands(c \o f, c[i].to) /\ Depth(c \o f, c[i].to) = Depth(c \o f, i)
        <4>1. Lands(c, c[i].to) /\ Depth(c, c[i].to) = Depth(c, i) /\ c[i].to \in 1..(Len(c) + 1)
          BY <3>1, <3>2 DEF Lead, Lands
        <4>2. Lands(c \o f, c[i].to)
          BY <1>1, <4>1, PrefixSame
        <4>3. /\ Depth(c \o f, c[i].to) = Depth(c, c[i].to)
              /\ Depth(c \o f, i) = Depth(c, i)
          BY <1>1, <3>1, <4>1, PrefixSame
        <4> QED BY <4>1, <4>2, <4>3
      <3> QED BY <3>1, <3>2 DEF Lead
    <2>2. CASE i > Len(c)
      <3>1. i - Len(c) \in 1..Len(f) /\ i = Len(c) + (i - Len(c))
        BY <1>1, <2>2
      <3> QED BY <3>1
    <2> QED BY <1>1, <2>1, <2>2
  <1>3. ASSUME NEW i \in 1..(Len(c \o f) + 1)
        PROVE  Depth(c \o f, i) \in Nat
    <2>1. CASE i <= Len(c) + 1
      <3>1. i \in 1..(Len(c) + 1)
        BY <1>1, <2>1
      <3> QED BY <1>1, <3>1, PrefixSame DEF WellFormed
    <2>2. CASE i > Len(c) + 1
      <3>1. (i - 1) - Len(c) \in 1..Len(f) /\ i = Len(c) + ((i - 1) - Len(c)) + 1
        BY <1>1, <2>2
      <3> QED BY <3>1
    <2> QED BY <1>1, <2>1, <2>2
  <1> QED BY <1>1, <1>2, <1>3, PairedJoined DEF WellFormed

\* Flat code is at the depth of the code before it.
LEMMA FlatJoined ==
  ASSUME NEW c, IsSeq(c), NEW f, IsSeq(f), Flat(f)
  PROVE  \A i \in 1..(Len(f) + 1) : Depth(c \o f, Len(c) + i) = Depth(c, Len(c) + 1)
  <1>1. /\ Len(c) \in Nat /\ Len(f) \in Nat /\ Len(c \o f) = Len(c) + Len(f)
        /\ \A i \in 1..Len(f) : (c \o f)[Len(c) + i] = f[i]
    BY SeqFacts, SeqJoined
  <1> SUFFICES ASSUME NEW i \in 1..(Len(f) + 1)
               PROVE  Depth(c \o f, Len(c) + i) = Depth(c, Len(c) + 1)
    OBVIOUS
  <1>2. ASSUME NEW k \in (Len(c) + 1)..((Len(c) + i) - 1)
        PROVE  (c \o f)[k].op \notin {"get_iterator", "destroy"}
    <2>1. k - Len(c) \in 1..Len(f) /\ k = Len(c) + (k - Len(c))
      BY <1>1
    <2> QED BY <1>1, <2>1 DEF Flat
  <1>3. Len(c) + 1 \in Nat /\ Len(c) + i \in Nat /\ Len(c) + 1 > 0 /\ Len(c) + 1 <= Len(c) + i
    BY <1>1
  <1>4. Depth(c \o f, Len(c) + i) = Depth(c \o f, Len(c) + 1)
    BY <1>2, <1>3, DepthFlat
  <1>5. Depth(c \o f, Len(c) + 1) = Depth(c, Len(c) + 1)
    <2>1. Len(c) + 1 \in 1..(Len(c) + 1)
      BY <1>1
    <2> QED BY <2>1, PrefixSame
  <1> QED BY <1>4, <1>5

LEMMA WellJoinedFlat ==
  ASSUME NEW c, WellFormed(c), NEW f, IsSeq(f), Paired(f), Flat(f),
         \A i \in 1..Len(f) : f[i].op = "jump" =>
           /\ Lands(c \o f, f[i].to)
           /\ Depth(c \o f, f[i].to) = Depth(c, Len(c) + 1)
  PROVE  WellFormed(c \o f)
  <1>1. /\ Len(c) \in Nat /\ Len(f) \in Nat /\ IsSeq(c)
        /\ \A i \in 1..Len(f) : (c \o f)[Len(c) + i] = f[i]
    BY SeqFacts, SeqJoined DEF WellFormed
  <1>2. ASSUME NEW i \in 1..Len(f)
        PROVE  Lead(c \o f, Len(c) + i)
    <2>1. i \in 1..(Len(f) + 1)
      BY <1>1
    <2>2. Depth(c \o f, Len(c) + i) = Depth(c, Len(c) + 1)
      BY <1>1, <2>1, FlatJoined
    <2> QED BY <1>1, <2>2 DEF Lead
  <1>3. ASSUME NEW i \in 1..Len(f)
        PROVE  Depth(c \o f, Len(c) + i + 1) \in Nat
    <2>1. i + 1 \in 1..(Len(f) + 1) /\ Len(c) + (i + 1) = Len(c) + i + 1 /\ Len(c) + 1 \in 1..(Len(c) + 1)
      BY <1>1
    <2>2. Depth(c \o f, Len(c) + (i + 1)) = Depth(c, Len(c) + 1)
      BY <1>1, <2>1, FlatJoined
    <2> QED BY <2>1, <2>2 DEF WellFormed
  <1> QED BY <1>2, <1>3, WellJoined

\* A function on 1..n is a sequence.
LEMMA FunctionSeq ==
  ASSUME NEW n \in Nat, NEW d, DOMAIN d = 1..n, d = [i \in 1..n |-> d[i]]
  PROVE  IsSeq(d) /\ Len(d) = n
  <1> DEFINE S == {d[i] : i \in 1..n}
  <1>1. d \in [1..n -> S]
    OBVIOUS
  <1> HIDE DEF S
  <1>2. d \in Seq(S)
    BY <1>1
  <1>3. Len(d) = n
    BY <1>1, <1>2
  <1> QED BY <1>2, <1>3 DEF IsSeq

\* What Resolve does to one statement.
LEMMA ResolveFacts ==
  ASSUME NEW c, IsSeq(c), NEW from \in Nat, NEW ops, NEW n
  PROVE  /\ IsSeq(Resolve(c, from, ops, n)) /\ Len(Resolve(c, from, ops, n)) = Len(c)
         /\ \A i \in 1..Len(c) :
              /\ i > from /\ c[i].op \in ops => Resolve(c, from, ops, n)[i] = Jump(n)
              /\ ~(i > from /\ c[i].op \in ops) => Resolve(c, from, ops, n)[i] = c[i]
  <1> DEFINE d == Resolve(c, from, ops, n)
  <1>1. Len(c) \in Nat /\ DOMAIN c = 1..Len(c)
    BY SeqFacts
  <1>2. d = [i \in 1..Len(c) |-> IF i > from /\ c[i].op \in ops THEN Jump(n) ELSE c[i]]
    BY <1>1 DEF Resolve
  <1>3. DOMAIN d = 1..Len(c) /\ d = [i \in 1..Len(c) |-> d[i]]
    BY <1>2
  <1>4. IsSeq(d) /\ Len(d) = Len(c)
    <2> HIDE DEF d
    <2> QED BY <1>1, <1>3, FunctionSeq
  <1> QED BY <1>2, <1>4

LEMMA WellResolved ==
  ASSUME NEW c, WellFormed(c), NEW from \in Nat, NEW ops, ops \subseteq Pending,
         NEW n, Lands(c, n),
         \A i \in 1..Len(c) : i > from /\ c[i].op \in ops => Depth(c, i) = Depth(c, n)
  PROVE  /\ WellFormed(Resolve(c, from, ops, n))
         /\ \A i \in 1..(Len(c) + 1) : Depth(Resolve(c, from, ops, n), i) = Depth(c, i)
         /\ \A j : Lands(c, j) => Lands(Resolve(c, from, ops, n), j)
  <1> DEFINE d == Resolve(c, from, ops, n)
  <1>1. IsSeq(c) /\ Paired(c) /\ Len(c) \in Nat
    BY SeqFacts DEF WellFormed
  <1>2. /\ IsSeq(d) /\ Len(d) = Len(c)
        /\ \A i \in 1..Len(c) :
             /\ i > from /\ c[i].op \in ops => d[i] = Jump(n)
             /\ ~(i > from /\ c[i].op \in ops) => d[i] = c[i]
    BY <1>1, ResolveFacts
  <1> HIDE DEF d
  <1>3. \A i \in 1..Len(c) : c[i].op \in ops => c[i].op \in Pending
    OBVIOUS
  <1>4. ASSUME NEW i \in 1..Len(c)
        PROVE  /\ \/ d[i] = c[i]
                  \/ d[i].op = "jump" /\ d[i].to = n /\ c[i].op \in Pending /\ Depth(c, i) = Depth(c, n)
    BY <1>2, <1>3 DEF Jump
  <1>5. \A i \in 1..(Len(c) + 1) : Depth(d, i) = Depth(c, i)
    <2> SUFFICES ASSUME NEW i \in 1..(Len(c) + 1)
                 PROVE  Depth(d, i) = Depth(c, i)
      OBVIOUS
    <2>1. \A k \in 1..(i - 1) : k \in 1..Len(c)
      BY <1>1
    <2>2. \A k \in 1..(i - 1) : /\ d[k].op = "get_iterator" <=> c[k].op = "get_iterator"
                                /\ d[k].op = "destroy" <=> c[k].op = "destroy"
      BY <1>4, <2>1 DEF Pending
    <2>3. i \in Nat
      BY <1>1
    <2> QED BY <2>2, <2>3, DepthSame
  <1>6. \A j : Lands(c, j) => Lands(d, j)
    BY <1>1, <1>2, <1>4 DEF Lands, Pending
  <1>7. Paired(d)
    <2> SUFFICES ASSUME NEW i \in 1..Len(c)
                 PROVE  /\ d[i].op \in Tests => i < Len(c) /\ d[i + 1].op \in Pending \cup {"jump"}
                        /\ d[i].op = "restore" => i < Len(c) /\ d[i + 1].op = "return"
                        /\ d[i].op = "return" => i > 1 /\ d[i - 1].op = "restore"
      BY <1>2 DEF Paired
    <2>1. CASE d[i] # c[i]
      BY <1>4, <2>1 DEF Tests
    <2>2. CASE d[i] = c[i]
      <3>1. i < Len(c) => i + 1 \in 1..Len(c)
        BY <1>1
      <3>2. i > 1 => i - 1 \in 1..Len(c)
        BY <1>1
      <3>3. c[i].op \in Tests => i < Len(c) /\ c[i + 1].op \in Pending \cup {"jump"}
        BY <1>1 DEF Paired
      <3>4. c[i].op = "restore" => i < Len(c) /\ c[i + 1].op = "return"
        BY <1>1 DEF Paired
      <3>5. c[i].op = "return" => i > 1 /\ c[i - 1].op = "restore"
        BY <1>1 DEF Paired
      <3>6. i < Len(c) => \/ d[i + 1] = c[i + 1]
                          \/ d[i + 1].op = "jump" /\ c[i + 1].op \in Pending
        BY <1>4, <3>1
      <3>7. i > 1 => \/ d[i - 1] = c[i - 1]
                     \/ c[i - 1].op \in Pending
        BY <1>4, <3>2
      <3>8. d[i].op \in Tests => i < Len(c) /\ d[i + 1].op \in Pending \cup {"jump"}
        BY <2>2, <3>3, <3>6
      <3>9. d[i].op = "restore" => i < Len(c) /\ d[i + 1].op = "return"
        BY <2>2, <3>4, <3>6 DEF Pending
      <3>10. d[i].op = "return" => i > 1 /\ d[i - 1].op = "restore"
        BY <2>2, <3>5, <3>7 DEF Pending
      <3> QED BY <3>8, <3>9, <3>10
    <2> QED BY <2>1, <2>2
  <1>8. ASSUME NEW i \in 1..Len(c)
        PROVE  Lead(d, i)
    <2> SUFFICES ASSUME d[i].op = "jump"
                 PROVE  Lands(d, d[i].to) /\ Depth(d, d[i].to) = Depth(d, i)
      BY DEF Lead
    <2>1. Lands(c, d[i].to) /\ Depth(c, d[i].to) = Depth(c, i)
      <3>1. CASE d[i] = c[i]
        BY <3>1 DEF WellFormed, Lead
      <3>2. CASE d[i] # c[i]
        BY <1>4, <3>2
      <3> QED BY <3>1, <3>2
    <2>2. d[i].to \in 1..(Len(c) + 1) /\ i \in 1..(Len(c) + 1)
      BY <1>1, <2>1 DEF Lands
    <2> QED BY <1>5, <1>6, <2>1, <2>2
  <1>9. WellFormed(d)
    BY <1>1, <1>2, <1>5, <1>7, <1>8 DEF WellFormed
  <1> QED BY <1>5, <1>6, <1>9 DEF d

-----------------------------------------------------------------------------
(* Open statements.  A loop over an iterator is one deeper than what it is *)
(* in; a pending statement is as deep as the innermost of the statements   *)
(* it may belong to.                                                       *)

Resolves(s, op) ==
  \/ op = "next" /\ s.kind # "method"
  \/ op = "end" /\ s.kind \in {"if", "try"}
  \/ op \in {"break", "continue"} /\ s.kind \in LoopKinds \cup {"switch"}

Placed(c, w) ==
  \A k \in 1..Len(w) :
    /\ w[k].from \in Nat /\ w[k].from < w[k].again /\ Lands(c, w[k].again)
    /\ w[k].s.kind = "method" <=> k = 1

Levels(c, w) ==
  /\ \A k \in 2..Len(w) : Depth(c, w[k].again) = IF OverIterator(w[k].s)
                                                  THEN Depth(c, w[k - 1].again) + 1
                                                  ELSE Depth(c, w[k - 1].again)
  /\ \A k \in 1..Len(w), j \in 1..Len(w) :
       k <= j /\ (\A l \in (k + 1)..j : ~OverIterator(w[l].s)) =>
         Depth(c, w[j].again) = Depth(c, w[k].again)

\* Statement i of c is op, and of the open statements k resolves it.
Owner(c, w, i, k) ==
  /\ c[i].op \in Pending /\ Resolves(w[k].s, c[i].op) /\ w[k].from < i
  /\ \A l \in (k + 1)..Len(w) : Resolves(w[l].s, c[i].op) => i <= w[l].from

Owners(c, w) ==
  \A i \in 1..Len(c), k \in 1..Len(w) :
    Owner(c, w, i, k) => Depth(c, i) = Depth(c, w[k].again)

Stack(c, w) ==
  IsSeq(w) /\ Len(w) > 0 /\ Placed(c, w) /\ Levels(c, w) /\ Owners(c, w)

\* The end of the code is where the innermost statement began.
AtLevel(c, w) == Depth(c, Len(c) + 1) = Depth(c, w[Len(w)].again)

\* A statement that cannot resolve a break is not a loop.
LEMMA NoLoop ==
  ASSUME NEW s, NEW op \in {"break", "continue"}, ~Resolves(s, op)
  PROVE  ~OverIterator(s)
  BY DEF Resolves, OverIterator, LoopKinds

\* Nothing is said of the blocks and parts of the open statements.
LEMMA StackSame ==
  ASSUME NEW c, NEW w, Stack(c, w), NEW v, IsSeq(v), Len(v) = Len(w),
         \A k \in 1..Len(w) : v[k].s = w[k].s /\ v[k].from = w[k].from /\ v[k].again = w[k].again
  PROVE  Stack(c, v) /\ (AtLevel(c, w) => AtLevel(c, v))
  <1>1. Len(w) \in Nat /\ Len(w) > 0
    BY SeqFacts DEF Stack
  <1>2. Placed(c, v)
    BY <1>1 DEF Stack, Placed
  <1>3. Levels(c, v)
    <2>1. \A k \in 2..Len(w) : k \in 1..Len(w) /\ k - 1 \in 1..Len(w)
      BY <1>1
    <2>2. \A k \in 1..Len(w), j \in 1..Len(w) : \A l \in (k + 1)..j : l \in 1..Len(w)
      BY <1>1
    <2>3. ASSUME NEW k \in 2..Len(w)
          PROVE  Depth(c, v[k].again) = IF OverIterator(v[k].s) THEN Depth(c, v[k - 1].again) + 1
                                                                ELSE Depth(c, v[k - 1].again)
      BY <2>1 DEF Stack, Levels
    <2>4. ASSUME NEW k \in 1..Len(w), NEW j \in 1..Len(w), k <= j,
                 \A l \in (k + 1)..j : ~OverIterator(v[l].s)
          PROVE  Depth(c, v[j].again) = Depth(c, v[k].again)
      <3>1. \A l \in (k + 1)..j : ~OverIterator(w[l].s)
        BY <2>2, <2>4
      <3> QED BY <2>4, <3>1 DEF Stack, Levels
    <2> QED BY <2>3, <2>4 DEF Levels
  <1>4. Owners(c, v)
    <2> SUFFICES ASSUME NEW i \in 1..Len(c), NEW k \in 1..Len(w), Owner(c, v, i, k)
                 PROVE  Depth(c, i) = Depth(c, v[k].again)
      BY DEF Owners
    <2>1. \A l \in (k + 1)..Len(w) : l \in 1..Len(w)
      BY <1>1
    <2>2. Owner(c, w, i, k)
      BY <2>1 DEF Owner
    <2> QED BY <2>2 DEF Stack, Owners
  <1>5. AtLevel(c, w) => AtLevel(c, v)
    <2>1. Len(w) \in 1..Len(w)
      BY <1>1
    <2> QED BY <2>1 DEF AtLevel
  <1> QED BY <1>1, <1>2, <1>3, <1>4, <1>5 DEF Stack

\* The innermost statement is closed, and nothing that it resolves is left.
Cleared(c, w) ==
  \A i \in 1..Len(c) :
    c[i].op \in Pending /\ Resolves(w[Len(w)].s, c[i].op) => i <= w[Len(w)].from

LEMMA StackPopped ==
  ASSUME NEW c, NEW w, Stack(c, w), Len(w) > 1, Cleared(c, w)
  PROVE  /\ Stack(c, Front(w))
         /\ Depth(c, w[Len(w)].again) = IF OverIterator(w[Len(w)].s)
              THEN Depth(c, Front(w)[Len(Front(w))].again) + 1
              ELSE Depth(c, Front(w)[Len(Front(w))].again)
  <1> DEFINE v == Front(w)
  <1>1. Len(w) \in Nat /\ IsSeq(w)
    BY SeqFacts DEF Stack
  <1>2. IsSeq(v) /\ Len(v) = Len(w) - 1 /\ \A k \in 1..Len(v) : v[k] = w[k]
    BY <1>1, SeqFront
  <1> HIDE DEF v
  <1>3. \A k \in 1..Len(v) : k \in 1..Len(w)
    BY <1>1, <1>2
  <1>4. Placed(c, v)
    BY <1>2, <1>3 DEF Stack, Placed
  <1>5. Levels(c, v)
    <2>1. \A k \in 2..Len(v) : k \in 1..Len(v) /\ k - 1 \in 1..Len(v) /\ k \in 2..Len(w)
      BY <1>1, <1>2
    <2>2. ASSUME NEW k \in 2..Len(v)
          PROVE  Depth(c, v[k].again) = IF OverIterator(v[k].s) THEN Depth(c, v[k - 1].again) + 1
                                                                ELSE Depth(c, v[k - 1].again)
      BY <1>2, <2>1 DEF Stack, Levels
    <2>3. ASSUME NEW k \in 1..Len(v), NEW j \in 1..Len(v), k <= j,
                 \A l \in (k + 1)..j : ~OverIterator(v[l].s)
          PROVE  Depth(c, v[j].again) = Depth(c, v[k].again)
      <3>1. \A l \in (k + 1)..j : l \in 1..Len(v)
        BY <1>1, <1>2
      <3>2. \A l \in (k + 1)..j : ~OverIterator(w[l].s)
        BY <1>2, <2>3, <3>1
      <3> QED BY <1>2, <1>3, <2>3, <3>2 DEF Stack, Levels
    <2> QED BY <2>2, <2>3 DEF Levels
  <1>6. Owners(c, v)
    <2> SUFFICES ASSUME NEW i \in 1..Len(c), NEW k \in 1..Len(v), Owner(c, v, i, k)
                 PROVE  Depth(c, i) = Depth(c, v[k].again)
      BY DEF Owners
    <2>1. ASSUME NEW l \in (k + 1)..Len(w), l # Len(w)
          PROVE  l \in (k + 1)..Len(v) /\ l \in 1..Len(v)
      <3>1. Len(v) = Len(w) - 1 /\ Len(w) \in Nat
        BY <1>1, <1>2
      <3> QED BY <2>1, <3>1
    <2>2. Owner(c, w, i, k)
      BY <1>2, <2>1 DEF Owner, Cleared
    <2> QED BY <1>2, <1>3, <2>2 DEF Stack, Owners
  <1>7. Len(w) \in 2..Len(w) /\ v[Len(v)] = w[Len(w) - 1]
    BY <1>1, <1>2
  <1>8. Depth(c, w[Len(w)].again) = IF OverIterator(w[Len(w)].s)
          THEN Depth(c, v[Len(v)].again) + 1 ELSE Depth(c, v[Len(v)].again)
    BY <1>7 DEF Stack, Levels
  <1>9. Stack(c, v)
    BY <1>1, <1>2, <1>4, <1>5, <1>6 DEF Stack
  <1> QED BY <1>8, <1>9 DEF v

\* Other code, in which the open statements are at the same depths.
LEMMA StackMoved ==
  ASSUME NEW c, NEW w, Stack(c, w), NEW d, Owners(d, w),
         \A j : Lands(c, j) => Lands(d, j) /\ Depth(d, j) = Depth(c, j)
  PROVE  Stack(d, w)
  <1>1. Len(w) \in Nat
    BY SeqFacts DEF Stack
  <1>2. \A k \in 1..Len(w) : Lands(d, w[k].again) /\ Depth(d, w[k].again) = Depth(c, w[k].again)
    BY DEF Stack, Placed
  <1>3. Placed(d, w)
    BY <1>2 DEF Stack, Placed
  <1>4. \A k \in 2..Len(w) : k \in 1..Len(w) /\ k - 1 \in 1..Len(w)
    BY <1>1
  <1>5. Levels(d, w)
    <2>1. ASSUME NEW k \in 2..Len(w)
          PROVE  Depth(d, w[k].again) = IF OverIterator(w[k].s) THEN Depth(d, w[k - 1].again) + 1
                                                                ELSE Depth(d, w[k - 1].again)
      BY <1>2, <1>4 DEF Stack, Levels
    <2>2. ASSUME NEW k \in 1..Len(w), NEW j \in 1..Len(w), k <= j,
                 \A l \in (k + 1)..j : ~OverIterator(w[l].s)
          PROVE  Depth(d, w[j].again) = Depth(d, w[k].again)
      BY <1>2, <2>2 DEF Stack, Levels
    <2> QED BY <2>1, <2>2 DEF Levels
  <1> QED BY <1>3, <1>5 DEF Stack

\* The compiler prints a fragment of the innermost statement.
LEMMA StackJoined ==
  ASSUME NEW c, WellFormed(c), NEW w, Stack(c, w), AtLevel(c, w),
         NEW f, IsSeq(f), Paired(f), Flat(f),
         \A i \in 1..Len(f) : f[i].op = "jump" =>
           /\ Lands(c \o f, f[i].to)
           /\ Depth(c \o f, f[i].to) = Depth(c, Len(c) + 1),
         \A i \in 1..Len(f) : f[i].op \in {"next", "end"} => Resolves(w[Len(w)].s, f[i].op)
  PROVE  WellFormed(c \o f) /\ Stack(c \o f, w) /\ AtLevel(c \o f, w)
  <1> DEFINE K == Len(w)
  <1>1. /\ Len(c) \in Nat /\ Len(f) \in Nat /\ IsSeq(c) /\ Len(c \o f) = Len(c) + Len(f)
        /\ \A i \in 1..Len(c) : (c \o f)[i] = c[i]
        /\ \A i \in 1..Len(f) : (c \o f)[Len(c) + i] = f[i]
        /\ K \in Nat /\ K > 0
    BY SeqFacts, SeqJoined DEF WellFormed, Stack
  <1>2. WellFormed(c \o f)
    BY WellJoinedFlat
  <1>3. \A i \in 1..(Len(f) + 1) : Depth(c \o f, Len(c) + i) = Depth(c, w[K].again)
    BY <1>1, FlatJoined DEF AtLevel
  <1>4. ASSUME NEW j, Lands(c, j)
        PROVE  Lands(c \o f, j) /\ Depth(c \o f, j) = Depth(c, j)
    <2>1. /\ \A i \in 1..(Len(c) + 1) : Depth(c \o f, i) = Depth(c, i)
          /\ \A i : Lands(c, i) => Lands(c \o f, i)
      BY <1>1, PrefixSame
    <2>2. j \in 1..(Len(c) + 1)
      BY <1>4 DEF Lands
    <2> QED BY <1>4, <2>1, <2>2
  <1>5. \A k \in 1..K : /\ Depth(c \o f, w[k].again) = Depth(c, w[k].again)
                        /\ w[k].from \in Nat /\ w[k].from <= Len(c)
    <2> SUFFICES ASSUME NEW k \in 1..K
                 PROVE  /\ Depth(c \o f, w[k].again) = Depth(c, w[k].again)
                        /\ w[k].from \in Nat /\ w[k].from <= Len(c)
      OBVIOUS
    <2>1. w[k].from \in Nat /\ w[k].from < w[k].again /\ Lands(c, w[k].again)
      BY DEF Stack, Placed
    <2>2. w[k].again \in 1..(Len(c) + 1)
      BY <2>1 DEF Lands
    <2>3. w[k].from <= Len(c)
      BY <1>1, <2>1, <2>2
    <2> QED BY <1>4, <2>1, <2>3
  <1>6. Owners(c \o f, w)
    <2> SUFFICES ASSUME NEW i \in 1..Len(c \o f), NEW k \in 1..K, Owner(c \o f, w, i, k)
                 PROVE  Depth(c \o f, i) = Depth(c, w[k].again)
      BY <1>5 DEF Owners
    <2>1. CASE i <= Len(c)
      <3>1. i \in 1..Len(c) /\ (c \o f)[i] = c[i] /\ i \in 1..(Len(c) + 1)
        BY <1>1, <2>1
      <3>2. Owner(c, w, i, k)
        BY <3>1 DEF Owner
      <3>3. Depth(c \o f, i) = Depth(c, i)
        BY <1>1, <3>1, PrefixSame
      <3> QED BY <3>1, <3>2, <3>3 DEF Stack, Owners
    <2>2. CASE i > Len(c)
      <3> DEFINE t == i - Len(c)
                 op == (c \o f)[i].op
      <3>1. t \in 1..Len(f) /\ t \in 1..(Len(f) + 1) /\ i = Len(c) + t
        BY <1>1, <2>2
      <3>2. Depth(c \o f, i) = Depth(c, w[K].again) /\ op = f[t].op
        BY <1>1, <1>3, <3>1
      <3>3. ASSUME NEW l \in (k + 1)..K
            PROVE  ~Resolves(w[l].s, op)
        <4>1. l \in 1..K
          BY <1>1
        <4>2. i > w[l].from
          BY <1>1, <1>5, <2>2, <4>1
        <4>3. w[l].from \in Nat /\ i \in Nat
          BY <1>1, <1>5, <4>1
        <4>4. ~(i <= w[l].from)
          BY <4>2, <4>3
        <4> QED BY <4>4 DEF Owner
      <3>4. CASE k = K
        BY <3>2, <3>4
      <3>5. CASE k # K
        <4>1. K \in (k + 1)..K /\ K \in 1..K /\ k <= K
          BY <1>1, <3>5
        <4>2. ~Resolves(w[K].s, op)
          BY <3>3, <4>1
        <4>3. op \in {"break", "continue"}
          BY <3>1, <3>2, <4>2 DEF Owner, Pending
        <4>4. \A l \in (k + 1)..K : ~OverIterator(w[l].s)
          BY <3>3, <4>3, NoLoop
        <4>5. Depth(c, w[K].again) = Depth(c, w[k].again)
          BY <4>1, <4>4 DEF Stack, Levels
        <4> QED BY <3>2, <4>5
      <3> QED BY <3>4, <3>5
    <2> QED BY <1>1, <2>1, <2>2
  <1>7. Stack(c \o f, w)
    BY <1>4, <1>6, StackMoved
  <1>8. AtLevel(c \o f, w)
    <2>1. Len(f) + 1 \in 1..(Len(f) + 1) /\ Len(c) + (Len(f) + 1) = Len(c \o f) + 1 /\ K \in 1..K
      BY <1>1
    <2>2. Depth(c \o f, Len(c \o f) + 1) = Depth(c, w[K].again)
      BY <1>3, <2>1
    <2> QED BY <1>5, <2>1, <2>2 DEF AtLevel
  <1> QED BY <1>2, <1>7, <1>8

\* The innermost statement may give some of its pending statements a place to go to.
MayResolve(c, w, ops, n) ==
  /\ WellFormed(c) /\ Stack(c, w) /\ \A op \in ops : op \in Pending /\ Resolves(w[Len(w)].s, op)
  /\ Lands(c, n) /\ Depth(c, n) = Depth(c, w[Len(w)].again)

LEMMA StackResolved ==
  ASSUME NEW c, NEW w, NEW ops, NEW n, MayResolve(c, w, ops, n)
  PROVE  LET d == Resolve(c, w[Len(w)].from, ops, n) IN
         /\ WellFormed(d) /\ Stack(d, w) /\ Len(d) = Len(c) /\ (AtLevel(c, w) => AtLevel(d, w))
         /\ \A i \in 1..(Len(c) + 1) : Depth(d, i) = Depth(c, i)
         /\ \A j : Lands(c, j) => Lands(d, j)
         /\ \A i \in 1..Len(c) :
              /\ d[i].op # "jump" => d[i] = c[i]
              /\ d[i].op \in ops => i <= w[Len(w)].from
              /\ d[i] = c[i] \/ d[i] = Jump(n)
  <1> USE DEF MayResolve
  <1> DEFINE K == Len(w)
             d == Resolve(c, w[K].from, ops, n)
  <1>1. IsSeq(c) /\ Len(c) \in Nat /\ K \in Nat /\ K \in 1..K /\ w[K].from \in Nat
    BY SeqFacts DEF WellFormed, Stack, Placed
  <1>2. ASSUME NEW i \in 1..Len(c), i > w[K].from, c[i].op \in ops
        PROVE  Depth(c, i) = Depth(c, n)
    <2>1. \A l \in (K + 1)..K : FALSE
      BY <1>1
    <2>2. Owner(c, w, i, K)
      BY <1>1, <1>2, <2>1 DEF Owner
    <2> QED BY <1>1, <2>2 DEF Stack, Owners
  <1>3. ops \subseteq Pending
    OBVIOUS
  <1>4. /\ WellFormed(d)
        /\ \A i \in 1..(Len(c) + 1) : Depth(d, i) = Depth(c, i)
        /\ \A j : Lands(c, j) => Lands(d, j)
    BY <1>1, <1>2, <1>3, WellResolved
  <1>5. /\ Len(d) = Len(c)
        /\ \A i \in 1..Len(c) :
             /\ i > w[K].from /\ c[i].op \in ops => d[i] = Jump(n)
             /\ ~(i > w[K].from /\ c[i].op \in ops) => d[i] = c[i]
    BY <1>1, ResolveFacts
  <1> HIDE DEF d
  <1>6. \A i \in 1..Len(c) : /\ d[i].op # "jump" => d[i] = c[i]
                             /\ d[i].op \in ops => i <= w[K].from
                             /\ d[i] = c[i] \/ d[i] = Jump(n)
    BY <1>1, <1>3, <1>5 DEF Jump, Pending
  <1>7. Owners(d, w)
    <2> SUFFICES ASSUME NEW i \in 1..Len(c), NEW k \in 1..K, Owner(d, w, i, k)
                 PROVE  Depth(d, i) = Depth(d, w[k].again)
      BY <1>5 DEF Owners
    <2>1. d[i] = c[i]
      BY <1>6 DEF Owner, Pending
    <2>2. Owner(c, w, i, k)
      BY <2>1 DEF Owner
    <2>3. Depth(c, i) = Depth(c, w[k].again) /\ w[k].again \in 1..(Len(c) + 1) /\ i \in 1..(Len(c) + 1)
      BY <1>1, <2>2 DEF Stack, Owners, Placed, Lands
    <2> QED BY <1>4, <2>3
  <1>8. \A j : Lands(c, j) => Lands(d, j) /\ Depth(d, j) = Depth(c, j)
    BY <1>4 DEF Lands
  <1>9. Stack(d, w)
    BY <1>7, <1>8, StackMoved
  <1>10. AtLevel(c, w) => AtLevel(d, w)
    <2>1. Len(c) + 1 \in 1..(Len(c) + 1) /\ w[K].again \in 1..(Len(c) + 1)
      BY <1>1 DEF Stack, Placed, Lands
    <2> QED BY <1>4, <1>5, <2>1 DEF AtLevel
  <1> QED BY <1>4, <1>5, <1>6, <1>9, <1>10 DEF d

\* One more statement is open, which has printed g.
LEMMA StackPushed ==
  ASSUME NEW c, WellFormed(c), NEW w, Stack(c, w), AtLevel(c, w),
         NEW g, IsSeq(g), Paired(g), WellFormed(c \o g),
         NEW fr, fr.s.kind # "method", fr.from = Len(c), fr.again = Len(c \o g) + 1,
         Depth(c \o g, Len(c \o g) + 1) = IF OverIterator(fr.s) THEN Depth(c, Len(c) + 1) + 1
                                                                ELSE Depth(c, Len(c) + 1),
         \A i \in 1..Len(g) : g[i].op \in Pending =>
           Resolves(fr.s, g[i].op) /\ Depth(c \o g, Len(c) + i) = Depth(c \o g, Len(c \o g) + 1)
  PROVE  Stack(c \o g, Append(w, fr)) /\ AtLevel(c \o g, Append(w, fr))
  <1> DEFINE d == c \o g
             v == Append(w, fr)
             K == Len(w)
  <1>1. /\ Len(c) \in Nat /\ Len(g) \in Nat /\ IsSeq(c) /\ Len(d) = Len(c) + Len(g)
        /\ \A i \in 1..Len(c) : d[i] = c[i]
        /\ \A i \in 1..Len(g) : d[Len(c) + i] = g[i]
        /\ K \in Nat /\ K > 0 /\ IsSeq(w)
    BY SeqFacts, SeqJoined DEF WellFormed, Stack
  <1>2. IsSeq(v) /\ Len(v) = K + 1 /\ v[K + 1] = fr /\ \A k \in 1..K : v[k] = w[k]
    <2>1. v = w \o <<fr>> /\ IsSeq(<<fr>>) /\ Len(<<fr>>) = 1 /\ <<fr>>[1] = fr
      BY <1>1, SeqAppended
    <2>2. 1 \in 1..Len(<<fr>>)
      BY <2>1
    <2> QED BY <1>1, <2>1, <2>2, SeqJoined
  <1>3. ASSUME NEW j, Lands(c, j)
        PROVE  Lands(d, j) /\ Depth(d, j) = Depth(c, j)
    <2>1. /\ \A i \in 1..(Len(c) + 1) : Depth(d, i) = Depth(c, i)
          /\ \A i : Lands(c, i) => Lands(d, i)
      BY <1>1, PrefixSame
    <2>2. j \in 1..(Len(c) + 1)
      BY <1>3 DEF Lands
    <2> QED BY <1>3, <2>1, <2>2
  <1>4. \A i \in 1..Len(c) : Depth(d, i) = Depth(c, i)
    <2>1. \A i \in 1..Len(c) : i \in 1..(Len(c) + 1)
      BY <1>1
    <2> QED BY <1>1, <2>1, PrefixSame
  <1> HIDE DEF d, v
  <1>5. \A k \in 1..K : /\ Depth(d, w[k].again) = Depth(c, w[k].again)
                        /\ w[k].from \in Nat /\ w[k].from <= Len(c)
                        /\ w[k].from < w[k].again /\ Lands(d, w[k].again)
                        /\ (w[k].s.kind = "method" <=> k = 1)
    <2> SUFFICES ASSUME NEW k \in 1..K
                 PROVE  /\ Depth(d, w[k].again) = Depth(c, w[k].again)
                        /\ w[k].from \in Nat /\ w[k].from <= Len(c)
                        /\ w[k].from < w[k].again /\ Lands(d, w[k].again)
                        /\ (w[k].s.kind = "method" <=> k = 1)
      OBVIOUS
    <2>1. /\ w[k].from \in Nat /\ w[k].from < w[k].again /\ Lands(c, w[k].again)
          /\ (w[k].s.kind = "method" <=> k = 1)
      BY DEF Stack, Placed
    <2>2. w[k].again \in 1..(Len(c) + 1)
      BY <2>1 DEF Lands
    <2>3. w[k].from <= Len(c)
      BY <1>1, <2>1, <2>2
    <2> QED BY <1>3, <2>1, <2>3
  <1>6. Depth(c, Len(c) + 1) = Depth(d, w[K].again)
    <2>1. K \in 1..K
      BY <1>1
    <2> QED BY <1>5, <2>1 DEF AtLevel
  <1>7. \A k \in 1..(K + 1) : k \in 1..K \/ k = K + 1
    BY <1>1
  <1>8. Placed(d, v)
    <2>1. fr.from \in Nat /\ fr.from < fr.again /\ Lands(d, fr.again)
      BY <1>1 DEF Lands, d
    <2>2. K + 1 # 1
      BY <1>1
    <2> QED BY <1>2, <1>5, <1>7, <2>1, <2>2 DEF Placed
  <1>9. Levels(d, v)
    <2>1. ASSUME NEW k \in 2..(K + 1)
          PROVE  Depth(d, v[k].again) = IF OverIterator(v[k].s) THEN Depth(d, v[k - 1].again) + 1
                                                                ELSE Depth(d, v[k - 1].again)
      <3>1. CASE k = K + 1
        <4>1. k - 1 = K /\ K \in 1..K
          BY <1>1, <3>1
        <4> QED BY <1>2, <1>6, <3>1, <4>1 DEF d
      <3>2. CASE k # K + 1
        <4>1. k \in 2..K /\ k \in 1..K /\ k - 1 \in 1..K
          BY <1>1, <3>2
        <4> QED BY <1>2, <1>5, <4>1, ZenonT(60) DEF Stack, Levels
      <3> QED BY <3>1, <3>2
    <2>2. ASSUME NEW k \in 1..(K + 1), NEW j \in 1..(K + 1), k <= j,
                 \A l \in (k + 1)..j : ~OverIterator(v[l].s)
          PROVE  Depth(d, v[j].again) = Depth(d, v[k].again)
      <3>1. ASSUME NEW m \in 1..K, k <= m, m <= j
            PROVE  Depth(d, w[m].again) = Depth(d, w[k].again) /\ k \in 1..K
        <4>1. \A l \in (k + 1)..m : l \in (k + 1)..j /\ l \in 1..K
          BY <1>1, <3>1
        <4>2. \A l \in (k + 1)..m : ~OverIterator(w[l].s)
          BY <1>2, <2>2, <4>1
        <4>3. k \in 1..K
          BY <1>1, <3>1
        <4>4. Depth(c, w[m].again) = Depth(c, w[k].again)
          BY <3>1, <4>2, <4>3 DEF Stack, Levels
        <4> QED BY <1>5, <3>1, <4>3, <4>4
      <3>2. CASE j \in 1..K
        <4>1. k \in 1..K
          BY <1>1, <2>2, <3>2
        <4>2. v[j] = w[j] /\ v[k] = w[k]
          BY <1>2, <3>2, <4>1
        <4>3. j <= j
          BY <1>1, <3>2
        <4> QED BY <2>2, <3>1, <3>2, <4>2, <4>3
      <3>3. CASE j = K + 1 /\ k \in 1..K
        <4>1. K + 1 \in (k + 1)..j /\ K \in 1..K /\ k <= K /\ K <= j
          BY <1>1, <3>3
        <4>2. ~OverIterator(fr.s)
          BY <1>2, <2>2, <4>1
        <4>3. Depth(d, fr.again) = Depth(d, w[K].again)
          BY <1>6, <4>2 DEF d
        <4>4. v[k] = w[k] /\ v[j] = fr
          BY <1>2, <3>3
        <4> QED BY <3>1, <4>1, <4>3, <4>4
      <3>4. CASE j = K + 1 /\ k = K + 1
        BY <3>4
      <3> QED BY <1>7, <3>2, <3>3, <3>4
    <2> QED BY <1>2, <2>1, <2>2 DEF Levels
  <1>10. Owners(d, v)
    <2> SUFFICES ASSUME NEW i \in 1..Len(d), NEW k \in 1..(K + 1), Owner(d, v, i, k)
                 PROVE  Depth(d, i) = Depth(d, v[k].again)
      BY <1>2 DEF Owners
    <2>1. CASE i <= Len(c)
      <3>1. i \in 1..Len(c) /\ d[i] = c[i]
        BY <1>1, <2>1
      <3>2. k # K + 1
        BY <1>1, <1>2, <2>1 DEF Owner
      <3>3. k \in 1..K
        BY <1>7, <3>2
      <3>4. \A l \in (k + 1)..K : l \in (k + 1)..(K + 1) /\ l \in 1..K
        BY <1>1, <3>3
      <3>5. Owner(c, w, i, k)
        BY <1>2, <3>1, <3>3, <3>4 DEF Owner
      <3>6. Depth(c, i) = Depth(c, w[k].again)
        BY <3>1, <3>3, <3>5 DEF Stack, Owners
      <3> QED BY <1>2, <1>4, <1>5, <3>1, <3>3, <3>6
    <2>2. CASE i > Len(c)
      <3> DEFINE t == i - Len(c)
      <3>1. t \in 1..Len(g) /\ i = Len(c) + t
        BY <1>1, <2>2
      <3>2. g[t].op \in Pending /\ d[i] = g[t]
        BY <1>1, <3>1 DEF Owner
      <3>3. Resolves(fr.s, d[i].op) /\ Depth(d, i) = Depth(d, fr.again)
        BY <3>1, <3>2 DEF d
      <3>4. k = K + 1
        <4>1. SUFFICES ASSUME k \in 1..K PROVE FALSE
          BY <1>7
        <4>2. K + 1 \in (k + 1)..(K + 1)
          BY <1>1, <4>1
        <4>3. i <= v[K + 1].from
          BY <1>2, <3>3, <4>2 DEF Owner
        <4> QED BY <1>1, <1>2, <2>2, <4>3
      <3> QED BY <1>2, <3>3, <3>4
    <2> QED BY <1>1, <2>1, <2>2
  <1>11. Stack(d, v)
    BY <1>1, <1>2, <1>8, <1>9, <1>10 DEF Stack
  <1>12. AtLevel(d, v)
    BY <1>2 DEF AtLevel, d
  <1> QED BY <1>11, <1>12 DEF d, v

-----------------------------------------------------------------------------
(* What the compilers print at once.  Of the pending statements it has     *)
(* those of ops only, and it goes to the ends of the first n try blocks.   *)

Sends(c, n) ==
  \A i \in 1..Len(c) : /\ c[i].op = "goto" => c[i].n \in 1..n
                       /\ c[i].op = "check" => c[i].n \in 0..n

Fragment(f, ops, n) ==
  /\ IsSeq(f) /\ Paired(f) /\ Flat(f) /\ Sends(f, n)
  /\ \A i \in 1..Len(f) : f[i].op # "jump" /\ (f[i].op \in Pending => f[i].op \in ops)

LEMMA FragmentJoined ==
  ASSUME NEW f, NEW g, NEW ops, NEW n, Fragment(f, ops, n), Fragment(g, ops, n)
  PROVE  Fragment(f \o g, ops, n)
  <1>1. /\ Len(f) \in Nat /\ Len(g) \in Nat /\ IsSeq(f) /\ IsSeq(g)
        /\ IsSeq(f \o g) /\ Len(f \o g) = Len(f) + Len(g)
        /\ \A i \in 1..Len(f) : (f \o g)[i] = f[i]
        /\ \A i \in 1..Len(g) : (f \o g)[Len(f) + i] = g[i]
    BY SeqFacts, SeqJoined DEF Fragment
  <1>2. ASSUME NEW i \in 1..Len(f \o g)
        PROVE  \/ i \in 1..Len(f) /\ (f \o g)[i] = f[i]
               \/ \E k \in 1..Len(g) : (f \o g)[i] = g[k]
    <2>1. i \in 1..Len(f) \/ (i - Len(f) \in 1..Len(g) /\ i = Len(f) + (i - Len(f)))
      BY <1>1
    <2> QED BY <1>1, <2>1
  <1>3. Paired(f \o g)
    BY <1>1, PairedJoined DEF Fragment
  <1> QED BY <1>1, <1>2, <1>3, ZenonT(60) DEF Fragment, Flat, Sends

LEMMA FragmentEmpty ==
  ASSUME NEW ops, NEW n
  PROVE  Fragment(<< >>, ops, n)
  <1>1. << >> \in Seq({}) /\ Len(<< >>) = 0
    OBVIOUS
  <1>2. 1..0 = {}
    OBVIOUS
  <1> QED BY <1>1, <1>2 DEF Fragment, Paired, Flat, Sends, IsSeq

\* One statement.
Plain(e, ops, n) ==
  /\ e.op \notin Tests \cup {"restore", "return", "get_iterator", "destroy", "jump"}
  /\ e.op \in Pending => e.op \in ops
  /\ e.op = "goto" => e.n \in 1..n
  /\ e.op = "check" => e.n \in 0..n

LEMMA FragmentOne ==
  ASSUME NEW e, NEW ops, NEW n, Plain(e, ops, n)
  PROVE  Fragment(<<e>>, ops, n)
  <1>1. <<e>> \in Seq({e}) /\ Len(<<e>>) = 1 /\ <<e>>[1] = e
    OBVIOUS
  <1>2. \A i \in 1..1 : i = 1
    OBVIOUS
  <1> QED BY <1>1, <1>2 DEF Fragment, Paired, Flat, Sends, IsSeq, Plain

\* A test, with what is done if it fails.
LEMMA FragmentTest ==
  ASSUME NEW e, NEW m, NEW ops, NEW n, e.op \in Tests, m.op \in ops, m.op \in Pending
  PROVE  Fragment(<<e, m>>, ops, n)
  <1>1. /\ <<e, m>> \in Seq({e, m}) /\ Len(<<e, m>>) = 2 /\ <<e, m>>[1] = e /\ <<e, m>>[2] = m
    OBVIOUS
  <1>2. \A i \in 1..2 : i = 1 \/ i = 2
    OBVIOUS
  <1>3. /\ e.op \notin Pending \cup {"restore", "return", "get_iterator", "destroy", "jump", "goto", "check"}
        /\ m.op \notin Tests \cup {"restore", "return", "get_iterator", "destroy", "jump", "goto", "check"}
    BY DEF Tests, Pending
  <1>4. Paired(<<e, m>>)
    <2>1. 1 + 1 = 2 /\ 1 < 2
      OBVIOUS
    <2> QED BY <1>1, <1>2, <1>3, <2>1 DEF Paired
  <1> QED BY <1>1, <1>2, <1>3, <1>4 DEF Fragment, Flat, Sends, IsSeq

LEMMA FragmentReturn ==
  ASSUME NEW ops, NEW n
  PROVE  Fragment(CompileReturn, ops, n)
  <1> DEFINE r == Op("restore")
             t == Op("return")
  <1>1. /\ <<r, t>> \in Seq({r, t}) /\ Len(<<r, t>>) = 2 /\ <<r, t>>[1] = r /\ <<r, t>>[2] = t
        /\ r.op = "restore" /\ t.op = "return" /\ CompileReturn = <<r, t>>
    BY DEF Op, CompileReturn
  <1> HIDE DEF r, t
  <1>2. \A i \in 1..2 : i = 1 \/ i = 2
    OBVIOUS
  <1>3. Paired(<<r, t>>)
    <2>1. 1 + 1 = 2 /\ 1 < 2 /\ 2 - 1 = 1 /\ 2 > 1
      OBVIOUS
    <2> QED BY <1>1, <1>2, <2>1 DEF Paired, Tests
  <1>4. Fragment(<<r, t>>, ops, n)
    BY <1>1, <1>2, <1>3 DEF Fragment, Flat, Sends, IsSeq, Pending
  <1> QED BY <1>1, <1>4

\* An open statement, and the number of try statements met.
Context(n) == insideTryCatch \in Int /\ n \in Nat /\ currentTryCatch = n /\ (insideTryCatch > 0 => n > 0)

LEMMA FragmentCheck ==
  ASSUME NEW n, Context(n), NEW ops
  PROVE  Fragment(CheckStatus, ops, n)
  <1> DEFINE e == [op |-> "check", n |-> IF insideTryCatch > 0 THEN currentTryCatch ELSE 0]
  <1>1. Plain(e, ops, n)
    BY DEF Plain, Context, Tests, Pending
  <1> HIDE DEF e
  <1>2. Fragment(<<e>>, ops, n)
    BY <1>1, FragmentOne
  <1> QED BY <1>2 DEF CheckStatus, e

LEMMA FragmentBefore ==
  ASSUME NEW n, Context(n), NEW ops, NEW cond
  PROVE  Fragment(Before(cond), ops, n)
  <1>1. Plain(EvalOp(cond.id), ops, n)
    BY DEF Plain, EvalOp, Tests, Pending
  <1>2. Fragment(<<EvalOp(cond.id)>> \o CheckStatus, ops, n)
    BY <1>1, FragmentOne, FragmentCheck, FragmentJoined
  <1> QED BY <1>2, FragmentEmpty DEF Before

LEMMA FragmentCompiled ==
  ASSUME NEW n, Context(n), NEW s, s.kind \in Unnested
  PROVE  Fragment(Compiled(s), {s.kind}, n)
  <1>1. ASSUME NEW e, Plain(e, {s.kind}, n)
        PROVE  Fragment(<<e>>, {s.kind}, n)
    BY <1>1, FragmentOne
  <1>2. CASE s.kind = "echo"
    <2>1. Plain(EchoOp(s.id), {s.kind}, n)
      BY DEF Plain, EchoOp, Tests, Pending
    <2> QED BY <1>1, <1>2, <2>1 DEF Compiled
  <1>3. CASE s.kind = "call"
    <2>1. Plain(CallOp(s.id), {s.kind}, n)
      BY DEF Plain, CallOp, Tests, Pending
    <2>2. Fragment(<<CallOp(s.id)>> \o CheckStatus, {s.kind}, n)
      BY <1>1, <2>1, FragmentCheck, FragmentJoined
    <2> QED BY <1>3, <2>2 DEF Compiled
  <1>4. CASE s.kind = "return"
    BY <1>4, FragmentReturn DEF Compiled
  <1>5. CASE s.kind = "throw"
    <2> DEFINE e == [op |-> "throw", class |-> s.class]
    <2>1. Plain(e, {s.kind}, n)
      BY DEF Plain, Tests, Pending
    <2>2. insideTryCatch > 0 => Plain(Goto(currentTryCatch), {s.kind}, n)
      BY DEF Plain, Goto, Tests, Pending, Context
    <2> HIDE DEF e
    <2>3. insideTryCatch > 0 => Fragment(<<e>> \o <<Goto(currentTryCatch)>>, {s.kind}, n)
      BY <1>1, <2>1, <2>2, FragmentJoined
    <2>4. Fragment(<<e>> \o CompileReturn, {s.kind}, n)
      BY <1>1, <2>1, FragmentReturn, FragmentJoined
    <2>5. Fragment(CompileThrow(s), {s.kind}, n)
      BY <2>3, <2>4 DEF CompileThrow, e
    <2> QED BY <1>5, <2>5 DEF Compiled
  <1>6. CASE s.kind \in {"break", "continue"}
    <2>1. Plain(Op(s.kind), {s.kind}, n)
      BY <1>6 DEF Plain, Op, Tests, Pending
    <2>2. Compiled(s) = <<Op(s.kind)>>
      BY <1>6 DEF Compiled
    <2> QED BY <1>1, <2>1, <2>2
  <1> QED BY <1>2, <1>3, <1>4, <1>5, <1>6 DEF Unnested

\* if (!c) break;
LEMMA FragmentLeave ==
  ASSUME NEW cond, NEW n
  PROVE  Fragment(Leave(cond), {"break"}, n)
  <1>1. IfOp(cond).op \in Tests /\ Op("break").op = "break" /\ "break" \in Pending
    BY DEF IfOp, Op, Tests, Pending
  <1> QED BY <1>1, FragmentTest DEF Leave

LEMMA FragmentBeginning ==
  ASSUME NEW n, Context(n), NEW p
  PROVE  Fragment(Beginning(p), {"next"}, n)
  <1>1. Op("next").op \in {"next"} /\ Op("next").op \in Pending
    BY DEF Op, Pending
  <1>2. ASSUME NEW e, e.op \in Tests
        PROVE  Fragment(<<e, Op("next")>>, {"next"}, n)
    BY <1>1, <1>2, FragmentTest
  <1>3. ASSUME NEW class
        PROVE  Fragment(Catching(class), {"next"}, n)
    <2> DEFINE e == [op |-> "instanceof", class |-> class]
               m == Op("next")
               z == Op("clear")
    <2>1. e.op \in Tests /\ Plain(z, {"next"}, n)
      BY DEF Tests, Plain, Op, Pending
    <2>2. Catching(class) = <<e, m>> \o <<z>>
      BY DEF Catching
    <2>3. Fragment(<<e, m>>, {"next"}, n)
      BY <1>2, <2>1
    <2> HIDE DEF e, m, z
    <2>4. Fragment(<<e, m>> \o <<z>>, {"next"}, n)
      BY <2>1, <2>3, FragmentOne, FragmentJoined
    <2> QED BY <2>2, <2>4
  <1>4. CASE p.as = "before"
    BY <1>4, FragmentBefore DEF Beginning
  <1>5. CASE p.as = "arm"
    <2>1. IfOp(p.of).op \in Tests
      BY DEF IfOp, Tests
    <2> QED BY <1>2, <1>5, <2>1 DEF Beginning
  <1>6. CASE p.as = "case"
    <2> DEFINE e == [op |-> "case", id |-> p.of.id, values |-> p.of.values]
    <2>1. e.op \in Tests
      BY DEF Tests
    <2>2. Fragment(<<e, Op("next")>>, {"next"}, n)
      BY <1>2, <2>1
    <2> QED BY <1>6, <2>2 DEF Beginning
  <1>7. CASE p.as = "catch"
    <2>1. Plain(Op("fetch"), {"next"}, n)
      BY DEF Plain, Op, Tests, Pending
    <2>2. Fragment(<<Op("fetch")>> \o Catching(Head(p.of)), {"next"}, n)
      BY <1>3, <2>1, FragmentOne, FragmentJoined
    <2> QED BY <1>7, <2>2 DEF Beginning
  <1>8. CASE p.as = "class"
    BY <1>3, <1>8 DEF Beginning
  <1>9. CASE p.as \notin {"before", "arm", "case", "catch", "class"}
    <2>1. Beginning(p) = << >>
      BY <1>9 DEF Beginning
    <2> QED BY <2>1, FragmentEmpty
  <1> QED BY <1>4, <1>5, <1>6, <1>7, <1>8, <1>9

LEMMA FragmentEnding ==
  ASSUME NEW f, NEW n
  PROVE  /\ Fragment(Ending(f), {"end"}, n)
         /\ f.as \notin {"arm", "try"} => Ending(f) = << >>
         /\ f.as = "try" => \E i \in 1..Len(Ending(f)) : Ending(f)[i] = Label(f.label)
  <1>1. /\ Plain(Op("end"), {"end"}, n) /\ Plain(Op("clear"), {"end"}, n)
        /\ Plain(Label(f.label), {"end"}, n)
        /\ Op("if_exception").op \in Tests /\ Op("end").op \in {"end"} /\ Op("end").op \in Pending
    BY DEF Plain, Op, Label, Tests, Pending
  <1>2. /\ Fragment(<<Op("end")>>, {"end"}, n) /\ Fragment(<<Label(f.label)>>, {"end"}, n)
        /\ Fragment(<<Op("clear")>>, {"end"}, n)
        /\ Fragment(<<Op("if_exception"), Op("end")>>, {"end"}, n)
    BY <1>1, FragmentOne, FragmentTest
  <1>3. CASE f.as = "arm" /\ Falls
    BY <1>2, <1>3 DEF Ending
  <1>4. CASE f.as = "try"
    <2> DEFINE g == IF f.s.catches = << >> THEN <<Op("clear")>> ELSE <<Op("if_exception"), Op("end")>>
    <2>1. Fragment(g, {"end"}, n)
      BY <1>2
    <2>2. Ending(f) = <<Label(f.label)>> \o g
      BY <1>4 DEF Ending
    <2> HIDE DEF g
    <2>3. Fragment(Ending(f), {"end"}, n)
      BY <1>2, <2>1, <2>2, FragmentJoined
    <2>4. IsSeq(<<Label(f.label)>>) /\ IsSeq(g) /\ Len(g) \in Nat
      BY <1>2, <2>1, SeqFacts DEF Fragment
    <2>5. 1 \in 1..Len(Ending(f)) /\ Ending(f)[1] = Label(f.label)
      <3>1. Len(<<Label(f.label)>>) = 1 /\ <<Label(f.label)>>[1] = Label(f.label)
        OBVIOUS
      <3> QED BY <2>2, <2>4, <3>1, SeqJoined
    <2> QED BY <1>4, <2>3, <2>5
  <1>5. CASE ~(f.as = "arm" /\ Falls) /\ f.as # "try"
    <2>1. Ending(f) = << >>
      BY <1>5 DEF Ending
    <2> QED BY <1>5, <2>1, FragmentEmpty
  <1> QED BY <1>3, <1>4, <1>5

-----------------------------------------------------------------------------
(* What happens to the code: pending statements become jumps, and others   *)
(* are printed after it, of which those of ops may be pending.             *)

Grows(c, d, ops, n) ==
  /\ Len(c) <= Len(d)
  /\ \A i \in 1..Len(c) : d[i] = c[i] \/ (c[i].op \in Pending /\ d[i].op = "jump")
  /\ \A i \in 1..Len(d) : i > Len(c) =>
       /\ d[i].op \in Pending => d[i].op \in ops
       /\ d[i].op = "goto" => d[i].n \in 1..n
       /\ d[i].op = "check" => d[i].n \in 0..n

LEMMA GrowsJoined ==
  ASSUME NEW c, IsSeq(c), NEW f, IsSeq(f), NEW ops, NEW n, Sends(f, n),
         \A i \in 1..Len(f) : f[i].op \in Pending => f[i].op \in ops
  PROVE  Grows(c, c \o f, ops, n)
  <1>1. /\ Len(c) \in Nat /\ Len(f) \in Nat /\ Len(c \o f) = Len(c) + Len(f)
        /\ \A i \in 1..Len(c) : (c \o f)[i] = c[i]
        /\ \A i \in 1..Len(c \o f) : i > Len(c) => i - Len(c) \in 1..Len(f) /\ (c \o f)[i] = f[i - Len(c)]
    BY SeqFacts, SeqJoined
  <1>2. Len(c) <= Len(c \o f)
    BY <1>1
  <1>3. ASSUME NEW i \in 1..Len(c \o f), i > Len(c)
        PROVE  /\ (c \o f)[i].op \in Pending => (c \o f)[i].op \in ops
               /\ (c \o f)[i].op = "goto" => (c \o f)[i].n \in 1..n
               /\ (c \o f)[i].op = "check" => (c \o f)[i].n \in 0..n
    <2>1. PICK k \in 1..Len(f) : (c \o f)[i] = f[k]
      BY <1>1, <1>3
    <2> QED BY <2>1 DEF Sends
  <1> QED BY <1>1, <1>2, <1>3 DEF Grows

LEMMA GrowsResolved ==
  ASSUME NEW c, IsSeq(c), NEW from \in Nat, NEW some, some \subseteq Pending, NEW to, NEW ops, NEW n
  PROVE  Grows(c, Resolve(c, from, some, to), ops, n)
  <1> DEFINE d == Resolve(c, from, some, to)
  <1>1. /\ Len(c) \in Nat /\ Len(d) = Len(c)
        /\ \A i \in 1..Len(c) :
             /\ i > from /\ c[i].op \in some => d[i] = Jump(to)
             /\ ~(i > from /\ c[i].op \in some) => d[i] = c[i]
    BY SeqFacts, ResolveFacts
  <1> HIDE DEF d
  <1>2. \A i \in 1..Len(d) : ~(i > Len(c))
    BY <1>1
  <1>3. \A i \in 1..Len(c) : d[i] = c[i] \/ (c[i].op \in Pending /\ d[i].op = "jump")
    BY <1>1 DEF Jump
  <1>4. Grows(c, d, ops, n)
    BY <1>1, <1>2, <1>3 DEF Grows
  <1> QED BY <1>4 DEF d

LEMMA GrowsOn ==
  ASSUME NEW c, NEW d, NEW e, IsSeq(c), IsSeq(d), IsSeq(e), NEW ops, NEW n,
         Grows(c, d, ops, n), Grows(d, e, ops, n)
  PROVE  Grows(c, e, ops, n)
  <1>1. Len(c) \in Nat /\ Len(d) \in Nat /\ Len(e) \in Nat /\ Len(c) <= Len(d) /\ Len(d) <= Len(e)
    BY SeqFacts DEF Grows
  <1>2. \A i \in 1..Len(c) : i \in 1..Len(d)
    BY <1>1
  <1>3. \A i \in 1..Len(c) : e[i] = c[i] \/ (c[i].op \in Pending /\ e[i].op = "jump")
    <2> SUFFICES ASSUME NEW i \in 1..Len(c)
                 PROVE  e[i] = c[i] \/ (c[i].op \in Pending /\ e[i].op = "jump")
      OBVIOUS
    <2>1. d[i] = c[i] \/ (c[i].op \in Pending /\ d[i].op = "jump")
      BY DEF Grows
    <2>2. e[i] = d[i] \/ (d[i].op \in Pending /\ e[i].op = "jump")
      BY <1>2 DEF Grows
    <2> QED BY <2>1, <2>2 DEF Pending
  <1>4. ASSUME NEW i \in 1..Len(e), i > Len(c)
        PROVE  /\ e[i].op \in Pending => e[i].op \in ops
               /\ e[i].op = "goto" => e[i].n \in 1..n
               /\ e[i].op = "check" => e[i].n \in 0..n
    <2>1. CASE i > Len(d)
      BY <2>1 DEF Grows
    <2>2. CASE i <= Len(d)
      <3>1. i \in 1..Len(d)
        BY <1>1, <2>2
      <3>2. e[i] = d[i] \/ e[i].op = "jump"
        BY <3>1 DEF Grows
      <3>3. CASE e[i] = d[i]
        BY <1>4, <3>1, <3>3 DEF Grows
      <3>4. CASE e[i].op = "jump"
        BY <3>4 DEF Pending
      <3> QED BY <3>2, <3>3, <3>4
    <2> QED BY <1>1, <2>1, <2>2
  <1> QED BY <1>1, <1>3, <1>4 DEF Grows

LEMMA GrowsLabels ==
  ASSUME NEW c, NEW d, IsSeq(c), IsSeq(d), NEW ops, NEW n, Grows(c, d, ops, n)
  PROVE  \A l : (\E i \in 1..Len(c) : c[i] = Label(l)) => \E i \in 1..Len(d) : d[i] = Label(l)
  <1>1. Len(c) \in Nat /\ Len(d) \in Nat /\ Len(c) <= Len(d)
    BY SeqFacts DEF Grows
  <1>2. \A i \in 1..Len(c) : i \in 1..Len(d)
    BY <1>1
  <1>3. \A l : Label(l).op \notin Pending
    BY DEF Label, Pending
  <1>4. ASSUME NEW l, NEW i \in 1..Len(c), c[i] = Label(l)
        PROVE  d[i] = Label(l)
    BY <1>3, <1>4 DEF Grows
  <1> QED BY <1>2, <1>4

LEMMA GrowsSends ==
  ASSUME NEW c, NEW d, IsSeq(c), IsSeq(d), NEW ops, NEW n \in Nat, NEW m \in Nat,
         Grows(c, d, ops, n), Sends(c, m), m <= n
  PROVE  Sends(d, n)
  <1>1. Len(c) \in Nat /\ Len(d) \in Nat /\ Len(c) <= Len(d)
    BY SeqFacts DEF Grows
  <1>2. \A i \in 1..Len(c) : i \in 1..Len(d)
    BY <1>1
  <1>3. \A k : (k \in 1..m => k \in 1..n) /\ (k \in 0..m => k \in 0..n)
    OBVIOUS
  <1>4. ASSUME NEW i \in 1..Len(d)
        PROVE  /\ d[i].op = "goto" => d[i].n \in 1..n
               /\ d[i].op = "check" => d[i].n \in 0..n
    <2>1. CASE i > Len(c)
      BY <2>1 DEF Grows
    <2>2. CASE i <= Len(c)
      <3>1. i \in 1..Len(c)
        BY <1>1, <2>2
      <3>2. d[i] = c[i] \/ d[i].op = "jump"
        BY <3>1 DEF Grows
      <3> QED BY <1>3, <3>1, <3>2 DEF Sends
    <2> QED BY <1>1, <2>1, <2>2
  <1> QED BY <1>4 DEF Sends

-----------------------------------------------------------------------------
(* The stack of the open statements: its records, and where the pending    *)
(* statements and the failed calls of the code will go to.                 *)

\* What p can be as a part of s.
PartOf(p, s) ==
  \/ /\ p.as = "before" /\ p.stmts = << >>
     /\ \/ s.kind = "if" /\ \E i \in 1..Len(s.arms) : p.of = s.arms[i].cond
        \/ s.kind = "do-while" /\ p.of = s.cond
  \/ /\ s.kind = "if" /\ p.as \in {"arm", "none"} /\ (p.as = "none" => p.stmts = << >>)
     /\ \E i \in 1..Len(s.arms) : p.stmts = s.arms[i].body
  \/ s.kind = "if" /\ p.as = "else" /\ p.stmts = s.else
  \/ /\ s.kind = "switch" /\ p.as \in {"default", "none", "case"}
     /\ p.stmts = << >> \/ \E i \in 1..Len(s.clauses) : p.stmts = s.clauses[i].body
  \/ /\ s.kind = "try" /\ p.as \in {"catch", "class"}
     /\ \E i \in 1..Len(s.catches) : p.stmts = s.catches[i].body

IsParts(parts, s) ==
  /\ IsSeq(parts)
  /\ \A i \in 1..Len(parts) :
       /\ parts[i].stmts \in StatementsBlock /\ PartOf(parts[i], s)
       /\ s.kind = "if" => (parts[i].as = "else" <=> i = Len(parts))

IsFrame(f) ==
  /\ DOMAIN f = {"s", "label", "from", "again", "as", "block", "parts"}
  /\ f.block \in StatementsBlock /\ IsParts(f.parts, f.s)
  /\ f.as = "arm" => f.s.kind = "if"
  /\ f.as = "try" => f.s.kind = "try"

Typed(w) ==
  /\ IsSeq(w) /\ Len(w) > 0
  /\ \A k \in 1..Len(w) :
       /\ IsFrame(w[k])
       /\ k = 1 => w[k].s.kind = "method" /\ w[k].parts = << >> /\ w[k].as = "body"
       /\ k # 1 => w[k].s \in Statements /\ w[k].s.kind \notin Unnested

Homes(c, w) ==
  \A i \in 1..Len(c) :
    c[i].op \in Pending => \E k \in 1..Len(w) : Resolves(w[k].s, c[i].op) /\ w[k].from < i

\* The end of every try block met is in the code, or is going to be.
Labels(c, w, n) ==
  /\ n \in Nat
  /\ \A m \in 1..n : \/ \E i \in 1..Len(c) : c[i] = Label(m)
                     \/ \E k \in 1..Len(w) : w[k].as = "try" /\ w[k].label = m

\* The last of the open statements is replaced.
LEMMA LastReplaced ==
  ASSUME NEW w, IsSeq(w), Len(w) > 0, NEW f
  PROVE  LET v == [w EXCEPT ![Len(w)] = f] IN
         /\ IsSeq(v) /\ Len(v) = Len(w) /\ v[Len(w)] = f
         /\ \A k \in 1..Len(w) : k # Len(w) => v[k] = w[k]
  <1>1. PICK S : w \in Seq(S)
    BY DEF IsSeq
  <1>2. w \in Seq(S \cup {f}) /\ Len(w) \in 1..Len(w)
    BY <1>1
  <1> DEFINE v == [w EXCEPT ![Len(w)] = f]
  <1>3. v \in Seq(S \cup {f})
    BY <1>2
  <1>4. Len(v) = Len(w) /\ v[Len(w)] = f /\ \A k \in 1..Len(w) : k # Len(w) => v[k] = w[k]
    BY <1>2
  <1> QED BY <1>3, <1>4 DEF IsSeq

LEMMA LastPushed ==
  ASSUME NEW w, IsSeq(w), NEW f
  PROVE  /\ IsSeq(Append(w, f)) /\ Len(Append(w, f)) = Len(w) + 1 /\ Append(w, f)[Len(w) + 1] = f
         /\ \A k \in 1..Len(w) : Append(w, f)[k] = w[k]
  <1>1. PICK S : w \in Seq(S)
    BY DEF IsSeq
  <1>2. w \in Seq(S \cup {f}) /\ f \in S \cup {f}
    BY <1>1
  <1>3. Append(w, f) \in Seq(S \cup {f})
    BY <1>2
  <1> QED BY <1>2, <1>3 DEF IsSeq

LEMMA BlockFacts ==
  ASSUME NEW b \in StatementsBlock
  PROVE  b # << >> => Head(b) \in Statements /\ Tail(b) \in StatementsBlock
  BY DEF StatementsBlock

LEMMA EmptyBlock == << >> \in StatementsBlock
  BY DEF StatementsBlock

\* One block less, or one more, of the statements after the first.
LEMMA PartsRest ==
  ASSUME NEW parts, NEW s, IsParts(parts, s), parts # << >>
  PROVE  /\ IsParts(Rest(parts), s)
         /\ Head(parts).stmts \in StatementsBlock /\ Head(parts).as # "try"
         /\ Head(parts).as = "arm" => s.kind = "if"
         /\ PartOf(Head(parts), s)
         /\ s.kind = "if" => (Head(parts).as = "else" <=> Rest(parts) = << >>)
  <1>1. /\ IsSeq(parts) /\ IsSeq(Tail(parts)) /\ Len(parts) > 0 /\ Head(parts) = parts[1]
        /\ Len(parts) \in Nat /\ Len(Tail(parts)) = Len(parts) - 1
        /\ \A i \in 1..Len(Tail(parts)) : Tail(parts)[i] = parts[i + 1]
    BY SeqTail, SeqFacts DEF IsParts
  <1>2. 1 \in 1..Len(parts) /\ \A i \in 1..Len(Tail(parts)) : i + 1 \in 1..Len(parts)
    BY <1>1
  <1>3. Head(parts).stmts \in StatementsBlock /\ PartOf(Head(parts), s)
    BY <1>1, <1>2 DEF IsParts
  <1>4. IsParts(Tail(parts), s)
    <2>1. ASSUME NEW i \in 1..Len(Tail(parts))
          PROVE  /\ Tail(parts)[i].stmts \in StatementsBlock /\ PartOf(Tail(parts)[i], s)
                 /\ s.kind = "if" => (Tail(parts)[i].as = "else" <=> i = Len(Tail(parts)))
      <3>1. /\ i + 1 \in 1..Len(parts) /\ Tail(parts)[i] = parts[i + 1]
            /\ i + 1 = Len(parts) <=> i = Len(Tail(parts))
        BY <1>1, <1>2
      <3> QED BY <3>1 DEF IsParts
    <2> QED BY <1>1, <2>1 DEF IsParts
  <1> DEFINE p == Part("class", Tail(Head(parts).of), Head(parts).stmts)
  <1>5. ASSUME s.kind = "try"
        PROVE  p.stmts \in StatementsBlock /\ PartOf(p, s)
    BY <1>3, <1>5 DEF Part, PartOf
  <1> HIDE DEF p
  <1>6. ASSUME s.kind = "try"
        PROVE  IsParts(<<p>> \o Tail(parts), s)
    <2>1. IsSeq(<<p>>) /\ Len(<<p>>) = 1 /\ <<p>>[1] = p
      BY <1>1, SeqAppended
    <2>2. /\ IsSeq(<<p>> \o Tail(parts)) /\ Len(<<p>> \o Tail(parts)) = 1 + Len(Tail(parts))
          /\ \A i \in 1..1 : (<<p>> \o Tail(parts))[i] = p
          /\ \A i \in 1..Len(<<p>> \o Tail(parts)) : i > 1 =>
               i - 1 \in 1..Len(Tail(parts)) /\ (<<p>> \o Tail(parts))[i] = Tail(parts)[i - 1]
      BY <1>1, <2>1, SeqJoined
    <2>3. Len(Tail(parts)) \in Nat
      BY <1>1
    <2>4. ASSUME NEW i \in 1..Len(<<p>> \o Tail(parts))
          PROVE  /\ (<<p>> \o Tail(parts))[i].stmts \in StatementsBlock
                 /\ PartOf((<<p>> \o Tail(parts))[i], s)
      <3>1. CASE i = 1
        BY <1>5, <1>6, <2>2, <3>1
      <3>2. CASE i > 1
        BY <1>4, <2>2, <3>2 DEF IsParts
      <3> QED BY <2>2, <2>3, <3>1, <3>2
    <2> QED BY <1>6, <2>2, <2>4 DEF IsParts
  <1>7. Rest(parts) = Tail(parts) \/ (s.kind = "try" /\ Rest(parts) = <<p>> \o Tail(parts))
    BY <1>3 DEF Rest, p, PartOf
  <1>8. s.kind = "if" => (Head(parts).as = "else" <=> Rest(parts) = << >>)
    <2>1. s.kind = "if" => (Head(parts).as = "else" <=> 1 = Len(parts))
      BY <1>1, <1>2 DEF IsParts
    <2>2. Tail(parts) = << >> <=> Len(Tail(parts)) = 0
      BY <1>1, SeqEmpty
    <2> QED BY <1>1, <1>7, <2>1, <2>2
  <1> QED BY <1>3, <1>4, <1>6, <1>7, <1>8 DEF PartOf

LEMMA SomeParts ==
  ASSUME NEW n \in Nat, NEW d, DOMAIN d = 1..n, d = [i \in 1..n |-> d[i]], NEW s,
         \A i \in 1..n : /\ d[i].stmts \in StatementsBlock /\ PartOf(d[i], s)
                         /\ s.kind = "if" => (d[i].as = "else" <=> i = n)
  PROVE  IsParts(d, s)
  <1>1. IsSeq(d) /\ Len(d) = n
    BY FunctionSeq
  <1> QED BY <1>1 DEF IsParts

LEMMA PartsIf ==
  ASSUME NEW s \in Statements, s.kind = "if"
  PROVE  IsParts(IfParts(s.arms, s.else), s)
  <1> DEFINE n == Len(s.arms)
             d == IfParts(s.arms, s.else)
             N == 2 * n + 1
  <1>1. /\ n \in Nat \ {0} /\ s.else \in StatementsBlock
        /\ \A i \in 1..n : s.arms[i].body \in StatementsBlock
    BY StatementsAssumption
  <1>2. N \in Nat /\ DOMAIN d = 1..N /\ d = [i \in 1..N |-> d[i]]
    <2>1. d = [i \in 1..N |-> CASE i <= n -> Part("before", s.arms[i].cond, << >>)
                 [] i \in (n + 1)..(2 * n) ->
                      LET a == s.arms[i - n]
                      IN  Part(IF i > n + 1 /\ a.body = << >> THEN "none" ELSE "arm", a.cond, a.body)
                 [] OTHER -> Part("else", 0, s.else)]
      BY DEF IfParts
    <2> HIDE DEF d
    <2>2. DOMAIN d = 1..N /\ d = [i \in 1..N |-> d[i]]
      BY <2>1
    <2> QED BY <1>1, <2>2
  <1>3. ASSUME NEW i \in 1..N
        PROVE  d[i].stmts \in StatementsBlock /\ PartOf(d[i], s) /\ (d[i].as = "else" <=> i = N)
    <2>1. CASE i <= n
      <3>1. d[i] = Part("before", s.arms[i].cond, << >>) /\ i \in 1..n /\ i # N
        BY <1>1, <2>1 DEF IfParts
      <3> HIDE DEF d
      <3>2. d[i].as = "before" /\ d[i].stmts = << >> /\ d[i].of = s.arms[i].cond
        BY <3>1 DEF Part
      <3> QED BY <3>1, <3>2, EmptyBlock DEF PartOf
    <2>2. CASE i \in (n + 1)..(2 * n)
      <3> DEFINE a == s.arms[i - n]
      <3>1. ~(i <= n) /\ i - n \in 1..n /\ i # N
        BY <1>1, <2>2
      <3>2. d[i] = Part(IF i > n + 1 /\ a.body = << >> THEN "none" ELSE "arm", a.cond, a.body)
        BY <2>2, <3>1 DEF IfParts
      <3>3. a.body \in StatementsBlock /\ \E j \in 1..n : a.body = s.arms[j].body
        BY <1>1, <3>1
      <3> HIDE DEF a, d
      <3>4. d[i].stmts = a.body /\ d[i].as \in {"none", "arm"} /\ (d[i].as = "none" => a.body = << >>)
        BY <3>2 DEF Part
      <3> QED BY <3>1, <3>3, <3>4 DEF PartOf
    <2>3. CASE ~(i <= n) /\ i \notin (n + 1)..(2 * n)
      <3>1. d[i] = Part("else", 0, s.else) /\ i = N
        BY <1>1, <2>3 DEF IfParts
      <3> HIDE DEF d
      <3> QED BY <1>1, <3>1 DEF Part, PartOf
    <2> QED BY <2>1, <2>2, <2>3
  <1> HIDE DEF d, N
  <1>4. IsParts(d, s)
    BY <1>2, <1>3, SomeParts
  <1> QED BY <1>4 DEF d

LEMMA PartsSwitch ==
  ASSUME NEW s \in Statements, s.kind = "switch"
  PROVE  IsParts(SwitchParts(s.id, s.clauses), s)
  <1> DEFINE clauses == s.clauses
             n == Len(clauses)
             d == SwitchParts(s.id, clauses)
             N == n + 1
             Last(k) == clauses[k].value = 0 /\ \A j \in (k + 1)..n : clauses[j].value # 0
             default == IF \E k \in 1..n : Last(k) THEN clauses[CHOOSE k \in 1..n : Last(k)].body
                                                   ELSE << >>
             dropped == NormalizeClauses(clauses)
             group(i) == {j \in (1..i) \ dropped :
                            \A k \in j..(i - 1) : clauses[k].value = 0 \/ clauses[k].body = << >>}
             of(i) == [id |-> s.id, values |-> {clauses[j].value : j \in group(i)} \ {0}]
             part(i) == CASE i = n + 1 -> Part("default", 0, default)
                          [] i <= n /\ (clauses[i].value = 0 \/ clauses[i].body = << >>) ->
                               Part("none", 0, << >>)
                          [] OTHER -> Part("case", of(i), clauses[i].body)
  <1>1. n \in Nat /\ \A i \in 1..n : clauses[i].body \in StatementsBlock
    BY StatementsAssumption
  <1>2. default \in StatementsBlock /\ (default = << >> \/ \E k \in 1..n : default = clauses[k].body)
    <2>1. CASE \E k \in 1..n : Last(k)
      <3>1. (CHOOSE k \in 1..n : Last(k)) \in 1..n
        BY <2>1
      <3> QED BY <1>1, <2>1, <3>1
    <2>2. CASE ~(\E k \in 1..n : Last(k))
      BY <2>2, EmptyBlock
    <2> QED BY <2>1, <2>2
  <1>3. d = [i \in 1..N |-> part(i)]
    BY DEF SwitchParts
  <1> HIDE DEF default, of, d
  <1>4. ASSUME NEW i \in 1..N
        PROVE  /\ part(i).stmts \in StatementsBlock /\ part(i).as \in {"default", "none", "case"}
               /\ part(i).stmts = << >> \/ \E k \in 1..n : part(i).stmts = clauses[k].body
    <2>1. CASE i = n + 1
      <3>1. part(i) = Part("default", 0, default)
        BY <2>1
      <3> HIDE DEF part, n, clauses
      <3> QED BY <1>2, <3>1 DEF Part
    <2>2. CASE i # n + 1
      <3>1. i \in 1..n
        BY <1>1, <2>2
      <3>2. part(i) = Part("none", 0, << >>) \/ part(i) = Part("case", of(i), clauses[i].body)
        BY <2>2
      <3>3. clauses[i].body \in StatementsBlock
        BY <1>1, <3>1
      <3> HIDE DEF part, clauses, n
      <3> QED BY <3>1, <3>2, <3>3, EmptyBlock DEF Part
    <2> QED BY <2>1, <2>2
  <1> HIDE DEF part
  <1>5. N \in Nat /\ DOMAIN d = 1..N /\ d = [i \in 1..N |-> d[i]] /\ \A i \in 1..N : d[i] = part(i)
    BY <1>1, <1>3
  <1>6. \A i \in 1..N : d[i].stmts \in StatementsBlock /\ PartOf(d[i], s)
    BY <1>4, <1>5 DEF PartOf
  <1> HIDE DEF N
  <1>7. IsParts(d, s)
    BY <1>5, <1>6, SomeParts
  <1> QED BY <1>7 DEF d

LEMMA PartsTry ==
  ASSUME NEW s \in Statements, s.kind = "try"
  PROVE  IsParts(TryParts(s.catches), s)
  <1> DEFINE n == Len(s.catches)
             d == TryParts(s.catches)
  <1>1. n \in Nat /\ \A i \in 1..n : s.catches[i].body \in StatementsBlock
    BY StatementsAssumption
  <1>2. d = [i \in 1..n |-> Part("catch", s.catches[i].classes, s.catches[i].body)]
    BY DEF TryParts
  <1> HIDE DEF d
  <1>3. DOMAIN d = 1..n /\ d = [i \in 1..n |-> d[i]]
    BY <1>2
  <1>4. \A i \in 1..n : d[i].stmts \in StatementsBlock /\ PartOf(d[i], s)
    BY <1>1, <1>2 DEF Part, PartOf
  <1> HIDE DEF n
  <1>5. IsParts(d, s)
    BY <1>1, <1>3, <1>4, SomeParts
  <1> QED BY <1>5 DEF d

LEMMA PartsTyped ==
  ASSUME NEW s \in Statements
  PROVE  IsParts(Parts(s), s)
  <1>1. CASE s.kind = "if"
    BY <1>1, PartsIf DEF Parts
  <1>2. CASE s.kind = "switch"
    BY <1>2, PartsSwitch DEF Parts
  <1>3. CASE s.kind = "try"
    BY <1>3, PartsTry DEF Parts
  <1>4. CASE s.kind = "do-while"
    <2> DEFINE p == Part("before", s.cond, << >>)
    <2>1. p.stmts \in StatementsBlock /\ PartOf(p, s)
      BY <1>4, EmptyBlock DEF Part, PartOf
    <2> HIDE DEF p
    <2>2. <<p>> \in Seq({p}) /\ Len(<<p>>) = 1 /\ <<p>>[1] = p
      OBVIOUS
    <2>3. \A i \in 1..1 : i = 1
      OBVIOUS
    <2>4. IsParts(<<p>>, s)
      BY <1>4, <2>1, <2>2, <2>3 DEF IsParts, IsSeq
    <2> QED BY <1>4, <2>4 DEF Parts, p
  <1>5. CASE s.kind \notin {"if", "switch", "try", "do-while"}
    <2>1. << >> \in Seq({}) /\ Len(<< >>) = 0
      OBVIOUS
    <2>2. IsParts(<< >>, s)
      BY <2>1 DEF IsParts, IsSeq
    <2> QED BY <1>5, <2>2 DEF Parts
  <1> QED BY <1>1, <1>2, <1>3, <1>4, <1>5

-----------------------------------------------------------------------------
(* What is printed while statements are open.                              *)

Own(s) == {op \in Pending : Resolves(s, op)}

CodeInv ==
  /\ WellFormed(code) /\ Stack(code, work) /\ AtLevel(code, work)
  /\ Typed(work)
  /\ Sends(code, currentTryCatch) /\ Labels(code, work, currentTryCatch)
  /\ insideTryCatch \in Int /\ (insideTryCatch > 0 => currentTryCatch > 0)

LEMMA FragmentPrinted ==
  ASSUME NEW c, WellFormed(c), NEW w, Stack(c, w), AtLevel(c, w),
         NEW f, NEW ops, NEW n, Fragment(f, ops, n),
         \A op \in ops : op \in {"next", "end"} => Resolves(w[Len(w)].s, op)
  PROVE  WellFormed(c \o f) /\ Stack(c \o f, w) /\ AtLevel(c \o f, w) /\ Grows(c, c \o f, ops, n)
  <1>1. /\ IsSeq(c) /\ IsSeq(f) /\ Paired(f) /\ Flat(f) /\ Sends(f, n)
        /\ \A i \in 1..Len(f) : f[i].op # "jump" /\ (f[i].op \in Pending => f[i].op \in ops)
    BY DEF Fragment, WellFormed
  <1>2. \A i \in 1..Len(f) : f[i].op \in {"next", "end"} => Resolves(w[Len(w)].s, f[i].op)
    BY <1>1 DEF Pending
  <1>3. WellFormed(c \o f) /\ Stack(c \o f, w) /\ AtLevel(c \o f, w)
    BY <1>1, <1>2, StackJoined
  <1>4. Grows(c, c \o f, ops, n)
    BY <1>1, GrowsJoined
  <1> QED BY <1>3, <1>4

LEMMA FragmentMore ==
  ASSUME NEW f, NEW ops, NEW more, NEW n, Fragment(f, ops, n), \A op \in ops : op \in more
  PROVE  Fragment(f, more, n)
  BY DEF Fragment

LEMMA TopFrame ==
  ASSUME CodeInv
  PROVE  /\ Len(work) \in Nat /\ Len(work) > 0 /\ Len(work) \in 1..Len(work) /\ IsSeq(work)
         /\ IsFrame(Top) /\ Top.from \in Nat /\ Top.from < Top.again /\ Lands(code, Top.again)
         /\ Top.from <= Len(code) /\ Len(code) \in Nat /\ IsSeq(code)
         /\ (Top.s.kind = "method" <=> Len(work) = 1)
         /\ Len(work) = 1 => Top.parts = << >> /\ Top.as = "body"
         /\ Len(work) # 1 => Top.s \in Statements /\ Top.s.kind \notin Unnested
         /\ Depth(code, Len(code) + 1) = Depth(code, Top.again)
  <1>1. Len(work) \in Nat /\ Len(work) > 0 /\ IsSeq(work) /\ Len(code) \in Nat /\ IsSeq(code)
    BY SeqFacts DEF CodeInv, Typed, WellFormed
  <1>2. Len(work) \in 1..Len(work)
    BY <1>1
  <1>3. /\ Top.from \in Nat /\ Top.from < Top.again /\ Lands(code, Top.again)
        /\ (Top.s.kind = "method" <=> Len(work) = 1)
    BY <1>2 DEF CodeInv, Stack, Placed, Top
  <1>4. /\ IsFrame(Top)
        /\ Len(work) = 1 => Top.parts = << >> /\ Top.as = "body"
        /\ Len(work) # 1 => Top.s \in Statements /\ Top.s.kind \notin Unnested
    BY <1>2 DEF CodeInv, Typed, Top
  <1>5. Top.from <= Len(code)
    <2>1. Top.again \in 1..(Len(code) + 1)
      BY <1>3 DEF Lands
    <2> QED BY <1>1, <1>3, <2>1
  <1>6. Depth(code, Len(code) + 1) = Depth(code, Top.again)
    BY DEF CodeInv, AtLevel, Top
  <1> QED BY <1>1, <1>2, <1>3, <1>4, <1>5, <1>6

LEMMA InContext ==
  ASSUME CodeInv
  PROVE  Context(currentTryCatch) /\ currentTryCatch \in Nat
  BY DEF CodeInv, Context, Labels

LEMMA EndedFacts ==
  ASSUME CodeInv, Len(work) # 1
  PROVE  LET d == Ended(Top) IN
         /\ WellFormed(d) /\ Stack(d, work) /\ AtLevel(d, work)
         /\ Grows(code, d, Own(Top.s), currentTryCatch)
         /\ \A i \in 1..Len(d) : d[i].op = "next" => i <= Top.from
         /\ Top.as = "try" => \E i \in 1..Len(d) : d[i] = Label(Top.label)
  <1> DEFINE n == currentTryCatch
             e == Ending(Top)
             c == code \o e
             d == Ended(Top)
  <1>1. /\ IsFrame(Top) /\ Top.from \in Nat /\ IsSeq(code) /\ Len(code) \in Nat
        /\ Top.s.kind # "method" /\ Top = work[Len(work)]
    BY TopFrame DEF Top
  <1>2. Resolves(Top.s, "next") /\ "next" \in Pending
    BY <1>1 DEF Resolves, Pending
  <1>3. Top.as \in {"arm", "try"} => "end" \in Own(Top.s)
    BY <1>1 DEF IsFrame, Own, Resolves, Pending
  <1>4. Fragment(e, Own(Top.s), n)
    <2>1. CASE Top.as \in {"arm", "try"}
      BY <1>3, <2>1, FragmentEnding, FragmentMore
    <2>2. CASE Top.as \notin {"arm", "try"}
      BY <2>2, FragmentEnding, FragmentEmpty
    <2> QED BY <2>1, <2>2
  <1>5. IsSeq(e)
    BY <1>4 DEF Fragment
  <1>6. Top.as = "try" => \E i \in 1..Len(c) : c[i] = Label(Top.label)
    <2> SUFFICES ASSUME Top.as = "try"
                 PROVE  \E i \in 1..Len(c) : c[i] = Label(Top.label)
      OBVIOUS
    <2>1. PICK i \in 1..Len(e) : e[i] = Label(Top.label)
      BY FragmentEnding
    <2>2. Len(e) \in Nat /\ Len(c) = Len(code) + Len(e) /\ c[Len(code) + i] = e[i]
      BY <1>1, <1>5, SeqFacts, SeqJoined
    <2>3. Len(code) + i \in 1..Len(c)
      BY <1>1, <2>2
    <2> QED BY <2>1, <2>2, <2>3
  <1>7. WellFormed(c) /\ Stack(c, work) /\ AtLevel(c, work) /\ Grows(code, c, Own(Top.s), n)
    <2>1. \A op \in Own(Top.s) : Resolves(work[Len(work)].s, op)
      BY <1>1 DEF Own
    <2> HIDE DEF e
    <2> QED BY <1>4, <2>1, FragmentPrinted DEF CodeInv
  <1> HIDE DEF e, c
  <1>8. IsSeq(c) /\ Len(c) \in Nat /\ Len(c) + 1 \in 1..(Len(c) + 1) /\ Lands(c, Len(c) + 1)
    BY <1>7, SeqFacts DEF WellFormed, Lands
  <1>9. Depth(c, Len(c) + 1) = Depth(c, work[Len(work)].again)
    BY <1>7 DEF AtLevel
  <1>10. d = Resolve(c, work[Len(work)].from, {"next"}, Len(c) + 1)
    BY <1>1 DEF Ended, ResolveNext, c, e
  <1>11. /\ WellFormed(d) /\ Stack(d, work) /\ Len(d) = Len(c) /\ AtLevel(d, work)
         /\ \A i \in 1..Len(c) : /\ d[i].op \in {"next"} => i <= work[Len(work)].from
                                 /\ d[i] = c[i] \/ d[i] = Jump(Len(c) + 1)
    <2>1. \A op \in {"next"} : op \in Pending /\ Resolves(work[Len(work)].s, op)
      BY <1>1, <1>2
    <2>2. MayResolve(c, work, {"next"}, Len(c) + 1)
      BY <1>7, <1>8, <1>9, <2>1 DEF MayResolve
    <2> HIDE DEF d
    <2> QED BY <1>7, <1>10, <2>2, StackResolved
  <1>12. Grows(c, d, Own(Top.s), n)
    <2>1. {"next"} \subseteq Pending
      BY <1>2
    <2> HIDE DEF d
    <2> QED BY <1>1, <1>8, <1>10, <2>1, GrowsResolved
  <1> HIDE DEF d
  <1>13. IsSeq(d)
    BY <1>11 DEF WellFormed
  <1>14. Grows(code, d, Own(Top.s), n)
    BY <1>1, <1>7, <1>8, <1>12, <1>13, GrowsOn
  <1>15. Top.as = "try" => \E i \in 1..Len(d) : d[i] = Label(Top.label)
    <2>1. Label(Top.label).op \notin Pending
      BY DEF Label, Pending
    <2> QED BY <1>6, <1>11, <1>12, <2>1 DEF Grows
  <1> QED BY <1>1, <1>11, <1>14, <1>15 DEF d

\* The code c is what the code becomes when the innermost statement is closed, or
\* on the way to it: of the statements done nothing is left.
Ready(c, done) ==
  /\ WellFormed(c) /\ Stack(c, work) /\ AtLevel(c, work)
  /\ Grows(code, c, Own(Top.s), currentTryCatch)
  /\ done \subseteq Pending
  /\ \A i \in 1..Len(c) : c[i].op \in done => i <= Top.from
  /\ Top.as = "try" => \E i \in 1..Len(c) : c[i] = Label(Top.label)

LEMMA ReadyFacts ==
  ASSUME NEW c, NEW done, Ready(c, done), CodeInv
  PROVE  /\ IsSeq(c) /\ Len(c) \in Nat /\ Lands(c, Len(c) + 1) /\ Lands(c, Top.again)
         /\ Depth(c, Len(c) + 1) = Depth(c, Top.again)
         /\ Top.from \in Nat /\ Len(code) <= Len(c) /\ Top.from <= Len(c)
  <1>1. IsSeq(c) /\ Len(c) \in Nat
    BY SeqFacts DEF Ready, WellFormed
  <1>2. Lands(c, Len(c) + 1)
    BY <1>1 DEF Lands
  <1>3. Len(work) \in 1..Len(work)
    BY TopFrame
  <1>4. Lands(c, Top.again)
    BY <1>3 DEF Ready, Stack, Placed, Top
  <1>5. Depth(c, Len(c) + 1) = Depth(c, Top.again)
    BY DEF Ready, AtLevel, Top
  <1>6. Len(code) <= Len(c) /\ Len(code) \in Nat /\ Top.from \in Nat /\ Top.from <= Len(code)
    BY TopFrame DEF Ready, Grows
  <1> QED BY <1>1, <1>2, <1>4, <1>5, <1>6

LEMMA ReadyEnded ==
  ASSUME CodeInv, Len(work) # 1
  PROVE  Ready(Ended(Top), {"next"})
  BY EndedFacts DEF Ready, Pending

LEMMA ReadyResolved ==
  ASSUME CodeInv, NEW c, NEW done, Ready(c, done), NEW ops, \A op \in ops : op \in Own(Top.s),
         NEW m, Lands(c, m), Depth(c, m) = Depth(c, Top.again)
  PROVE  /\ Ready(Resolve(c, Top.from, ops, m), done \cup ops)
         /\ Len(Resolve(c, Top.from, ops, m)) = Len(c)
  <1> DEFINE d == Resolve(c, Top.from, ops, m)
  <1>1. IsSeq(c) /\ Len(c) \in Nat /\ Top.from \in Nat /\ Top = work[Len(work)]
    BY ReadyFacts DEF Top
  <1>2. ops \subseteq Pending /\ \A op \in ops : op \in Pending /\ Resolves(Top.s, op)
    BY DEF Own
  <1>3. MayResolve(c, work, ops, m)
    BY <1>1, <1>2 DEF MayResolve, Ready
  <1>4. d = Resolve(c, work[Len(work)].from, ops, m)
    BY <1>1
  <1>5. Grows(c, d, Own(Top.s), currentTryCatch)
    BY <1>1, <1>2, GrowsResolved
  <1> HIDE DEF d
  <1>6. /\ WellFormed(d) /\ Stack(d, work) /\ Len(d) = Len(c) /\ (AtLevel(c, work) => AtLevel(d, work))
        /\ \A i \in 1..Len(c) :
             /\ d[i].op \in ops => i <= work[Len(work)].from
             /\ d[i] = c[i] \/ d[i] = Jump(m)
    BY <1>3, <1>4, StackResolved
  <1>7. AtLevel(d, work)
    BY <1>6 DEF Ready
  <1>8. Grows(code, d, Own(Top.s), currentTryCatch)
    BY <1>1, <1>5, <1>6, TopFrame, GrowsOn DEF Ready, WellFormed
  <1>9. done \cup ops \subseteq Pending
    BY <1>2 DEF Ready
  <1>10. ASSUME NEW i \in 1..Len(d), d[i].op \in done \cup ops
         PROVE  i <= Top.from
    <2>1. i \in 1..Len(c)
      BY <1>6
    <2>2. CASE d[i].op \in ops
      BY <1>1, <1>6, <2>1, <2>2
    <2>3. CASE d[i].op \in done /\ d[i] = c[i]
      BY <2>1, <2>3 DEF Ready
    <2>4. CASE d[i] = Jump(m)
      BY <1>9, <1>10, <2>4 DEF Jump, Pending
    <2> QED BY <1>6, <1>10, <2>1, <2>2, <2>3, <2>4
  <1>11. Top.as = "try" => \E i \in 1..Len(d) : d[i] = Label(Top.label)
    <2>1. IsSeq(c) /\ IsSeq(d) /\ (Top.as = "try" => \E i \in 1..Len(c) : c[i] = Label(Top.label))
      BY <1>6 DEF Ready, WellFormed
    <2>2. \A l : (\E i \in 1..Len(c) : c[i] = Label(l)) => \E i \in 1..Len(d) : d[i] = Label(l)
      BY <1>5, <2>1, GrowsLabels
    <2> QED BY <2>1, <2>2, Zenon
  <1>12. Ready(d, done \cup ops)
    BY <1>6, <1>7, <1>8, <1>9, <1>10, <1>11 DEF Ready
  <1> QED BY <1>6, <1>12 DEF d

\* What is printed is not among the statements that are done.
LEMMA ReadyMore ==
  ASSUME CodeInv, NEW c, NEW done, Ready(c, done), NEW f, IsSeq(f),
         WellFormed(c \o f), Stack(c \o f, work), AtLevel(c \o f, work),
         Grows(c, c \o f, Own(Top.s), currentTryCatch),
         \A i \in 1..Len(f) : f[i].op \notin done
  PROVE  Ready(c \o f, done)
  <1>1. /\ IsSeq(c) /\ Len(c) \in Nat /\ Len(f) \in Nat /\ Len(c \o f) = Len(c) + Len(f) /\ IsSeq(c \o f)
        /\ \A i \in 1..Len(c) : (c \o f)[i] = c[i]
        /\ \A i \in 1..Len(c \o f) : i > Len(c) => i - Len(c) \in 1..Len(f) /\ (c \o f)[i] = f[i - Len(c)]
    BY SeqFacts, SeqJoined, ReadyFacts
  <1>2. Grows(code, c \o f, Own(Top.s), currentTryCatch)
    BY <1>1, TopFrame, GrowsOn DEF Ready
  <1>3. ASSUME NEW i \in 1..Len(c \o f), (c \o f)[i].op \in done
        PROVE  i <= Top.from
    <2>1. CASE i > Len(c)
      BY <1>1, <1>3, <2>1
    <2>2. CASE i <= Len(c)
      <3>1. i \in 1..Len(c)
        BY <1>1, <2>2
      <3> QED BY <1>1, <1>3, <3>1 DEF Ready
    <2> QED BY <1>1, <2>1, <2>2
  <1>4. Top.as = "try" => \E i \in 1..Len(c \o f) : (c \o f)[i] = Label(Top.label)
    BY <1>1, GrowsLabels DEF Ready
  <1> QED BY <1>2, <1>3, <1>4 DEF Ready

LEMMA ReadyJoined ==
  ASSUME CodeInv, NEW c, NEW done, Ready(c, done), NEW f, NEW ops, Fragment(f, ops, currentTryCatch),
         \A op \in ops : op \in Own(Top.s) /\ op \notin done
  PROVE  Ready(c \o f, done)
  <1>1. Fragment(f, Own(Top.s), currentTryCatch) /\ IsSeq(f)
    BY FragmentMore DEF Fragment
  <1>2. \A op \in Own(Top.s) : Resolves(work[Len(work)].s, op)
    BY DEF Own, Top
  <1>3. /\ WellFormed(c \o f) /\ Stack(c \o f, work) /\ AtLevel(c \o f, work)
        /\ Grows(c, c \o f, Own(Top.s), currentTryCatch)
    BY <1>1, <1>2, FragmentPrinted DEF Ready
  <1>4. \A i \in 1..Len(f) : f[i].op \notin done
    BY DEF Fragment, Ready
  <1> QED BY <1>1, <1>3, <1>4, ReadyMore

LEMMA JumpFragment ==
  ASSUME NEW m, NEW n
  PROVE  /\ IsSeq(<<Jump(m)>>) /\ Paired(<<Jump(m)>>) /\ Flat(<<Jump(m)>>) /\ Sends(<<Jump(m)>>, n)
         /\ \A i \in 1..Len(<<Jump(m)>>) : <<Jump(m)>>[i].op = "jump" /\ <<Jump(m)>>[i].to = m
  <1> DEFINE e == Jump(m)
  <1>1. e.op = "jump" /\ e.to = m
    BY DEF Jump
  <1> HIDE DEF e
  <1>2. <<e>> \in Seq({e}) /\ Len(<<e>>) = 1 /\ <<e>>[1] = e
    OBVIOUS
  <1>3. \A i \in 1..1 : i = 1
    OBVIOUS
  <1>4. IsSeq(<<e>>) /\ Paired(<<e>>) /\ Flat(<<e>>) /\ Sends(<<e>>, n)
        /\ \A i \in 1..Len(<<e>>) : <<e>>[i].op = "jump" /\ <<e>>[i].to = m
    BY <1>1, <1>2, <1>3 DEF IsSeq, Paired, Flat, Sends, Tests
  <1> QED BY <1>4 DEF e

LEMMA ReadyJump ==
  ASSUME CodeInv, NEW c, NEW done, Ready(c, done)
  PROVE  Ready(c \o <<Jump(Top.again)>>, done)
  <1> DEFINE f == <<Jump(Top.again)>>
  <1>1. /\ IsSeq(f) /\ Paired(f) /\ Flat(f) /\ Sends(f, currentTryCatch)
        /\ \A i \in 1..Len(f) : f[i].op = "jump" /\ f[i].to = Top.again
    BY JumpFragment
  <1> HIDE DEF f
  <1>2. /\ IsSeq(c) /\ Len(c) \in Nat /\ Lands(c, Top.again)
        /\ Depth(c, Len(c) + 1) = Depth(c, Top.again)
    BY ReadyFacts
  <1>3. Lands(c \o f, Top.again) /\ Depth(c \o f, Top.again) = Depth(c, Len(c) + 1)
    <2>1. Top.again \in 1..(Len(c) + 1)
      BY <1>2 DEF Lands
    <2> QED BY <1>1, <1>2, <2>1, PrefixSame
  <1>4. /\ \A i \in 1..Len(f) : f[i].op = "jump" =>
             Lands(c \o f, f[i].to) /\ Depth(c \o f, f[i].to) = Depth(c, Len(c) + 1)
        /\ \A i \in 1..Len(f) : f[i].op \in {"next", "end"} => Resolves(work[Len(work)].s, f[i].op)
    BY <1>1, <1>3
  <1>5. WellFormed(c \o f) /\ Stack(c \o f, work) /\ AtLevel(c \o f, work)
    BY <1>1, <1>4, StackJoined DEF Ready
  <1>6. \A i \in 1..Len(f) : f[i].op \notin Pending
    BY <1>1 DEF Pending
  <1>7. Grows(c, c \o f, Own(Top.s), currentTryCatch)
    BY <1>1, <1>2, <1>6, GrowsJoined
  <1>8. \A i \in 1..Len(f) : f[i].op \notin done
    BY <1>6 DEF Ready
  <1>9. Ready(c \o f, done)
    BY <1>1, <1>5, <1>7, <1>8, ReadyMore
  <1> QED BY <1>9 DEF f

\* The innermost statement is closed.
Closed(c) ==
  /\ WellFormed(c) /\ Stack(c, Front(work)) /\ AtLevel(c, Front(work))
  /\ Grows(code, c, Own(Top.s), currentTryCatch)
  /\ \A i \in 1..Len(c) : c[i].op \in Own(Top.s) => i <= Top.from
  /\ Top.as = "try" => \E i \in 1..Len(c) : c[i] = Label(Top.label)

LEMMA ReadyPopped ==
  ASSUME CodeInv, Len(work) # 1, NEW c, NEW done, Ready(c, done), Own(Top.s) \subseteq done
  PROVE  /\ Stack(c, Front(work))
         /\ Depth(c, Len(c) + 1) = IF OverIterator(Top.s)
              THEN Depth(c, Front(work)[Len(Front(work))].again) + 1
              ELSE Depth(c, Front(work)[Len(Front(work))].again)
         /\ \A i \in 1..Len(c) : c[i].op \in Own(Top.s) => i <= Top.from
  <1>1. Len(work) > 1
    <2>1. Len(work) \in Nat /\ Len(work) > 0
      BY TopFrame
    <2>2. \A n \in Nat : n > 0 /\ n # 1 => n > 1
      OBVIOUS
    <2> QED BY <2>1, <2>2, Zenon
  <1>2. \A i \in 1..Len(c) : c[i].op \in Own(Top.s) => i <= Top.from
    BY DEF Ready
  <1>3. Cleared(c, work)
    BY <1>2 DEF Cleared, Own, Top
  <1>4. Stack(c, work) /\ Depth(c, Len(c) + 1) = Depth(c, work[Len(work)].again)
    BY DEF Ready, AtLevel
  <1>5. /\ Stack(c, Front(work))
        /\ Depth(c, work[Len(work)].again) = IF OverIterator(work[Len(work)].s)
              THEN Depth(c, Front(work)[Len(Front(work))].again) + 1
              ELSE Depth(c, Front(work)[Len(Front(work))].again)
    BY <1>1, <1>3, <1>4, StackPopped
  <1> QED BY <1>2, <1>4, <1>5 DEF Top

LEMMA ReadyClosed ==
  ASSUME CodeInv, Len(work) # 1, NEW c, NEW done, Ready(c, done), Own(Top.s) \subseteq done,
         ~OverIterator(Top.s)
  PROVE  Closed(c)
  BY ReadyPopped DEF Closed, Ready, AtLevel

\* The iterator is destroyed after the loop over it.
LEMMA ReadyDestroyed ==
  ASSUME CodeInv, Len(work) # 1, NEW c, NEW done, Ready(c, done), Own(Top.s) \subseteq done,
         OverIterator(Top.s)
  PROVE  Closed(Append(c, Op("destroy")))
  <1> DEFINE e == Op("destroy")
             f == <<e>>
             v == Front(work)
             d == c \o f
  <1>1. e.op = "destroy"
    BY DEF Op
  <1> HIDE DEF e
  <1>2. IsSeq(c) /\ Len(c) \in Nat /\ WellFormed(c) /\ Top.from \in Nat /\ Top.from <= Len(c)
    BY ReadyFacts DEF Ready
  <1>3. Append(c, e) = d /\ IsSeq(f) /\ Len(f) = 1 /\ f[1] = e
    BY <1>2, SeqAppended
  <1> HIDE DEF f
  <1>4. /\ IsSeq(d) /\ Len(d) = Len(c) + 1 /\ d[Len(c) + 1] = e
        /\ \A i \in 1..Len(c) : d[i] = c[i]
    BY <1>2, <1>3, SeqJoined
  <1>5. \A i \in 1..Len(f) : i = 1
    BY <1>3
  <1>6. Paired(f) /\ Sends(f, currentTryCatch) /\ \A i \in 1..Len(f) : f[i].op \notin Pending
    BY <1>1, <1>3, <1>5 DEF Paired, Sends, Tests, Pending
  <1>7. /\ Stack(c, v) /\ Depth(c, Len(c) + 1) = Depth(c, v[Len(v)].again) + 1
        /\ \A i \in 1..Len(c) : c[i].op \in Own(Top.s) => i <= Top.from
    BY ReadyPopped
  <1> HIDE DEF v
  <1>8. \A i \in 1..(Len(c) + 1) : Depth(d, i) = Depth(c, i)
    BY <1>2, <1>3, PrefixSame
  <1>9. \A j : Lands(c, j) => Lands(d, j) /\ Depth(d, j) = Depth(c, j)
    BY <1>2, <1>3, <1>6, <1>8, PrefixSame DEF Lands
  <1>10. Len(v) \in 1..Len(v) /\ Lands(c, v[Len(v)].again) /\ v[Len(v)].again \in 1..(Len(c) + 1)
    <2>1. Len(v) \in Nat /\ Len(v) > 0
      BY <1>7, SeqFacts DEF Stack
    <2>2. Len(v) \in 1..Len(v)
      BY <2>1
    <2> QED BY <1>7, <2>2 DEF Stack, Placed, Lands
  <1>11. Depth(d, Len(d) + 1) = Depth(d, v[Len(v)].again) /\ Depth(c, v[Len(v)].again) \in Nat
    <2>1. Depth(d, (Len(c) + 1) + 1) = Depth(d, Len(c) + 1) - 1
      <3>1. Len(c) + 1 \in Nat /\ Len(c) + 1 > 0
        BY <1>2
      <3> QED BY <1>1, <1>4, <3>1, DepthStep
    <2>2. Len(c) + 1 \in 1..(Len(c) + 1)
      BY <1>2
    <2>3. Depth(d, Len(c) + 1) = Depth(c, Len(c) + 1)
      BY <1>8, <2>2
    <2>4. Depth(c, v[Len(v)].again) \in Nat
      BY <1>2, <1>10 DEF WellFormed
    <2> QED BY <1>4, <1>7, <1>9, <1>10, <2>1, <2>3, <2>4
  <1>12. WellFormed(d)
    <2>1. \A i \in 1..Len(f) : Lead(d, Len(c) + i)
      BY <1>1, <1>4, <1>5 DEF Lead
    <2>2. \A i \in 1..Len(f) : Depth(d, Len(c) + i + 1) \in Nat
      BY <1>2, <1>4, <1>5, <1>9, <1>10, <1>11
    <2> QED BY <1>2, <1>3, <1>6, <2>1, <2>2, WellJoined
  <1>13. Owners(d, v)
    <2> SUFFICES ASSUME NEW i \in 1..Len(d), NEW k \in 1..Len(v), Owner(d, v, i, k)
                 PROVE  Depth(d, i) = Depth(d, v[k].again)
      BY DEF Owners
    <2>1. i # Len(c) + 1
      BY <1>1, <1>4 DEF Owner, Pending
    <2>2. i \in 1..Len(c) /\ i \in 1..(Len(c) + 1) /\ d[i] = c[i]
      BY <1>2, <1>4, <2>1
    <2>3. Owner(c, v, i, k)
      BY <2>2 DEF Owner
    <2>4. Depth(c, i) = Depth(c, v[k].again) /\ Lands(c, v[k].again)
      BY <1>7, <2>2, <2>3 DEF Stack, Owners, Placed
    <2> QED BY <1>8, <1>9, <2>2, <2>4
  <1>14. Stack(d, v)
    BY <1>7, <1>9, <1>13, StackMoved
  <1>15. AtLevel(d, v)
    BY <1>11 DEF AtLevel
  <1>16. Grows(c, d, Own(Top.s), currentTryCatch)
    BY <1>2, <1>3, <1>6, GrowsJoined
  <1>17. Grows(code, d, Own(Top.s), currentTryCatch)
    BY <1>2, <1>4, <1>16, TopFrame, GrowsOn DEF Ready
  <1>18. \A i \in 1..Len(d) : d[i].op \in Own(Top.s) => i <= Top.from
    <2>1. \A i \in 1..Len(d) : i \in 1..Len(c) \/ i = Len(c) + 1
      BY <1>2, <1>4
    <2>2. e.op \notin Own(Top.s)
      BY <1>1 DEF Own, Pending
    <2> QED BY <1>4, <1>7, <2>1, <2>2
  <1>19. Top.as = "try" => \E i \in 1..Len(d) : d[i] = Label(Top.label)
    BY <1>2, <1>4, <1>16, GrowsLabels DEF Ready
  <1>20. Closed(d)
    BY <1>12, <1>14, <1>15, <1>17, <1>18, <1>19 DEF Closed, v
  <1> QED BY <1>3, <1>20 DEF e

LEMMA OwnOf ==
  ASSUME NEW s
  PROVE  /\ s.kind # "method" => "next" \in Own(s)
         /\ s.kind \in {"if", "try"} => Own(s) \subseteq {"next", "end"} /\ "end" \in Own(s)
         /\ s.kind \in LoopKinds \cup {"switch"} =>
              Own(s) \subseteq {"next", "break", "continue"} /\ "break" \in Own(s) /\ "continue" \in Own(s)
  BY DEF Own, Resolves, Pending, LoopKinds

\* The end of a C loop.
LEMMA ReadyLoop ==
  ASSUME CodeInv, Len(work) # 1, Top.s.kind \in LoopKinds, NEW c, Ready(c, {"next"})
  PROVE  Ready(EndLoop(c, Top), {"next", "continue", "break"})
  <1>1. "break" \in Own(Top.s) /\ "continue" \in Own(Top.s)
    BY OwnOf
  <1> DEFINE c1 == Resolve(c, Top.from, {"continue"}, Top.again)
             c2 == c1 \o <<Jump(Top.again)>>
             c3 == Resolve(c2, Top.from, {"break"}, Len(c2) + 1)
  <1>2. Ready(c1, {"next"} \cup {"continue"})
    <2>1. \A op \in {"continue"} : op \in Own(Top.s)
      BY <1>1
    <2>2. Lands(c, Top.again)
      BY ReadyFacts
    <2> QED BY <2>1, <2>2, ReadyResolved
  <1> HIDE DEF c1
  <1>3. Ready(c2, {"next"} \cup {"continue"}) /\ Append(c1, Jump(Top.again)) = c2
    BY <1>2, ReadyJump, ReadyFacts, SeqAppended
  <1> HIDE DEF c2
  <1>4. Ready(c3, ({"next"} \cup {"continue"}) \cup {"break"})
    <2>1. \A op \in {"break"} : op \in Own(Top.s)
      BY <1>1
    <2>2. Lands(c2, Len(c2) + 1) /\ Depth(c2, Len(c2) + 1) = Depth(c2, Top.again)
      BY <1>3, ReadyFacts
    <2> QED BY <1>3, <2>1, <2>2, ReadyResolved
  <1>5. EndLoop(c, Top) = c3
    BY <1>3 DEF EndLoop, ResolveNext, c1
  <1>6. ({"next"} \cup {"continue"}) \cup {"break"} = {"next", "continue", "break"}
    OBVIOUS
  <1> HIDE DEF c3
  <1> QED BY <1>4, <1>5, <1>6

\* The end of a do-while.
LEMMA ReadyDoWhile ==
  ASSUME CodeInv, Len(work) # 1, Top.s.kind = "do-while", NEW c, Ready(c, {"next"})
  PROVE  Ready(EndDoWhile(c, Top), {"next", "continue", "break"})
  <1>1. "break" \in Own(Top.s) /\ "continue" \in Own(Top.s)
    BY OwnOf DEF LoopKinds
  <1> DEFINE c1 == Resolve(c, Top.from, {"continue"}, Len(c) + 1)
             c2 == c1 \o Leave(Top.s.cond)
             c3 == c2 \o <<Jump(Top.again)>>
             c4 == Resolve(c3, Top.from, {"break"}, Len(c3) + 1)
  <1>2. Ready(c1, {"next"} \cup {"continue"})
    <2>1. \A op \in {"continue"} : op \in Own(Top.s)
      BY <1>1
    <2>2. Lands(c, Len(c) + 1) /\ Depth(c, Len(c) + 1) = Depth(c, Top.again)
      BY ReadyFacts
    <2> QED BY <2>1, <2>2, ReadyResolved
  <1> HIDE DEF c1
  <1>3. Ready(c2, {"next"} \cup {"continue"})
    <2>1. Fragment(Leave(Top.s.cond), {"break"}, currentTryCatch)
      BY FragmentLeave
    <2>2. \A op \in {"break"} : op \in Own(Top.s) /\ op \notin {"next"} \cup {"continue"}
      BY <1>1
    <2> QED BY <1>2, <2>1, <2>2, ReadyJoined
  <1> HIDE DEF c2
  <1>4. Ready(c3, {"next"} \cup {"continue"})
    BY <1>3, ReadyJump
  <1> HIDE DEF c3
  <1>5. Ready(c4, ({"next"} \cup {"continue"}) \cup {"break"})
    <2>1. \A op \in {"break"} : op \in Own(Top.s)
      BY <1>1
    <2>2. Lands(c3, Len(c3) + 1) /\ Depth(c3, Len(c3) + 1) = Depth(c3, Top.again)
      BY <1>4, ReadyFacts
    <2> QED BY <1>4, <2>1, <2>2, ReadyResolved
  <1>6. EndDoWhile(c, Top) = c4
    BY DEF EndDoWhile, ResolveNext, c1, c2, c3
  <1>7. ({"next"} \cup {"continue"}) \cup {"break"} = {"next", "continue", "break"}
    OBVIOUS
  <1> HIDE DEF c4
  <1> QED BY <1>5, <1>6, <1>7

LEMMA ClosedFacts ==
  ASSUME CodeInv, Len(work) # 1
  PROVE  Closed(Closing(Ended(Top), Top))
  <1> DEFINE c == Ended(Top)
             d == Closing(c, Top)
  <1> SUFFICES Closed(d)
    OBVIOUS
  <1>1. Ready(c, {"next"})
    BY ReadyEnded
  <1> HIDE DEF c
  <1>2. Top.s.kind \in LoopKinds \cup {"if", "switch", "try"}
    BY TopFrame, StatementsAssumption
  <1>3. Lands(c, Len(c) + 1) /\ Depth(c, Len(c) + 1) = Depth(c, Top.again) /\ IsSeq(c)
    BY <1>1, ReadyFacts
  <1>4. CASE Top.s.kind \in {"if", "try"}
    <2>1. d = Resolve(c, Top.from, {"end"}, Len(c) + 1) /\ ~OverIterator(Top.s)
      BY <1>4 DEF Closing, ResolveNext, OverIterator
    <2>2. \A op \in {"end"} : op \in Own(Top.s)
      BY <1>4, OwnOf
    <2> HIDE DEF d
    <2>3. Ready(d, {"next"} \cup {"end"})
      BY <1>1, <1>3, <2>1, <2>2, ReadyResolved
    <2>4. Own(Top.s) \subseteq {"next"} \cup {"end"}
      BY <1>4, OwnOf
    <2> QED BY <2>1, <2>3, <2>4, ReadyClosed
  <1>5. CASE Top.s.kind = "switch"
    <2>1. d = Resolve(c, Top.from, {"break", "continue"}, Len(c) + 1) /\ ~OverIterator(Top.s)
      BY <1>5 DEF Closing, ResolveNext, OverIterator
    <2>2. \A op \in {"break", "continue"} : op \in Own(Top.s)
      BY <1>5, OwnOf
    <2> HIDE DEF d
    <2>3. Ready(d, {"next"} \cup {"break", "continue"})
      BY <1>1, <1>3, <2>1, <2>2, ReadyResolved
    <2>4. Own(Top.s) \subseteq {"next"} \cup {"break", "continue"}
      BY <1>5, OwnOf
    <2> QED BY <2>1, <2>3, <2>4, ReadyClosed
  <1>6. CASE Top.s.kind \in LoopKinds
    <2>1. Own(Top.s) \subseteq {"next", "continue", "break"}
      BY <1>6, OwnOf
    <2>2. CASE Top.s.kind = "do-while"
      <3>1. d = EndDoWhile(c, Top) /\ ~OverIterator(Top.s)
        BY <2>2 DEF Closing, OverIterator
      <3>2. Ready(EndDoWhile(c, Top), {"next", "continue", "break"})
        BY <1>1, <2>2, ReadyDoWhile
      <3> HIDE DEF d
      <3> QED BY <2>1, <3>1, <3>2, ReadyClosed
    <2>3. CASE OverIterator(Top.s)
      <3>1. d = Append(EndLoop(c, Top), Op("destroy"))
        BY <2>3 DEF Closing, EndIterator, OverIterator
      <3>2. Ready(EndLoop(c, Top), {"next", "continue", "break"})
        BY <1>1, <1>6, ReadyLoop
      <3> HIDE DEF d
      <3> QED BY <2>1, <2>3, <3>1, <3>2, ReadyDestroyed
    <2>4. CASE Top.s.kind # "do-while" /\ ~OverIterator(Top.s)
      <3>1. d = EndLoop(c, Top)
        BY <1>6, <2>4 DEF Closing, OverIterator, LoopKinds
      <3>2. Ready(EndLoop(c, Top), {"next", "continue", "break"})
        BY <1>1, <1>6, ReadyLoop
      <3> HIDE DEF d
      <3> QED BY <2>1, <2>4, <3>1, <3>2, ReadyClosed
    <2> QED BY <2>2, <2>3, <2>4
  <1> QED BY <1>2, <1>4, <1>5, <1>6

-----------------------------------------------------------------------------
(* The steps of the compiler.                                              *)

\* The innermost of the open statements is what it was but for its part and block.
Alike(w, v) ==
  /\ IsSeq(v) /\ Len(v) = Len(w)
  /\ \A k \in 1..Len(w) : /\ v[k].s = w[k].s /\ v[k].label = w[k].label
                          /\ v[k].from = w[k].from /\ v[k].again = w[k].again
                          /\ k # Len(w) => v[k].as = w[k].as

LEMMA TopReplaced ==
  ASSUME CodeInv, NEW f, IsFrame(f),
         f.s = Top.s, f.label = Top.label, f.from = Top.from, f.again = Top.again,
         Len(work) = 1 => f.parts = << >> /\ f.as = "body"
  PROVE  LET v == [work EXCEPT ![Len(work)] = f]
         IN  Alike(work, v) /\ Typed(v) /\ v[Len(v)].as = f.as
  <1> DEFINE v == [work EXCEPT ![Len(work)] = f]
  <1>3. /\ IsSeq(work) /\ Len(work) > 0 /\ Len(work) \in Nat /\ Len(work) \in 1..Len(work)
        /\ (Top.s.kind = "method" <=> Len(work) = 1)
        /\ Len(work) # 1 => Top.s \in Statements /\ Top.s.kind \notin Unnested
    BY TopFrame
  <1>4. /\ IsSeq(v) /\ Len(v) = Len(work) /\ v[Len(work)] = f
        /\ \A k \in 1..Len(work) : k # Len(work) => v[k] = work[k]
    BY <1>3, LastReplaced
  <1> HIDE DEF v
  <1>5. Alike(work, v)
    BY <1>3, <1>4 DEF Alike, Top
  <1>6. Typed(v)
    <2>1. ASSUME NEW k \in 1..Len(v)
          PROVE  /\ IsFrame(v[k])
                 /\ k = 1 => v[k].s.kind = "method" /\ v[k].parts = << >> /\ v[k].as = "body"
                 /\ k # 1 => v[k].s \in Statements /\ v[k].s.kind \notin Unnested
      <3>1. CASE k = Len(work)
        BY <1>3, <1>4, <3>1
      <3>2. CASE k # Len(work)
        BY <1>4, <3>2 DEF CodeInv, Typed
      <3> QED BY <3>1, <3>2
    <2> QED BY <1>3, <1>4, <2>1 DEF Typed
  <1>7. v[Len(v)].as = f.as
    BY <1>4
  <1> QED BY <1>5, <1>6, <1>7 DEF v

LEMMA AlikeStack ==
  ASSUME NEW c, NEW w, NEW v, Stack(c, w), Alike(w, v)
  PROVE  Stack(c, v) /\ (AtLevel(c, w) => AtLevel(c, v))
  BY StackSame DEF Alike

\* The try blocks that are open stay, but for one whose end has been printed.
LEMMA LabelsKept ==
  ASSUME NEW c, IsSeq(c), NEW d, IsSeq(d), NEW w, NEW v, NEW n, Labels(c, w, n),
         NEW ops, NEW m, Grows(c, d, ops, m),
         \A k \in 1..Len(w) : w[k].as = "try" =>
           \/ k \in 1..Len(v) /\ v[k].as = "try" /\ v[k].label = w[k].label
           \/ \E i \in 1..Len(d) : d[i] = Label(w[k].label)
  PROVE  Labels(d, v, n)
  <1>1. \A l : (\E i \in 1..Len(c) : c[i] = Label(l)) => \E i \in 1..Len(d) : d[i] = Label(l)
    BY GrowsLabels
  <1> SUFFICES ASSUME NEW l \in 1..n
               PROVE  \/ \E i \in 1..Len(d) : d[i] = Label(l)
                      \/ \E k \in 1..Len(v) : v[k].as = "try" /\ v[k].label = l
    BY DEF Labels
  <1>2. CASE \E i \in 1..Len(c) : c[i] = Label(l)
    BY <1>1, <1>2
  <1>3. CASE \E k \in 1..Len(w) : w[k].as = "try" /\ w[k].label = l
    BY <1>3
  <1> QED BY <1>2, <1>3 DEF Labels

LEMMA AfterFacts ==
  ASSUME CodeInv, Top.block # << >>
  PROVE  /\ Current \in Statements
         /\ Alike(work, After) /\ Typed(After) /\ After[Len(After)].as = Top.as
         /\ Stack(code, After) /\ AtLevel(code, After)
  <1>1. /\ IsFrame(Top) /\ Len(work) \in 1..Len(work) /\ IsSeq(work)
        /\ Len(work) = 1 => Top.parts = << >> /\ Top.as = "body"
    BY TopFrame
  <1>2. Current \in Statements /\ Tail(Top.block) \in StatementsBlock
    BY <1>1, BlockFacts DEF IsFrame, Current
  <1> DEFINE f == [Top EXCEPT !.block = Tail(Top.block)]
  <1>3. /\ DOMAIN f = {"s", "label", "from", "again", "as", "block", "parts"}
        /\ f.s = Top.s /\ f.label = Top.label /\ f.from = Top.from /\ f.again = Top.again
        /\ f.as = Top.as /\ f.block = Tail(Top.block) /\ f.parts = Top.parts
    BY <1>1 DEF IsFrame
  <1>4. After = [work EXCEPT ![Len(work)] = f]
    BY DEF After, Top
  <1> HIDE DEF f
  <1>5. Alike(work, After) /\ Typed(After) /\ After[Len(After)].as = Top.as
    <2>1. IsFrame(f)
      BY <1>1, <1>2, <1>3 DEF IsFrame
    <2> QED BY <1>1, <1>3, <1>4, <2>1, TopReplaced, ZenonT(60)
  <1>6. Stack(code, After) /\ AtLevel(code, After)
    BY <1>5, AlikeStack DEF CodeInv
  <1> QED BY <1>2, <1>5, <1>6

LEMMA InitCode ==
  ASSUME Init
  PROVE  CodeInv
  <1>1. PICK body \in Bodies :
          work = <<Opened([kind |-> "method", body |-> body], 0, 0, 1, "body", body, << >>)>>
    BY DEF Init
  <1> DEFINE f == Opened([kind |-> "method", body |-> body], 0, 0, 1, "body", body, << >>)
  <1>2. /\ DOMAIN f = {"s", "label", "from", "again", "as", "block", "parts"}
        /\ f.s.kind = "method" /\ f.from = 0 /\ f.again = 1 /\ f.as = "body"
        /\ f.block \in StatementsBlock /\ f.parts = << >>
    BY StatementsAssumption DEF Opened
  <1> HIDE DEF f
  <1>3. work = <<f>> /\ <<f>> \in Seq({f}) /\ Len(<<f>>) = 1 /\ <<f>>[1] = f
    BY <1>1 DEF f
  <1>4. IsSeq(work) /\ Len(work) = 1 /\ work[1] = f /\ \A k \in 1..Len(work) : k = 1
    <2>1. work \in Seq({f}) /\ Len(work) = 1 /\ work[1] = f
      BY <1>3
    <2>2. \A k \in 1..1 : k = 1
      OBVIOUS
    <2> HIDE <1>3
    <2> QED BY <2>1, <2>2 DEF IsSeq
  <1>5. code = << >> /\ insideTryCatch = 0 /\ currentTryCatch = 0
    BY DEF Init, MethodInit
  <1>6. << >> \in Seq({}) /\ Len(<< >>) = 0 /\ 1..0 = {}
    OBVIOUS
  <1>7. \A i \in 1..1 : Depth(<< >>, i) = 0
    <2>1. Obtains(<< >>, 1) = {} /\ Destroys(<< >>, 1) = {}
      BY DEF Obtains, Destroys
    <2>2. Depth(<< >>, 1) = 0
      BY <2>1, DepthFacts, FS_EmptySet
    <2> QED BY <2>2
  <1>8. WellFormed(code)
    <2>1. IsSeq(code) /\ Paired(code) /\ \A i \in 1..Len(code) : Lead(code, i)
      BY <1>5, <1>6 DEF IsSeq, Paired
    <2>2. \A i \in 1..(Len(code) + 1) : Depth(code, i) \in Nat
      BY <1>5, <1>6, <1>7
    <2> QED BY <2>1, <2>2 DEF WellFormed
  <1>9. Stack(code, work) /\ AtLevel(code, work)
    <2>1. Lands(code, 1)
      BY <1>5, <1>6 DEF Lands
    <2>2. Placed(code, work)
      BY <1>2, <1>4, <2>1 DEF Placed
    <2>3. Levels(code, work)
      BY <1>4 DEF Levels
    <2>4. Owners(code, work)
      BY <1>5, <1>6 DEF Owners
    <2> QED BY <1>2, <1>4, <1>5, <1>6, <2>2, <2>3, <2>4 DEF Stack, AtLevel
  <1>10. Typed(work)
    <2>1. IsParts(f.parts, f.s)
      BY <1>2, <1>6 DEF IsParts, IsSeq
    <2>2. IsFrame(f)
      BY <1>2, <2>1 DEF IsFrame
    <2> QED BY <1>2, <1>4, <2>2 DEF Typed
  <1>11. Sends(code, currentTryCatch) /\ Labels(code, work, currentTryCatch)
    BY <1>5, <1>6 DEF Sends, Labels
  <1> QED BY <1>5, <1>8, <1>9, <1>10, <1>11 DEF CodeInv

LEMMA SimpleGrows ==
  ASSUME CodeInv, CompileSimple
  PROVE  /\ WellFormed(code') /\ Stack(code', work') /\ AtLevel(code', work') /\ Typed(work')
         /\ Alike(work, work') /\ work'[Len(work')].as = Top.as
         /\ Grows(code, code', {Current.kind}, currentTryCatch)
         /\ UNCHANGED <<status, context>> /\ IsSeq(code')
  <1>1. /\ Top.block # << >> /\ Current.kind \in Unnested
        /\ code' = code \o Compiled(Current) /\ work' = After
        /\ UNCHANGED <<status, context>>
    BY DEF CompileSimple, AtStatement
  <1>2. /\ Current \in Statements
        /\ Alike(work, After) /\ Typed(After) /\ After[Len(After)].as = Top.as
        /\ Stack(code, After) /\ AtLevel(code, After)
    BY <1>1, AfterFacts
  <1> DEFINE f == Compiled(Current)
             n == currentTryCatch
  <1>3. Fragment(f, {Current.kind}, n)
    BY <1>1, InContext, FragmentCompiled
  <1>4. \A op \in {Current.kind} : op \in {"next", "end"} => Resolves(After[Len(After)].s, op)
    BY <1>1 DEF Unnested
  <1> HIDE DEF f
  <1>5. WellFormed(code)
    BY DEF CodeInv
  <1>6. /\ WellFormed(code \o f) /\ Stack(code \o f, After) /\ AtLevel(code \o f, After)
        /\ Grows(code, code \o f, {Current.kind}, n)
    BY <1>2, <1>3, <1>4, <1>5, FragmentPrinted
  <1>7. code' = code \o f
    BY <1>1 DEF f
  <1> QED BY <1>1, <1>2, <1>6, <1>7 DEF WellFormed

\* What a step of the compiler has to show of try blocks.
LEMMA CodeKept ==
  ASSUME CodeInv,
         WellFormed(code') /\ Stack(code', work') /\ AtLevel(code', work') /\ Typed(work'),
         NEW ops, Grows(code, code', ops, currentTryCatch'), currentTryCatch' = currentTryCatch,
         insideTryCatch' \in Int, insideTryCatch' <= insideTryCatch,
         \A k \in 1..Len(work) : work[k].as = "try" =>
           \/ k \in 1..Len(work') /\ work'[k].as = "try" /\ work'[k].label = work[k].label
           \/ \E i \in 1..Len(code') : code'[i] = Label(work[k].label)
  PROVE  CodeInv'
  <1>1. IsSeq(code) /\ IsSeq(code') /\ currentTryCatch \in Nat
    BY DEF CodeInv, WellFormed, Labels
  <1>2. Labels(code', work', currentTryCatch)
    BY <1>1, LabelsKept DEF CodeInv
  <1>3. currentTryCatch <= currentTryCatch
    BY <1>1
  <1>4. Sends(code', currentTryCatch)
    BY <1>1, <1>3, GrowsSends DEF CodeInv
  <1>5. insideTryCatch' > 0 => currentTryCatch > 0
    BY <1>1 DEF CodeInv
  <1> QED BY <1>2, <1>4, <1>5 DEF CodeInv

LEMMA SimpleCode ==
  ASSUME CodeInv, CompileSimple
  PROVE  CodeInv'
  <1>1. /\ WellFormed(code') /\ Stack(code', work') /\ AtLevel(code', work') /\ Typed(work')
        /\ Alike(work, work') /\ work'[Len(work')].as = Top.as
        /\ Grows(code, code', {Current.kind}, currentTryCatch')
        /\ insideTryCatch' = insideTryCatch /\ currentTryCatch' = currentTryCatch
    BY SimpleGrows DEF context
  <1>2. insideTryCatch' \in Int /\ insideTryCatch' <= insideTryCatch
    BY <1>1 DEF CodeInv
  <1>3. ASSUME NEW k \in 1..Len(work), work[k].as = "try"
        PROVE  k \in 1..Len(work') /\ work'[k].as = "try" /\ work'[k].label = work[k].label
    BY <1>1, <1>3 DEF Alike, Top
  <1> QED BY <1>1, <1>2, <1>3, CodeKept

\* The current part ends, and the next one begins.
LEMMA NextGrows ==
  ASSUME CodeInv, NextPart
  PROVE  /\ WellFormed(code') /\ Stack(code', work') /\ AtLevel(code', work') /\ Typed(work')
         /\ Alike(work, work') /\ work'[Len(work')].as # "try"
         /\ Grows(code, code', Own(Top.s), currentTryCatch)
         /\ Top.as = "try" => \E i \in 1..Len(code') : code'[i] = Label(Top.label)
         /\ Len(work) # 1
         /\ insideTryCatch' = Minus(insideTryCatch, Top.as = "try")
         /\ UNCHANGED <<status, insideCycle, insideSwitch, currentTryCatch>>
  <1> DEFINE p == Head(Top.parts)
             f == Further(Top)
             b == Beginning(p)
             c == Ended(Top)
             n == currentTryCatch
  <1>1. /\ Top.parts # << >> /\ code' = c \o b
        /\ insideTryCatch' = Minus(insideTryCatch, Top.as = "try")
        /\ UNCHANGED <<status, insideCycle, insideSwitch, currentTryCatch>>
    BY DEF NextPart
  <1>2. work' = [work EXCEPT ![Len(work)] = f]
    BY DEF NextPart, Top
  <1>3. /\ IsFrame(Top) /\ Len(work) # 1 /\ IsSeq(code) /\ Len(work) \in 1..Len(work) /\ Top.s.kind # "method"
    BY <1>1, TopFrame
  <1>4. /\ IsParts(Rest(Top.parts), Top.s) /\ p.stmts \in StatementsBlock /\ p.as # "try"
        /\ p.as = "arm" => Top.s.kind = "if"
    BY <1>1, <1>3, PartsRest DEF IsFrame
  <1> HIDE DEF p
  <1>5. /\ DOMAIN f = {"s", "label", "from", "again", "as", "block", "parts"}
        /\ f.s = Top.s /\ f.label = Top.label /\ f.from = Top.from /\ f.again = Top.again
        /\ f.as = p.as /\ f.block = p.stmts /\ f.parts = Rest(Top.parts)
    BY <1>3 DEF IsFrame, Further, p
  <1> HIDE DEF f, b, c
  <1>6. IsFrame(f)
    BY <1>4, <1>5 DEF IsFrame
  <1>7. Alike(work, work') /\ Typed(work') /\ work'[Len(work')].as # "try"
    <2>1. /\ Alike(work, [work EXCEPT ![Len(work)] = f]) /\ Typed([work EXCEPT ![Len(work)] = f])
          /\ [work EXCEPT ![Len(work)] = f][Len([work EXCEPT ![Len(work)] = f])].as = f.as
      BY <1>3, <1>5, <1>6, TopReplaced
    <2> QED BY <1>2, <1>4, <1>5, <2>1
  <1>8. /\ WellFormed(c) /\ Stack(c, work) /\ AtLevel(c, work) /\ IsSeq(c)
        /\ Grows(code, c, Own(Top.s), n)
        /\ Top.as = "try" => \E i \in 1..Len(c) : c[i] = Label(Top.label)
    BY <1>3, EndedFacts DEF c, WellFormed
  <1>9. Stack(c, work') /\ AtLevel(c, work')
    BY <1>7, <1>8, AlikeStack
  <1>10. "next" \in Own(Top.s) /\ work'[Len(work')].s = Top.s
    BY <1>3, <1>7, OwnOf DEF Alike, Top
  <1>11. Fragment(b, {"next"}, n)
    BY InContext, FragmentBeginning DEF b
  <1>12. Fragment(b, Own(Top.s), n)
    BY <1>10, <1>11, FragmentMore
  <1>13. \A op \in Own(Top.s) : Resolves(work'[Len(work')].s, op)
    BY <1>10 DEF Own
  <1>14. WellFormed(c \o b) /\ Stack(c \o b, work') /\ AtLevel(c \o b, work') /\ Grows(c, c \o b, Own(Top.s), n)
    BY <1>8, <1>9, <1>12, <1>13, FragmentPrinted
  <1>15. IsSeq(c \o b)
    BY <1>14 DEF WellFormed
  <1>16. Grows(code, c \o b, Own(Top.s), n)
    BY <1>3, <1>8, <1>14, <1>15, GrowsOn
  <1>17. Top.as = "try" => \E i \in 1..Len(c \o b) : (c \o b)[i] = Label(Top.label)
    BY <1>8, <1>14, <1>15, GrowsLabels
  <1> QED BY <1>1, <1>3, <1>7, <1>14, <1>16, <1>17

LEMMA NextCode ==
  ASSUME CodeInv, NextPart
  PROVE  CodeInv'
  <1>1. /\ WellFormed(code') /\ Stack(code', work') /\ AtLevel(code', work') /\ Typed(work')
        /\ Alike(work, work')
        /\ Grows(code, code', Own(Top.s), currentTryCatch')
        /\ Top.as = "try" => \E i \in 1..Len(code') : code'[i] = Label(Top.label)
        /\ insideTryCatch' = Minus(insideTryCatch, Top.as = "try") /\ currentTryCatch' = currentTryCatch
    BY NextGrows
  <1>2. insideTryCatch' \in Int /\ insideTryCatch' <= insideTryCatch
    BY <1>1 DEF CodeInv, Minus
  <1>3. ASSUME NEW k \in 1..Len(work), work[k].as = "try"
        PROVE  \/ k \in 1..Len(work') /\ work'[k].as = "try" /\ work'[k].label = work[k].label
               \/ \E i \in 1..Len(code') : code'[i] = Label(work[k].label)
    <2>1. CASE k = Len(work)
      BY <1>1, <1>3, <2>1 DEF Top
    <2>2. CASE k # Len(work)
      BY <1>1, <1>3, <2>2 DEF Alike
    <2> QED BY <2>1, <2>2
  <1> QED BY <1>1, <1>2, <1>3, CodeKept

LEMMA CloseGrows ==
  ASSUME CodeInv, CloseStatement
  PROVE  /\ Closed(code') /\ Len(work) # 1 /\ IsSeq(code')
         /\ work' = Front(work) /\ Typed(work') /\ Len(work') = Len(work) - 1 /\ IsSeq(work')
         /\ \A k \in 1..Len(work') : k \in 1..Len(work) /\ k # Len(work) /\ work'[k] = work[k]
         /\ \A k \in 1..Len(work) : k # Len(work) => k \in 1..Len(work')
         /\ insideTryCatch' = Minus(insideTryCatch, Top.as = "try")
         /\ UNCHANGED <<status, currentTryCatch>>
  <1>1. /\ Len(work) > 1 /\ code' = Closing(Ended(Top), Top) /\ work' = Front(work)
        /\ insideTryCatch' = Minus(insideTryCatch, Top.as = "try")
        /\ UNCHANGED <<status, currentTryCatch>>
    BY DEF CloseStatement, Front
  <1>2. IsSeq(work) /\ Len(work) \in Nat
    BY TopFrame
  <1>3. Len(work) # 1
    <2> DEFINE k == Len(work)
    <2>1. k > 1
      BY <1>1
    <2>2. k \in Nat
      BY <1>2
    <2> HIDE DEF k
    <2>3. k # 1
      BY <2>1, <2>2
    <2> QED BY <2>3 DEF k
  <1>4. Closed(code')
    BY <1>1, <1>3, ClosedFacts
  <1>5. IsSeq(work') /\ Len(work') = Len(work) - 1 /\ \A k \in 1..Len(work') : work'[k] = work[k]
    BY <1>1, <1>2, SeqFront
  <1>6. /\ \A k \in 1..Len(work') : k \in 1..Len(work) /\ k # Len(work)
        /\ \A k \in 1..Len(work) : k # Len(work) => k \in 1..Len(work')
        /\ Len(work') > 0
    BY <1>1, <1>2, <1>5
  <1>7. Typed(work')
    BY <1>5, <1>6 DEF CodeInv, Typed
  <1> QED BY <1>1, <1>3, <1>4, <1>5, <1>6, <1>7 DEF Closed, WellFormed

LEMMA CloseCode ==
  ASSUME CodeInv, CloseStatement
  PROVE  CodeInv'
  <1>1. /\ Closed(code') /\ work' = Front(work) /\ Typed(work')
        /\ \A k \in 1..Len(work') : work'[k] = work[k]
        /\ \A k \in 1..Len(work) : k # Len(work) => k \in 1..Len(work')
        /\ insideTryCatch' = Minus(insideTryCatch, Top.as = "try") /\ currentTryCatch' = currentTryCatch
    BY CloseGrows
  <1>2. /\ WellFormed(code') /\ Stack(code', work') /\ AtLevel(code', work')
        /\ Grows(code, code', Own(Top.s), currentTryCatch')
        /\ Top.as = "try" => \E i \in 1..Len(code') : code'[i] = Label(Top.label)
    BY <1>1 DEF Closed
  <1>3. insideTryCatch' \in Int /\ insideTryCatch' <= insideTryCatch
    BY <1>1 DEF CodeInv, Minus
  <1>4. ASSUME NEW k \in 1..Len(work), work[k].as = "try"
        PROVE  \/ k \in 1..Len(work') /\ work'[k].as = "try" /\ work'[k].label = work[k].label
               \/ \E i \in 1..Len(code') : code'[i] = Label(work[k].label)
    <2>1. CASE k = Len(work)
      BY <1>2, <1>4, <2>1 DEF Top
    <2>2. CASE k # Len(work)
      BY <1>1, <1>4, <2>2
    <2> QED BY <2>1, <2>2
  <1> QED BY <1>1, <1>2, <1>3, <1>4, CodeKept

\* What a statement prints when it is opened.
LEMMA FragmentFlag ==
  ASSUME NEW s, NEW b, NEW ops, NEW n
  PROVE  Fragment(<<FlagOp(s, b)>>, ops, n)
  <1>1. Plain(FlagOp(s, b), ops, n)
    BY DEF Plain, FlagOp, Tests, Pending
  <1> QED BY <1>1, FragmentOne

LEMMA FragmentSetup ==
  ASSUME NEW s, ~OverIterator(s), NEW n
  PROVE  Fragment(Setup(s), Own(s), n)
  <1>1. CASE s.kind = "for" /\ s.over = "range"
    <2>1. "break" \in Own(s)
      BY <1>1, OwnOf DEF LoopKinds
    <2>2. Fragment(Leave(s.cond), Own(s), n)
      BY <2>1, FragmentLeave, FragmentMore
    <2>3. Fragment(<<FlagOp(s, FALSE)>> \o Leave(s.cond), Own(s), n)
      BY <2>2, FragmentFlag, FragmentJoined
    <2> QED BY <1>1, <2>3 DEF Setup
  <1>2. CASE ~(s.kind = "for" /\ s.over = "range")
    <2>1. Setup(s) = << >>
      BY <1>2 DEF Setup, OverIterator
    <2> QED BY <2>1, FragmentEmpty
  <1> QED BY <1>1, <1>2

OverRange(s) == s.kind = "for" /\ s.over = "range"

LEMMA FragmentOpening ==
  ASSUME NEW s, ~OverRange(s), NEW m, NEW n, Context(n)
  PROVE  Fragment(Opening(s, m), Own(s), n)
  <1>1. s.kind \in LoopKinds => Fragment(Leave(s.cond), Own(s), n)
    BY OwnOf, FragmentLeave, FragmentMore
  <1>2. CASE s.kind = "while"
    <2>1. Fragment(Before(s.cond) \o Leave(s.cond), Own(s), n)
      BY <1>1, <1>2, FragmentBefore, FragmentJoined DEF LoopKinds
    <2> QED BY <1>2, <2>1 DEF Opening
  <1>3. CASE s.kind = "for" /\ s.over = "array"
    BY <1>1, <1>3 DEF Opening, LoopKinds
  <1>4. CASE s.kind = "for" /\ s.over = "iterator"
    <2>1. "break" \in Own(s) /\ IteratorOp("iterate", s).op \in Tests /\ Op("break").op = "break"
      BY <1>4, OwnOf DEF LoopKinds, IteratorOp, Tests, Op
    <2>2. Fragment(<<IteratorOp("iterate", s), Op("break")>>, Own(s), n)
      BY <2>1, FragmentTest DEF Pending
    <2> QED BY <1>4, <2>2 DEF Opening
  <1>5. CASE s.kind = "switch"
    <2> DEFINE e == [op |-> "select", id |-> s.id,
                     values |-> {s.clauses[i].value : i \in DOMAIN s.clauses} \ {0}]
    <2>1. Plain(e, Own(s), n)
      BY DEF Plain, Tests, Pending
    <2>2. Opening(s, m) = <<e>>
      BY <1>5 DEF Opening
    <2> HIDE DEF e
    <2> QED BY <2>1, <2>2, FragmentOne
  <1>6. CASE /\ s.kind \notin {"while", "switch"} /\ ~OverRange(s)
             /\ ~(s.kind = "for" /\ s.over = "array") /\ ~(s.kind = "for" /\ s.over = "iterator")
    <2>1. Opening(s, m) = << >>
      BY <1>6 DEF Opening, OverRange
    <2> QED BY <2>1, FragmentEmpty
  <1> QED BY <1>2, <1>3, <1>4, <1>5, <1>6

\* The opening of a loop over a range jumps over its step to the flag.
RangeStart(f, m, n) ==
  /\ IsSeq(f) /\ Paired(f) /\ Flat(f) /\ Sends(f, n)
  /\ Len(f) = 5 /\ f[5].op = "flag"
  /\ \A i \in 1..Len(f) : /\ f[i].op = "jump" => f[i].to = m + 4
                          /\ f[i].op \in Pending => f[i].op = "break"

LEMMA RangeOpening ==
  ASSUME NEW s, OverRange(s), NEW m, NEW n
  PROVE  RangeStart(Opening(s, m), m, n)
  <1> DEFINE e == [op |-> "if_temp", id |-> s.cond.id]
             j == Jump(m + 4)
             a == <<e, j>>
             b == Leave(s.cond)
             d == <<FlagOp(s, TRUE)>>
             ab == a \o b
             f == ab \o d
  <1>1. e.op = "if_temp" /\ j.op = "jump" /\ j.to = m + 4
    BY DEF Jump
  <1> HIDE DEF e, j
  <1>2. /\ a \in Seq({e, j}) /\ Len(a) = 2 /\ a[1] = e /\ a[2] = j
        /\ \A i \in 1..2 : i = 1 \/ i = 2
    OBVIOUS
  <1>3. /\ IsSeq(a) /\ Paired(a) /\ Flat(a) /\ Sends(a, n)
        /\ \A i \in 1..Len(a) : /\ a[i].op = "jump" => a[i].to = m + 4
                                /\ a[i].op \notin Pending
    <2>1. 1 + 1 = 2 /\ 1 < 2
      OBVIOUS
    <2> HIDE DEF a
    <2>2. Paired(a)
      BY <1>1, <1>2, <2>1 DEF Paired, Tests
    <2> QED BY <1>1, <1>2, <2>2 DEF IsSeq, Flat, Sends, Pending
  <1>4. /\ Fragment(b, {"break"}, n) /\ IsSeq(b) /\ Paired(b) /\ Flat(b) /\ Sends(b, n)
        /\ \A i \in 1..Len(b) : b[i].op # "jump" /\ (b[i].op \in Pending => b[i].op = "break")
    BY FragmentLeave DEF Fragment
  <1>5. Len(b) = 2
    BY DEF Leave
  <1>6. /\ IsSeq(d) /\ Paired(d) /\ Flat(d) /\ Sends(d, n) /\ Len(d) = 1 /\ d[1].op = "flag"
        /\ \A i \in 1..Len(d) : d[i].op # "jump" /\ d[i].op \notin Pending
    <2>1. Fragment(d, {}, n)
      BY FragmentFlag
    <2>2. Len(d) = 1 /\ d[1].op = "flag"
      BY DEF FlagOp
    <2> QED BY <2>1, <2>2 DEF Fragment
  <1> HIDE DEF a, b, d
  <1>7. /\ IsSeq(ab) /\ Len(ab) = 4
        /\ \A i \in 1..Len(a) : ab[i] = a[i]
        /\ \A i \in 1..Len(ab) : i > Len(a) => i - Len(a) \in 1..Len(b) /\ ab[i] = b[i - Len(a)]
    <2>1. /\ IsSeq(ab) /\ Len(ab) = Len(a) + Len(b)
          /\ \A i \in 1..Len(a) : ab[i] = a[i]
          /\ \A i \in 1..Len(ab) : i > Len(a) => i - Len(a) \in 1..Len(b) /\ ab[i] = b[i - Len(a)]
      BY <1>3, <1>4, SeqJoined
    <2>2. Len(ab) = 4
      BY <1>2, <1>5, <2>1
    <2> QED BY <2>1, <2>2
  <1>8. Paired(ab)
    BY <1>3, <1>4, PairedJoined
  <1> HIDE DEF ab
  <1>9. /\ IsSeq(f) /\ Len(f) = 5
        /\ \A i \in 1..Len(ab) : f[i] = ab[i]
        /\ \A i \in 1..Len(f) : i > Len(ab) => i - Len(ab) \in 1..Len(d) /\ f[i] = d[i - Len(ab)]
    <2>1. /\ IsSeq(f) /\ Len(f) = Len(ab) + Len(d)
          /\ \A i \in 1..Len(ab) : f[i] = ab[i]
          /\ \A i \in 1..Len(f) : i > Len(ab) => i - Len(ab) \in 1..Len(d) /\ f[i] = d[i - Len(ab)]
      <3>1. IsSeq(ab) /\ IsSeq(d)
        BY <1>6, <1>7
      <3> QED BY <3>1, SeqJoined
    <2>2. Len(f) = 5
      BY <1>6, <1>7, <2>1
    <2> QED BY <2>1, <2>2
  <1>10. Paired(f)
    BY <1>6, <1>7, <1>8, PairedJoined
  <1> HIDE DEF f
  <1>11. \A i \in 1..Len(f) : \/ \E k \in 1..Len(a) : f[i] = a[k]
                              \/ \E k \in 1..Len(b) : f[i] = b[k]
                              \/ \E k \in 1..Len(d) : f[i] = d[k]
    <2> SUFFICES ASSUME NEW i \in 1..5
                 PROVE  \/ \E k \in 1..Len(a) : f[i] = a[k]
                        \/ \E k \in 1..Len(b) : f[i] = b[k]
                        \/ \E k \in 1..Len(d) : f[i] = d[k]
      BY <1>9
    <2>1. CASE i > 4
      BY <1>7, <1>9, <2>1
    <2>2. CASE i <= 4
      <3>1. i \in 1..Len(ab) /\ f[i] = ab[i]
        BY <1>7, <1>9, <2>2
      <3>2. CASE i > 2
        BY <1>2, <1>7, <3>1, <3>2
      <3>3. CASE i <= 2
        <4>1. i \in 1..Len(a)
          BY <1>2, <3>3
        <4> QED BY <1>7, <3>1, <4>1
      <3> QED BY <3>2, <3>3
    <2> QED BY <2>1, <2>2
  <1>12. f[5].op = "flag"
    <2>1. 5 \in 1..Len(f) /\ 5 > Len(ab) /\ 5 - Len(ab) = 1
      BY <1>7, <1>9
    <2> QED BY <1>6, <1>9, <2>1
  <1>13. Flat(f) /\ Sends(f, n)
    BY <1>3, <1>4, <1>6, <1>11, ZenonT(60) DEF Flat, Sends
  <1>14. \A i \in 1..Len(f) : /\ f[i].op = "jump" => f[i].to = m + 4
                              /\ f[i].op \in Pending => f[i].op = "break"
    BY <1>3, <1>4, <1>6, <1>11
  <1>15. Opening(s, m) = f
    BY DEF Opening, OverRange, e, j, a, b, d, ab, f
  <1>16. RangeStart(f, m, n)
    BY <1>9, <1>10, <1>12, <1>13, <1>14 DEF RangeStart
  <1> QED BY <1>15, <1>16

\* The new statement is on the stack once its Setup is printed.
LEMMA SetupPushed ==
  ASSUME NEW c, WellFormed(c), NEW w, Stack(c, w), AtLevel(c, w), NEW n, NEW s, s.kind # "method",
         NEW fr, fr.s = s, fr.from = Len(c), fr.again = Len(c \o Setup(s)) + 1
  PROVE  /\ WellFormed(c \o Setup(s))
         /\ Stack(c \o Setup(s), Append(w, fr)) /\ AtLevel(c \o Setup(s), Append(w, fr))
         /\ Grows(c, c \o Setup(s), Own(s), n)
         /\ IsSeq(Setup(s)) /\ Len(c \o Setup(s)) = Len(c) + Len(Setup(s))
  <1> DEFINE g == Setup(s)
             d == c \o g
  <1>1. IsSeq(c) /\ Len(c) \in Nat /\ Depth(c, Len(c) + 1) \in Nat
    <2>1. IsSeq(c) /\ Len(c) \in Nat
      BY SeqFacts DEF WellFormed
    <2>2. Len(c) + 1 \in 1..(Len(c) + 1)
      BY <2>1
    <2> QED BY <2>1, <2>2 DEF WellFormed
  <1>2. CASE ~OverIterator(s)
    <2>1. Fragment(g, Own(s), n)
      BY <1>2, FragmentSetup
    <2> HIDE DEF g
    <2>2. /\ IsSeq(g) /\ Paired(g) /\ Flat(g) /\ Sends(g, n) /\ Len(g) \in Nat
          /\ \A i \in 1..Len(g) : g[i].op # "jump" /\ (g[i].op \in Pending => g[i].op \in Own(s))
      BY <2>1, SeqFacts DEF Fragment
    <2>3. WellFormed(d) /\ Len(d) = Len(c) + Len(g)
      BY <1>1, <2>2, WellJoinedFlat, SeqJoined
    <2>4. \A i \in 1..(Len(g) + 1) : Depth(d, Len(c) + i) = Depth(c, Len(c) + 1)
      BY <1>1, <2>2, FlatJoined
    <2>5. Depth(d, Len(d) + 1) = Depth(c, Len(c) + 1)
      <3>1. Len(g) + 1 \in 1..(Len(g) + 1) /\ Len(c) + (Len(g) + 1) = Len(d) + 1
        BY <1>1, <2>2, <2>3
      <3> QED BY <2>4, <3>1
    <2>6. \A i \in 1..Len(g) : g[i].op \in Pending =>
            Resolves(fr.s, g[i].op) /\ Depth(d, Len(c) + i) = Depth(d, Len(d) + 1)
      <3>1. \A i \in 1..Len(g) : i \in 1..(Len(g) + 1)
        BY <2>2
      <3> QED BY <2>2, <2>4, <2>5, <3>1 DEF Own
    <2>7. fr.again = Len(d) + 1
      BY DEF g
    <2> HIDE DEF d
    <2>8. Stack(c \o g, Append(w, fr)) /\ AtLevel(c \o g, Append(w, fr))
      BY <1>2, <2>2, <2>3, <2>5, <2>6, <2>7, StackPushed DEF d
    <2>9. Grows(c, c \o g, Own(s), n)
      BY <1>1, <2>2, GrowsJoined
    <2> QED BY <2>2, <2>3, <2>8, <2>9 DEF d, g
  <1>3. CASE OverIterator(s)
    <2> DEFINE e == IteratorOp("get_iterator", s)
    <2>1. e.op = "get_iterator" /\ g = <<e>>
      BY <1>3 DEF IteratorOp, Setup, OverIterator
    <2> HIDE DEF e, g
    <2>2. IsSeq(g) /\ Len(g) = 1 /\ g[1] = e
      BY <1>1, <2>1, SeqAppended
    <2>3. \A i \in 1..Len(g) : i = 1
      BY <2>2
    <2>4. Paired(g) /\ Sends(g, n) /\ \A i \in 1..Len(g) : g[i].op \notin Pending
      BY <2>1, <2>2, <2>3 DEF Paired, Sends, Tests, Pending
    <2>5. IsSeq(d) /\ Len(d) = Len(c) + 1 /\ d[Len(c) + 1] = e
      <3>1. /\ IsSeq(d) /\ Len(d) = Len(c) + Len(g)
            /\ \A i \in 1..Len(g) : d[Len(c) + i] = g[i]
        <4>1. IsSeq(c) /\ IsSeq(g)
          BY <1>1, <2>2
        <4> QED BY <4>1, SeqJoined
      <3>2. 1 \in 1..Len(g)
        BY <2>2
      <3> QED BY <2>2, <3>1, <3>2
    <2>6. Depth(d, Len(d) + 1) = Depth(c, Len(c) + 1) + 1
      <3>1. Len(c) + 1 \in 1..(Len(c) + 1) /\ Len(c) + 1 \in Nat /\ Len(c) + 1 > 0
        BY <1>1
      <3>2. Depth(d, Len(c) + 1) = Depth(c, Len(c) + 1)
        BY <1>1, <2>2, <3>1, PrefixSame
      <3>3. Depth(d, (Len(c) + 1) + 1) = Depth(d, Len(c) + 1) + 1
        BY <2>1, <2>5, <3>1, DepthStep
      <3> QED BY <2>5, <3>2, <3>3
    <2>7. WellFormed(d)
      <3>1. \A i \in 1..Len(g) : Lead(d, Len(c) + i)
        BY <2>1, <2>3, <2>5 DEF Lead
      <3>2. \A i \in 1..Len(g) : Depth(d, Len(c) + i + 1) \in Nat
        BY <1>1, <2>3, <2>5, <2>6
      <3> QED BY <1>1, <2>2, <2>4, <3>1, <3>2, WellJoined
    <2>8. fr.again = Len(d) + 1
      BY DEF g
    <2> HIDE DEF d
    <2>9. Stack(c \o g, Append(w, fr)) /\ AtLevel(c \o g, Append(w, fr))
      BY <1>3, <2>2, <2>4, <2>6, <2>7, <2>8, StackPushed DEF d
    <2>10. Grows(c, c \o g, Own(s), n)
      BY <1>1, <2>2, <2>4, GrowsJoined
    <2> QED BY <2>2, <2>5, <2>7, <2>9, <2>10 DEF d, g
  <1> QED BY <1>2, <1>3

\* Then the C loop begins.
LEMMA OpeningPrinted ==
  ASSUME NEW c, WellFormed(c), NEW w, Stack(c, w), AtLevel(c, w), NEW n, Context(n),
         NEW s, w[Len(w)].s = s
  PROVE  LET d == c \o Opening(s, Len(c) + 1) IN
         WellFormed(d) /\ Stack(d, w) /\ AtLevel(d, w) /\ Grows(c, d, Own(s), n)
  <1> DEFINE m == Len(c) + 1
             f == Opening(s, m)
             d == c \o f
  <1>1. IsSeq(c) /\ Len(c) \in Nat
    BY SeqFacts DEF WellFormed
  <1>2. CASE ~OverRange(s)
    <2>1. Fragment(f, Own(s), n)
      BY <1>2, FragmentOpening
    <2>2. \A op \in Own(s) : Resolves(w[Len(w)].s, op)
      BY DEF Own
    <2> HIDE DEF f
    <2>3. WellFormed(d) /\ Stack(d, w) /\ AtLevel(d, w) /\ Grows(c, d, Own(s), n)
      BY <2>1, <2>2, FragmentPrinted
    <2> QED BY <2>3 DEF f
  <1>3. CASE OverRange(s)
    <2>1. /\ IsSeq(f) /\ Paired(f) /\ Flat(f) /\ Sends(f, n)
          /\ Len(f) = 5 /\ f[5].op = "flag"
          /\ \A i \in 1..Len(f) : /\ f[i].op = "jump" => f[i].to = m + 4
                                  /\ f[i].op \in Pending => f[i].op = "break"
      <3>1. RangeStart(f, m, n)
        BY <1>3, RangeOpening
      <3> HIDE DEF f, m
      <3> QED BY <3>1 DEF RangeStart
    <2> HIDE DEF f
    <2>2. Len(d) = Len(c) + 5 /\ d[Len(c) + 5].op = "flag"
      <3>1. 5 \in 1..Len(f)
        BY <2>1
      <3>2. Len(d) = Len(c) + Len(f) /\ \A i \in 1..Len(f) : d[Len(c) + i] = f[i]
        <4>1. IsSeq(c) /\ IsSeq(f)
          BY <1>1, <2>1
        <4> QED BY <4>1, SeqJoined
      <3> QED BY <2>1, <3>1, <3>2
    <2>3. Lands(d, m + 4) /\ Depth(d, m + 4) = Depth(c, Len(c) + 1)
      <3>1. m + 4 = Len(c) + 5 /\ 5 \in 1..(Len(f) + 1) /\ Len(c) + 5 \in 1..(Len(d) + 1)
        BY <1>1, <2>1, <2>2
      <3>2. Depth(d, Len(c) + 5) = Depth(c, Len(c) + 1)
        BY <1>1, <2>1, <3>1, FlatJoined
      <3> QED BY <2>2, <3>1, <3>2 DEF Lands
    <2>4. \A i \in 1..Len(f) : f[i].op = "jump" =>
            Lands(d, f[i].to) /\ Depth(d, f[i].to) = Depth(c, Len(c) + 1)
      BY <2>1, <2>3
    <2>5. \A i \in 1..Len(f) : f[i].op \in {"next", "end"} => Resolves(w[Len(w)].s, f[i].op)
      BY <2>1 DEF Pending
    <2>6. "break" \in Own(s)
      BY <1>3, OwnOf DEF OverRange, LoopKinds
    <2> HIDE DEF m
    <2>7. WellFormed(d) /\ Stack(d, w) /\ AtLevel(d, w)
      BY <2>1, <2>4, <2>5, StackJoined
    <2>8. Grows(c, d, Own(s), n)
      BY <1>1, <2>1, <2>6, GrowsJoined
    <2> QED BY <2>7, <2>8 DEF f, m
  <1> QED BY <1>2, <1>3

LEMMA OpenGrows ==
  ASSUME CodeInv, OpenStatement
  PROVE  /\ WellFormed(code') /\ Stack(code', work') /\ AtLevel(code', work') /\ Typed(work')
         /\ Grows(code, code', Own(Current), currentTryCatch)
         /\ Len(work') = Len(work) + 1 /\ Len(work) \in Nat /\ Len(work) + 1 \in 1..Len(work')
         /\ \A k \in 1..Len(work) : /\ k \in 1..Len(work') /\ work'[k].s = work[k].s
                                    /\ work'[k].from = work[k].from
                                    /\ work'[k].label = work[k].label /\ work'[k].as = work[k].as
         /\ LET fr == work'[Len(work) + 1] IN
              /\ fr.s = Current /\ fr.from = Len(code) /\ fr.label = currentTryCatch'
              /\ fr.as = IF Current.kind = "try" THEN "try" ELSE "body"
         /\ Current \in Statements /\ Current.kind \notin Unnested
         /\ insideCycle' = Plus(insideCycle, Current.kind \in LoopKinds)
         /\ insideSwitch' = Plus(insideSwitch, Current.kind = "switch")
         /\ insideTryCatch' = Plus(insideTryCatch, Current.kind = "try")
         /\ currentTryCatch' = Plus(currentTryCatch, Current.kind = "try")
         /\ UNCHANGED status
  <1> DEFINE s == Current
             n == currentTryCatch
             isTry == s.kind = "try"
             again == Len(code) + Len(Setup(s)) + 1
             as == IF isTry THEN "try" ELSE "body"
             block == IF isTry \/ s.kind \in LoopKinds THEN s.body ELSE << >>
             fr == Opened(s, currentTryCatch', Len(code), again, as, block, Parts(s))
             c == code \o Setup(s)
             d == c \o Opening(s, again)
             w == After
             v == Append(After, fr)
  <1>1. /\ Top.block # << >> /\ s.kind \notin Unnested
        /\ code' = d /\ work' = v
        /\ insideCycle' = Plus(insideCycle, s.kind \in LoopKinds)
        /\ insideSwitch' = Plus(insideSwitch, s.kind = "switch")
        /\ insideTryCatch' = Plus(insideTryCatch, s.kind = "try")
        /\ currentTryCatch' = Plus(currentTryCatch, s.kind = "try")
        /\ UNCHANGED status
    BY DEF OpenStatement, AtStatement
  <1>2. /\ s \in Statements
        /\ Alike(work, w) /\ Typed(w) /\ w[Len(w)].as = Top.as
        /\ Stack(code, w) /\ AtLevel(code, w)
    BY <1>1, AfterFacts
  <1>3. s.kind \in LoopKinds \cup {"if", "switch", "try"} /\ s.kind # "method"
    BY <1>1, <1>2, StatementsAssumption DEF LoopKinds
  <1>4. block \in StatementsBlock
    BY <1>2, EmptyBlock, StatementsAssumption
  <1>5. /\ DOMAIN fr = {"s", "label", "from", "again", "as", "block", "parts"}
        /\ fr.s = s /\ fr.label = currentTryCatch' /\ fr.from = Len(code) /\ fr.again = again
        /\ fr.as = as /\ fr.block = block /\ fr.parts = Parts(s)
    BY DEF Opened
  <1> HIDE DEF fr
  <1>6. IsFrame(fr)
    <2>1. IsParts(fr.parts, fr.s)
      BY <1>2, <1>5, PartsTyped
    <2>2. /\ fr.as = "arm" => fr.s.kind = "if"
          /\ fr.as = "try" => fr.s.kind = "try"
      BY <1>5
    <2> QED BY <1>4, <1>5, <2>1, <2>2 DEF IsFrame
  <1>7. IsSeq(code) /\ Len(code) \in Nat /\ WellFormed(code) /\ Context(n) /\ Len(work) \in Nat
    BY TopFrame, InContext DEF CodeInv
  <1>8. IsSeq(w) /\ Len(w) = Len(work) /\ \A k \in 1..Len(work) :
          /\ w[k].s = work[k].s /\ w[k].label = work[k].label
          /\ w[k].from = work[k].from /\ w[k].as = work[k].as
    BY <1>2, <1>7 DEF Alike, Top
  <1> HIDE DEF w, s, again, as, block
  <1>9. IsSeq(Setup(s)) /\ again = Len(c) + 1
    <2>1. IsSeq(Setup(s))
      <3>1. CASE OverIterator(s)
        <4>1. Setup(s) = <<IteratorOp("get_iterator", s)>>
          BY <3>1 DEF OverIterator, Setup
        <4> QED BY <1>7, <4>1, SeqAppended
      <3>2. CASE ~OverIterator(s)
        BY <3>2, FragmentSetup DEF Fragment
      <3> QED BY <3>1, <3>2
    <2>2. Len(Setup(s)) \in Nat /\ Len(c) = Len(code) + Len(Setup(s))
      BY <1>7, <2>1, SeqFacts, SeqJoined
    <2> QED BY <1>7, <2>1, <2>2 DEF again
  <1>10. /\ WellFormed(c) /\ Stack(c, Append(w, fr)) /\ AtLevel(c, Append(w, fr))
         /\ Grows(code, c, Own(s), n)
    BY <1>2, <1>3, <1>5, <1>7, <1>9, SetupPushed
  <1>11. /\ v = Append(w, fr) /\ IsSeq(v) /\ Len(v) = Len(w) + 1 /\ v[Len(w) + 1] = fr
         /\ \A k \in 1..Len(w) : v[k] = w[k]
    BY <1>8, LastPushed DEF w
  <1> HIDE DEF c, v
  <1>12. v[Len(v)].s = s
    BY <1>5, <1>11
  <1>13. WellFormed(d) /\ Stack(d, v) /\ AtLevel(d, v) /\ Grows(c, d, Own(s), n)
    BY <1>7, <1>9, <1>10, <1>11, <1>12, OpeningPrinted
  <1> HIDE DEF d
  <1>14. Grows(code, d, Own(s), n)
    BY <1>7, <1>10, <1>13, GrowsOn DEF WellFormed
  <1>15. Typed(v)
    <2>1. ASSUME NEW k \in 1..Len(v)
          PROVE  /\ IsFrame(v[k])
                 /\ k = 1 => v[k].s.kind = "method" /\ v[k].parts = << >> /\ v[k].as = "body"
                 /\ k # 1 => v[k].s \in Statements /\ v[k].s.kind \notin Unnested
      <3>1. CASE k = Len(w) + 1
        <4>1. k # 1
          <5>1. Len(w) \in Nat /\ Len(w) > 0
            BY <1>7, <1>8, TopFrame
          <5> QED BY <3>1, <5>1
        <4> QED BY <1>1, <1>2, <1>5, <1>6, <1>11, <3>1, <4>1 DEF s
      <3>2. CASE k # Len(w) + 1
        <4>1. k \in 1..Len(w)
          BY <1>7, <1>8, <1>11, <3>2
        <4> QED BY <1>2, <1>11, <4>1 DEF Typed, w
      <3> QED BY <3>1, <3>2
    <2>2. Len(v) > 0
      BY <1>7, <1>8, <1>11
    <2> QED BY <1>11, <2>1, <2>2 DEF Typed
  <1>16. /\ Len(v) = Len(work) + 1 /\ Len(work) + 1 \in 1..Len(v) /\ v[Len(work) + 1] = fr
         /\ \A k \in 1..Len(work) : k \in 1..Len(v) /\ v[k] = w[k]
    BY <1>7, <1>8, <1>11
  <1>17. \A k \in 1..Len(work) : /\ k \in 1..Len(v) /\ v[k].s = work[k].s
                                 /\ v[k].from = work[k].from
                                 /\ v[k].label = work[k].label /\ v[k].as = work[k].as
    BY <1>8, <1>16
  <1>18. /\ fr.s = Current /\ fr.from = Len(code) /\ fr.label = currentTryCatch'
         /\ fr.as = IF Current.kind = "try" THEN "try" ELSE "body"
    BY <1>5 DEF s, as
  <1>19. code' = d /\ work' = v
    BY <1>1
  <1> QED BY <1>1, <1>2, <1>7, <1>13, <1>14, <1>15, <1>16, <1>17, <1>18, <1>19 DEF s

LEMMA OpenCode ==
  ASSUME CodeInv, OpenStatement
  PROVE  CodeInv'
  <1> DEFINE n == currentTryCatch
             isTry == Current.kind = "try"
             K == Len(work) + 1
  <1>1. /\ WellFormed(code') /\ Stack(code', work') /\ AtLevel(code', work') /\ Typed(work')
        /\ Grows(code, code', Own(Current), n)
        /\ K \in 1..Len(work')
        /\ \A k \in 1..Len(work) : /\ k \in 1..Len(work')
                                   /\ work'[k].label = work[k].label /\ work'[k].as = work[k].as
        /\ work'[K].label = currentTryCatch' /\ work'[K].as = IF isTry THEN "try" ELSE "body"
        /\ insideTryCatch' = Plus(insideTryCatch, isTry)
        /\ currentTryCatch' = Plus(n, isTry)
    BY OpenGrows
  <1>2. /\ IsSeq(code) /\ IsSeq(code') /\ n \in Nat /\ insideTryCatch \in Int
        /\ insideTryCatch > 0 => n > 0
    BY <1>1 DEF CodeInv, WellFormed, Labels
  <1>3. Labels(code', work', n)
    <2>1. Labels(code, work, n)
      BY DEF CodeInv
    <2> QED BY <1>1, <1>2, <2>1, LabelsKept
  <1>4. Sends(code', n)
    <2>1. n <= n /\ Sends(code, n)
      BY <1>2 DEF CodeInv
    <2> QED BY <1>1, <1>2, <2>1, GrowsSends
  <1> HIDE DEF n, isTry, K
  <1>5. CASE isTry
    <2>1. currentTryCatch' = n + 1 /\ insideTryCatch' = insideTryCatch + 1
      BY <1>1, <1>5 DEF Plus
    <2>2. Sends(code', n + 1)
      <3>1. \A k : (k \in 1..n => k \in 1..(n + 1)) /\ (k \in 0..n => k \in 0..(n + 1))
        BY <1>2
      <3> QED BY <1>4, <3>1 DEF Sends
    <2>3. Labels(code', work', n + 1)
      <3>1. n + 1 \in Nat /\ \A m \in 1..(n + 1) : m \in 1..n \/ m = n + 1
        BY <1>2
      <3>2. work'[K].as = "try" /\ work'[K].label = n + 1
        BY <1>1, <1>5, <2>1
      <3> QED BY <1>1, <1>3, <3>1, <3>2 DEF Labels
    <2>4. insideTryCatch' \in Int /\ n + 1 > 0
      BY <1>2, <2>1
    <2> QED BY <1>1, <2>1, <2>2, <2>3, <2>4 DEF CodeInv
  <1>6. CASE ~isTry
    <2>1. currentTryCatch' = n /\ insideTryCatch' = insideTryCatch
      BY <1>1, <1>6 DEF Plus
    <2> QED BY <1>1, <1>2, <1>3, <1>4, <2>1 DEF CodeInv
  <1> QED BY <1>5, <1>6

-----------------------------------------------------------------------------
(* The counters of the compilation context.                                *)

SwitchesHaveClauses == \A s \in Statements : s.kind = "switch" => s.clauses # << >>

OfKinds(w, kinds) == {k \in 1..Len(w) : w[k].s.kind \in kinds}
InBlocks(w) == {k \in 1..Len(w) : w[k].as = "try"}

BlocksCounted == insideTryCatch = Cardinality(InBlocks(work))

CountersInv ==
  /\ insideCycle = Cardinality(OfKinds(work, LoopKinds))
  /\ insideSwitch = Cardinality(OfKinds(work, {"switch"}))
  /\ BlocksCounted

LEMMA CountedMore ==
  ASSUME NEW n \in Nat, NEW A, A \subseteq 1..n
  PROVE  Cardinality(A \cup {n + 1}) = Cardinality(A) + 1
  <1>1. IsFiniteSet(1..n)
    BY FS_Interval
  <1>2. IsFiniteSet(A)
    BY <1>1, FS_Subset
  <1>3. n + 1 \notin A
    OBVIOUS
  <1> QED BY <1>2, <1>3, FS_AddElement

LEMMA CountedLess ==
  ASSUME NEW n \in Nat, NEW A, A \subseteq 1..n, NEW i
  PROVE  Cardinality(A \ {i}) = Minus(Cardinality(A), i \in A)
  <1>1. IsFiniteSet(A)
    <2>1. IsFiniteSet(1..n)
      BY FS_Interval
    <2> QED BY <2>1, FS_Subset
  <1>2. CASE i \in A
    BY <1>1, <1>2, FS_RemoveElement DEF Minus
  <1>3. CASE i \notin A
    <2>1. A \ {i} = A
      BY <1>3
    <2> QED BY <1>3, <2>1 DEF Minus
  <1> QED BY <1>2, <1>3

LEMMA CountedSome ==
  ASSUME NEW A, Cardinality(A) > 0
  PROVE  A # {}
  BY FS_EmptySet

LEMMA CountedIn ==
  ASSUME NEW w, NEW kinds
  PROVE  OfKinds(w, kinds) \subseteq 1..Len(w) /\ InBlocks(w) \subseteq 1..Len(w)
  BY DEF OfKinds, InBlocks

LEMMA AlikeKinds ==
  ASSUME NEW w, NEW v, Alike(w, v), NEW kinds
  PROVE  OfKinds(v, kinds) = OfKinds(w, kinds)
  BY DEF Alike, OfKinds

\* Whatever way a try block ends, it is counted down.
LEMMA BlocksKept ==
  ASSUME CodeInv, BlocksCounted, CompileSimple \/ OpenStatement \/ NextPart \/ CloseStatement
  PROVE  BlocksCounted'
  <1> DEFINE n == Len(work)
             v == work'
  <1>1. n \in Nat /\ n \in 1..n /\ InBlocks(work) \subseteq 1..n
    BY TopFrame, CountedIn
  <1>2. CASE CompileSimple
    <2>1. Alike(work, v) /\ v[Len(v)].as = Top.as /\ insideTryCatch' = insideTryCatch
      BY <1>2, SimpleGrows DEF context
    <2> HIDE DEF v
    <2>2. InBlocks(v) = InBlocks(work)
      BY <2>1 DEF InBlocks, Alike, Top
    <2>3. insideTryCatch' = Cardinality(InBlocks(v))
      BY <2>1, <2>2 DEF BlocksCounted
    <2> QED BY <2>3 DEF BlocksCounted, v
  <1>3. CASE OpenStatement
    <2>1. /\ Len(v) = n + 1 /\ \A k \in 1..n : v[k].as = work[k].as
          /\ v[n + 1].as = IF Current.kind = "try" THEN "try" ELSE "body"
          /\ insideTryCatch' = Plus(insideTryCatch, Current.kind = "try")
      BY <1>3, OpenGrows
    <2>2. \A k : k \in 1..(n + 1) <=> k \in 1..n \/ k = n + 1
      BY <1>1
    <2> HIDE DEF v
    <2>3. InBlocks(v) = IF Current.kind = "try" THEN InBlocks(work) \cup {n + 1} ELSE InBlocks(work)
      BY <2>1, <2>2 DEF InBlocks
    <2>4. Cardinality(InBlocks(work) \cup {n + 1}) = Cardinality(InBlocks(work)) + 1
      BY <1>1, CountedMore
    <2>5. insideTryCatch' = Cardinality(InBlocks(v))
      BY <2>1, <2>3, <2>4 DEF Plus, BlocksCounted
    <2> QED BY <2>5 DEF BlocksCounted, v
  <1>4. CASE NextPart \/ CloseStatement
    <2>1. insideTryCatch' = Minus(insideTryCatch, Top.as = "try")
      BY <1>4, NextGrows, CloseGrows
    <2>2. InBlocks(v) = InBlocks(work) \ {n}
      <3>1. CASE NextPart
        <4>1. Alike(work, v) /\ v[Len(v)].as # "try"
          BY <3>1, NextGrows
        <4> HIDE DEF v
        <4> QED BY <1>1, <4>1 DEF InBlocks, Alike
      <3>2. CASE CloseStatement
        <4>1. /\ \A k \in 1..Len(v) : k \in 1..n /\ k # n /\ v[k] = work[k]
              /\ \A k \in 1..n : k # n => k \in 1..Len(v)
          BY <3>2, CloseGrows
        <4> HIDE DEF v
        <4> QED BY <4>1 DEF InBlocks
      <3> QED BY <1>4, <3>1, <3>2
    <2> HIDE DEF v
    <2>3. n \in InBlocks(work) <=> Top.as = "try"
      BY <1>1 DEF InBlocks, Top
    <2>4. Cardinality(InBlocks(work) \ {n}) = Minus(Cardinality(InBlocks(work)), n \in InBlocks(work))
      BY <1>1, CountedLess
    <2>5. insideTryCatch' = Cardinality(InBlocks(v))
      BY <2>1, <2>2, <2>3, <2>4 DEF Minus, BlocksCounted
    <2> QED BY <2>5 DEF BlocksCounted, v
  <1> QED BY <1>2, <1>3, <1>4

LEMMA CountersInit ==
  ASSUME Init
  PROVE  CountersInv
  <1>1. CodeInv
    BY InitCode
  <1>2. Len(work) = 1 /\ insideCycle = 0 /\ insideSwitch = 0 /\ insideTryCatch = 0
    BY DEF Init
  <1>3. work[1].s.kind = "method" /\ work[1].as = "body"
    BY <1>1, <1>2 DEF CodeInv, Typed
  <1>4. \A k \in 1..Len(work) : k = 1
    BY <1>2
  <1>5. OfKinds(work, LoopKinds) = {} /\ OfKinds(work, {"switch"}) = {} /\ InBlocks(work) = {}
    BY <1>3, <1>4 DEF OfKinds, InBlocks, LoopKinds
  <1> QED BY <1>2, <1>5, FS_EmptySet DEF CountersInv, BlocksCounted

LEMMA CountersSimple ==
  ASSUME CodeInv, CountersInv, CompileSimple
  PROVE  CountersInv'
  <1>1. Alike(work, work') /\ work'[Len(work')].as = Top.as /\ UNCHANGED context
    BY SimpleGrows
  <1>2. BlocksCounted'
    BY BlocksKept DEF CountersInv
  <1>3. OfKinds(work', LoopKinds) = OfKinds(work, LoopKinds) /\ OfKinds(work', {"switch"}) = OfKinds(work, {"switch"})
    BY <1>1, AlikeKinds
  <1> QED BY <1>1, <1>2, <1>3 DEF CountersInv, context

LEMMA CountersOpen ==
  ASSUME CodeInv, CountersInv, OpenStatement
  PROVE  CountersInv'
  <1> DEFINE n == Len(work)
             v == work'
  <1>1. /\ Len(v) = n + 1 /\ n \in Nat
        /\ \A k \in 1..n : v[k].s = work[k].s
        /\ v[n + 1].s = Current
        /\ insideCycle' = Plus(insideCycle, Current.kind \in LoopKinds)
        /\ insideSwitch' = Plus(insideSwitch, Current.kind = "switch")
    BY OpenGrows
  <1>2. \A k : k \in 1..(n + 1) <=> k \in 1..n \/ k = n + 1
    BY <1>1
  <1> HIDE DEF v
  <1>3. ASSUME NEW kinds
        PROVE  OfKinds(v, kinds) = IF Current.kind \in kinds THEN OfKinds(work, kinds) \cup {n + 1}
                                                             ELSE OfKinds(work, kinds)
    BY <1>1, <1>2 DEF OfKinds
  <1>4. BlocksCounted'
    BY BlocksKept DEF CountersInv
  <1>5. ASSUME NEW kinds
        PROVE  Cardinality(OfKinds(v, kinds)) = Plus(Cardinality(OfKinds(work, kinds)), Current.kind \in kinds)
    <2>1. OfKinds(work, kinds) \subseteq 1..n
      BY CountedIn
    <2>2. Cardinality(OfKinds(work, kinds) \cup {n + 1}) = Cardinality(OfKinds(work, kinds)) + 1
      BY <1>1, <2>1, CountedMore
    <2> QED BY <1>3, <2>2 DEF Plus
  <1>7. (Current.kind \in {"switch"}) = (Current.kind = "switch")
    OBVIOUS
  <1>8. Cardinality(OfKinds(v, {"switch"})) = Plus(Cardinality(OfKinds(work, {"switch"})), Current.kind = "switch")
    BY <1>5, <1>7 DEF Plus
  <1>9. Cardinality(OfKinds(v, LoopKinds)) = Plus(Cardinality(OfKinds(work, LoopKinds)), Current.kind \in LoopKinds)
    BY <1>5
  <1>10. /\ insideCycle' = Cardinality(OfKinds(v, LoopKinds))
         /\ insideSwitch' = Cardinality(OfKinds(v, {"switch"}))
    BY <1>1, <1>8, <1>9 DEF CountersInv
  <1> QED BY <1>4, <1>10 DEF CountersInv, v

LEMMA CountersNext ==
  ASSUME CodeInv, CountersInv, NextPart
  PROVE  CountersInv'
  <1> DEFINE n == Len(work)
             v == work'
  <1>1. /\ Alike(work, v)
        /\ insideCycle' = insideCycle /\ insideSwitch' = insideSwitch
    BY NextGrows
  <1>2. n \in Nat /\ n \in 1..n
    BY TopFrame
  <1> HIDE DEF v
  <1>3. OfKinds(v, LoopKinds) = OfKinds(work, LoopKinds) /\ OfKinds(v, {"switch"}) = OfKinds(work, {"switch"})
    BY <1>1, AlikeKinds
  <1>4. BlocksCounted'
    BY BlocksKept DEF CountersInv
  <1>5. /\ insideCycle' = Cardinality(OfKinds(v, LoopKinds))
        /\ insideSwitch' = Cardinality(OfKinds(v, {"switch"}))
    BY <1>1, <1>3 DEF CountersInv
  <1> QED BY <1>4, <1>5 DEF CountersInv, v

LEMMA CountersClose ==
  ASSUME CodeInv, CountersInv, CloseStatement, SwitchesHaveClauses
  PROVE  CountersInv'
  <1> DEFINE n == Len(work)
             v == work'
  <1>1. /\ Len(v) = n - 1 /\ \A k \in 1..Len(v) : k \in 1..n /\ k # n /\ v[k] = work[k]
        /\ \A k \in 1..n : k # n => k \in 1..Len(v)
        /\ n # 1
    BY CloseGrows
  <1>2. n \in Nat /\ n \in 1..n /\ Top.s \in Statements
    BY <1>1, TopFrame
  <1>3. /\ insideCycle' = Minus(insideCycle, Top.s.kind \in LoopKinds)
        /\ insideSwitch' = Minus(insideSwitch, Top.s.kind = "switch" /\ Top.s.clauses # << >>)
    BY DEF CloseStatement
  <1>4. insideSwitch' = Minus(insideSwitch, Top.s.kind = "switch")
    BY <1>2, <1>3 DEF SwitchesHaveClauses, Minus
  <1> HIDE DEF v
  <1>5. ASSUME NEW kinds
        PROVE  Cardinality(OfKinds(v, kinds)) = Minus(Cardinality(OfKinds(work, kinds)), Top.s.kind \in kinds)
    <2>1. OfKinds(v, kinds) = OfKinds(work, kinds) \ {n} /\ (n \in OfKinds(work, kinds) <=> Top.s.kind \in kinds)
      BY <1>1, <1>2 DEF OfKinds, Top
    <2>2. OfKinds(work, kinds) \subseteq 1..n
      BY CountedIn
    <2>3. Cardinality(OfKinds(work, kinds) \ {n}) = Minus(Cardinality(OfKinds(work, kinds)), n \in OfKinds(work, kinds))
      BY <1>2, <2>2, CountedLess
    <2> QED BY <2>1, <2>3 DEF Minus
  <1>6. BlocksCounted'
    BY BlocksKept DEF CountersInv
  <1>7. Cardinality(OfKinds(v, {"switch"})) = Minus(Cardinality(OfKinds(work, {"switch"})), Top.s.kind = "switch")
    BY <1>5 DEF Minus
  <1>8. Cardinality(OfKinds(v, LoopKinds)) = Minus(Cardinality(OfKinds(work, LoopKinds)), Top.s.kind \in LoopKinds)
    BY <1>5
  <1>9. /\ insideCycle' = Cardinality(OfKinds(v, LoopKinds))
        /\ insideSwitch' = Cardinality(OfKinds(v, {"switch"}))
    BY <1>3, <1>4, <1>7, <1>8 DEF CountersInv
  <1> QED BY <1>6, <1>9 DEF CountersInv, v

-----------------------------------------------------------------------------
(* The places the pending statements go to.                                *)

LEMMA HomesInit ==
  ASSUME Init
  PROVE  Homes(code, work)
  <1>1. code = << >> /\ Len(<< >>) = 0 /\ 1..0 = {}
    BY DEF Init, MethodInit
  <1> QED BY <1>1 DEF Homes

\* Those of ops that are printed have an open statement to go to.
LEMMA HomesKept ==
  ASSUME NEW c, IsSeq(c), NEW d, IsSeq(d), NEW w, NEW v, Homes(c, w),
         NEW ops, NEW n, Grows(c, d, ops, n),
         NEW k \in 1..Len(v), \A op \in ops : Resolves(v[k].s, op), v[k].from <= Len(c), v[k].from \in Nat,
         \A j \in 1..Len(w) : j \in 1..Len(v) /\ v[j].s = w[j].s /\ v[j].from = w[j].from
  PROVE  Homes(d, v)
  <1>1. Len(c) \in Nat /\ Len(d) \in Nat
    BY SeqFacts
  <1> SUFFICES ASSUME NEW i \in 1..Len(d), d[i].op \in Pending
               PROVE  \E j \in 1..Len(v) : Resolves(v[j].s, d[i].op) /\ v[j].from < i
    BY DEF Homes
  <1>2. CASE i > Len(c)
    <2>1. d[i].op \in ops
      BY <1>2 DEF Grows
    <2>2. v[k].from < i
      BY <1>1, <1>2
    <2> QED BY <2>1, <2>2
  <1>3. CASE i <= Len(c)
    <2>1. i \in 1..Len(c)
      BY <1>1, <1>3
    <2>2. d[i] = c[i]
      BY <2>1 DEF Grows, Pending
    <2>3. PICK j \in 1..Len(w) : Resolves(w[j].s, c[i].op) /\ w[j].from < i
      BY <2>1, <2>2 DEF Homes
    <2> QED BY <2>2, <2>3
  <1> QED BY <1>1, <1>2, <1>3

LEMMA HomesSimple ==
  ASSUME CodeInv, CountersInv, Homes(code, work), CompileSimple
  PROVE  Homes(code', work')
  <1>1. /\ WellFormed(code') /\ Stack(code', work') /\ Alike(work, work')
        /\ Grows(code, code', {Current.kind}, currentTryCatch)
    BY SimpleGrows
  <1>2. Current.kind \in Unnested /\ Accepted(Current)
    BY DEF CompileSimple
  <1>3. IsSeq(code) /\ IsSeq(code') /\ Len(code) \in Nat /\ Len(work) \in 1..Len(work)
    BY <1>1, TopFrame DEF WellFormed
  <1>4. \A j \in 1..Len(work) : j \in 1..Len(work') /\ work'[j].s = work[j].s /\ work'[j].from = work[j].from
    BY <1>1 DEF Alike
  <1>5. \A k \in 1..Len(work) : work[k].from \in Nat /\ work[k].from <= Len(code)
    BY <1>3 DEF CodeInv, Stack, Placed, Lands
  <1>6. CASE Current.kind \in {"break", "continue"}
    <2>1. insideCycle > 0 \/ insideSwitch > 0
      BY <1>2, <1>6 DEF Accepted
    <2>2. OfKinds(work, LoopKinds) # {} \/ OfKinds(work, {"switch"}) # {}
      BY <2>1, CountedSome DEF CountersInv
    <2>3. PICK k \in 1..Len(work) : work[k].s.kind \in LoopKinds \cup {"switch"}
      BY <2>2 DEF OfKinds
    <2>4. \A op \in {Current.kind} : Resolves(work'[k].s, op)
      BY <1>4, <1>6, <2>3 DEF Resolves
    <2>5. k \in 1..Len(work') /\ work'[k].from \in Nat /\ work'[k].from <= Len(code)
      BY <1>4, <1>5, <2>3
    <2> QED BY <1>1, <1>3, <1>4, <2>4, <2>5, HomesKept
  <1>7. CASE Current.kind \notin {"break", "continue"}
    <2>1. Current.kind \notin Pending
      BY <1>2, <1>7 DEF Unnested, Pending
    <2>2. Grows(code, code', {}, currentTryCatch)
      BY <1>1, <2>1 DEF Grows
    <2>3. /\ Len(work) \in 1..Len(work') /\ work'[Len(work)].from \in Nat
          /\ work'[Len(work)].from <= Len(code) /\ \A op \in {} : Resolves(work'[Len(work)].s, op)
      BY <1>3, <1>4, <1>5
    <2> QED BY <1>1, <1>3, <1>4, <2>2, <2>3, HomesKept
  <1> QED BY <1>6, <1>7

LEMMA HomesOpen ==
  ASSUME CodeInv, Homes(code, work), OpenStatement
  PROVE  Homes(code', work')
  <1> DEFINE K == Len(work) + 1
  <1>1. /\ WellFormed(code') /\ Grows(code, code', Own(Current), currentTryCatch)
        /\ K \in 1..Len(work') /\ work'[K].s = Current /\ work'[K].from = Len(code)
        /\ \A k \in 1..Len(work) : k \in 1..Len(work') /\ work'[k].s = work[k].s /\ work'[k].from = work[k].from
    BY OpenGrows
  <1>2. IsSeq(code) /\ IsSeq(code') /\ Len(code) \in Nat
    BY <1>1, TopFrame DEF WellFormed
  <1> HIDE DEF K
  <1>3. work'[K].from \in Nat /\ work'[K].from <= Len(code) /\ \A op \in Own(Current) : Resolves(work'[K].s, op)
    BY <1>1, <1>2 DEF Own
  <1> QED BY <1>1, <1>2, <1>3, HomesKept

LEMMA HomesNext ==
  ASSUME CodeInv, Homes(code, work), NextPart
  PROVE  Homes(code', work')
  <1> DEFINE K == Len(work)
  <1>1. /\ WellFormed(code') /\ Grows(code, code', Own(Top.s), currentTryCatch) /\ Alike(work, work')
    BY NextGrows
  <1>2. /\ IsSeq(code) /\ IsSeq(code') /\ Len(code) \in Nat /\ K \in 1..K
        /\ Top.from \in Nat /\ Top.from <= Len(code)
    BY <1>1, TopFrame DEF WellFormed
  <1> HIDE DEF K
  <1>3. \A k \in 1..Len(work) : k \in 1..Len(work') /\ work'[k].s = work[k].s /\ work'[k].from = work[k].from
    BY <1>1 DEF Alike
  <1>4. /\ K \in 1..Len(work') /\ work'[K].from \in Nat /\ work'[K].from <= Len(code)
        /\ \A op \in Own(Top.s) : Resolves(work'[K].s, op)
    BY <1>2, <1>3 DEF Own, Top, K
  <1> QED BY <1>1, <1>2, <1>3, <1>4, HomesKept

LEMMA HomesClose ==
  ASSUME CodeInv, Homes(code, work), CloseStatement
  PROVE  Homes(code', work')
  <1>1. /\ Closed(code') /\ IsSeq(code')
        /\ \A k \in 1..Len(work') : work'[k] = work[k]
        /\ \A k \in 1..Len(work) : k # Len(work) => k \in 1..Len(work')
    BY CloseGrows
  <1>2. IsSeq(code) /\ Len(code) \in Nat /\ Len(code') \in Nat /\ Top.from \in Nat /\ Top.from <= Len(code)
    BY <1>1, TopFrame, SeqFacts
  <1>3. /\ Grows(code, code', Own(Top.s), currentTryCatch)
        /\ \A i \in 1..Len(code') : code'[i].op \in Own(Top.s) => i <= Top.from
    BY <1>1 DEF Closed
  <1> SUFFICES ASSUME NEW i \in 1..Len(code'), code'[i].op \in Pending
               PROVE  \E j \in 1..Len(work') : Resolves(work'[j].s, code'[i].op) /\ work'[j].from < i
    BY DEF Homes
  <1>4. CASE i > Len(code)
    <2>1. code'[i].op \in Own(Top.s)
      BY <1>3, <1>4 DEF Grows
    <2> QED BY <1>2, <1>3, <1>4, <2>1
  <1>5. CASE i <= Len(code)
    <2>1. i \in 1..Len(code)
      BY <1>2, <1>5
    <2>2. code'[i] = code[i]
      BY <1>3, <2>1 DEF Grows, Pending
    <2>3. PICK j \in 1..Len(work) : Resolves(work[j].s, code[i].op) /\ work[j].from < i
      BY <2>1, <2>2 DEF Homes
    <2>4. j # Len(work)
      <3>1. SUFFICES ASSUME j = Len(work) PROVE FALSE
        OBVIOUS
      <3>2. code'[i].op \in Own(Top.s) /\ Top.from < i
        BY <2>2, <2>3, <3>1 DEF Own, Top
      <3>3. i <= Top.from
        BY <1>3, <3>2
      <3> QED BY <1>2, <3>2, <3>3
    <2> QED BY <1>1, <2>2, <2>3, <2>4
  <1> QED BY <1>2, <1>4, <1>5

-----------------------------------------------------------------------------
(* The code of a method.                                                   *)

Sound(c) ==
  /\ IsSeq(c)
  /\ \A i \in 1..Len(c) :
       /\ c[i].op \in Tests => i < Len(c) /\ c[i + 1].op \in Pending \cup {"jump"}
       /\ c[i].op = "restore" => i = Len(c) \/ c[i + 1].op = "return"
       /\ c[i].op = "return" => i > 1 /\ c[i - 1].op = "restore"
       /\ c[i].op = "goto" \/ (c[i].op = "check" /\ c[i].n # 0) =>
            \E k \in 1..Len(c) : c[k] = Label(c[i].n)
       /\ Lead(c, i)
  /\ \A i \in 1..(Len(c) + 1) : Depth(c, i) \in Nat

LEMMA SoundBefore ==
  ASSUME CodeInv, Len(work) = 1
  PROVE  Sound(code)
  <1>1. \A m \in 1..currentTryCatch : \E i \in 1..Len(code) : code[i] = Label(m)
    <2>1. work[1].as = "body" /\ \A k \in 1..Len(work) : k = 1
      BY DEF CodeInv, Typed
    <2> QED BY <2>1 DEF CodeInv, Labels
  <1>2. currentTryCatch \in Nat
    BY InContext
  <1>3. ASSUME NEW i \in 1..Len(code), code[i].op = "goto" \/ (code[i].op = "check" /\ code[i].n # 0)
        PROVE  \E k \in 1..Len(code) : code[k] = Label(code[i].n)
    <2>1. code[i].n \in 1..currentTryCatch
      BY <1>2, <1>3 DEF CodeInv, Sends
    <2> QED BY <1>1, <2>1
  <1>4. WellFormed(code)
    BY DEF CodeInv
  <1> QED BY <1>3, <1>4 DEF WellFormed, Paired, Sound

\* The frame restored at the end of the body.
LEMMA SoundRestored ==
  ASSUME NEW c, Sound(c), Paired(c)
  PROVE  Sound(c \o <<Op("restore")>>)
  <1> DEFINE e == Op("restore")
             f == <<e>>
             d == c \o f
  <1>1. e.op = "restore" /\ IsSeq(f) /\ Len(f) = 1 /\ f[1] = e
    <2>1. <<e>> \in Seq({e}) /\ Len(<<e>>) = 1 /\ <<e>>[1] = e
      OBVIOUS
    <2> QED BY <2>1 DEF IsSeq, Op
  <1> HIDE DEF e, f
  <1>2. IsSeq(c) /\ IsSeq(f)
    BY <1>1 DEF Sound
  <1>3. /\ Len(c) \in Nat /\ IsSeq(d) /\ Len(d) = Len(c) + 1
        /\ \A i \in 1..Len(c) : d[i] = c[i]
        /\ \A i \in 1..Len(f) : d[Len(c) + i] = f[i]
    <2>1. Len(c) \in Nat
      BY <1>2, SeqFacts
    <2>2. IsSeq(d) /\ Len(d) = Len(c) + Len(f)
      BY <1>2, SeqJoined
    <2>3. /\ \A i \in 1..Len(c) : d[i] = c[i]
          /\ \A i \in 1..Len(f) : d[Len(c) + i] = f[i]
      BY <1>2, SeqJoined
    <2> QED BY <1>1, <2>1, <2>2, <2>3
  <1>4. d[Len(c) + 1] = e
    <2>1. 1 \in 1..Len(f)
      BY <1>1
    <2> QED BY <1>1, <1>3, <2>1
  <1>5. \A i \in 1..(Len(c) + 1) : Depth(d, i) = Depth(c, i)
    BY <1>1, <1>2, PrefixSame
  <1> HIDE DEF d
  <1>6. Depth(d, Len(d) + 1) \in Nat
    <2>1. Len(c) + 1 \in Nat /\ Len(c) + 1 > 0 /\ Len(c) + 1 \in 1..(Len(c) + 1)
      BY <1>3
    <2>2. Depth(d, Len(c) + 1 + 1) = Depth(d, Len(c) + 1)
      BY <1>1, <1>4, <2>1, DepthStep
    <2> QED BY <1>3, <1>5, <2>1, <2>2 DEF Sound
  <1>7. \A i \in 1..(Len(d) + 1) : Depth(d, i) \in Nat
    <2>1. \A i \in 1..(Len(d) + 1) : i = Len(d) + 1 \/ i \in 1..(Len(c) + 1)
      BY <1>3
    <2> QED BY <1>5, <1>6, <2>1 DEF Sound
  <1>8. \A i \in 1..Len(d) : (i \in 1..Len(c) /\ d[i] = c[i]) \/ (i = Len(c) + 1 /\ d[i] = e)
    BY <1>3, <1>4
  <1>9. ASSUME NEW i \in 1..Len(d)
        PROVE  /\ d[i].op \in Tests => i < Len(d) /\ d[i + 1].op \in Pending \cup {"jump"}
               /\ d[i].op = "restore" => i = Len(d) \/ d[i + 1].op = "return"
               /\ d[i].op = "return" => i > 1 /\ d[i - 1].op = "restore"
               /\ d[i].op = "goto" \/ (d[i].op = "check" /\ d[i].n # 0) =>
                    \E k \in 1..Len(d) : d[k] = Label(d[i].n)
               /\ Lead(d, i)
    <2>1. CASE i \in 1..Len(c) /\ d[i] = c[i]
      <3>1. /\ i < Len(c) => i + 1 \in 1..Len(c) /\ d[i + 1] = c[i + 1] /\ i < Len(d)
            /\ i > 1 => i - 1 \in 1..Len(c) /\ d[i - 1] = c[i - 1]
            /\ i = Len(c) => d[i + 1] = e /\ i < Len(d)
        BY <1>3, <1>4, <2>1
      <3>2. d[i].op \in Tests => i < Len(d) /\ d[i + 1].op \in Pending \cup {"jump"}
        BY <2>1, <3>1 DEF Sound
      <3>3. /\ d[i].op = "return" => i > 1 /\ d[i - 1].op = "restore"
            /\ d[i].op = "goto" \/ (d[i].op = "check" /\ d[i].n # 0) =>
                 \E k \in 1..Len(d) : d[k] = Label(d[i].n)
        <4>1. \A k \in 1..Len(c) : k \in 1..Len(d) /\ d[k] = c[k]
          BY <1>3
        <4> QED BY <2>1, <3>1, <4>1 DEF Sound
      <3>4. Lead(d, i)
        <4>1. SUFFICES ASSUME c[i].op = "jump"
                       PROVE  Lands(d, c[i].to) /\ Depth(d, c[i].to) = Depth(d, i)
          BY <2>1 DEF Lead
        <4>2. Lands(c, c[i].to) /\ Depth(c, c[i].to) = Depth(c, i)
          BY <2>1, <4>1 DEF Sound, Lead
        <4>3. c[i].to \in 1..(Len(c) + 1) /\ (c[i].to <= Len(c) => c[c[i].to].op # "return")
          BY <4>2 DEF Lands
        <4>4. i \in 1..(Len(c) + 1)
          BY <1>3, <2>1
        <4>5. Lands(d, c[i].to)
          <5>1. c[i].to \in 1..Len(c) \/ c[i].to = Len(c) + 1
            BY <1>3, <4>3
          <5> QED BY <1>1, <1>3, <1>4, <4>3, <5>1 DEF Lands
        <4> QED BY <1>5, <4>2, <4>3, <4>4, <4>5
      <3>5. d[i].op = "restore" => i = Len(d) \/ d[i + 1].op = "return"
        BY <2>1, <3>1 DEF Paired
      <3> QED BY <3>2, <3>3, <3>4, <3>5
    <2>2. CASE i = Len(c) + 1 /\ d[i] = e
      BY <1>1, <1>3, <2>2 DEF Tests, Lead
    <2> QED BY <1>8, <2>1, <2>2
  <1> HIDE DEF Tests, Lead, Label
  <1>10. Sound(d)
    BY <1>3, <1>7, <1>9 DEF Sound
  <1> QED BY <1>10 DEF d, f, e

LEMMA FinishCode ==
  ASSUME CodeInv, FinishMethod
  PROVE  /\ Sound(code') /\ status' = "running" /\ UNCHANGED <<pc, held, restored>>
         /\ code' = code \/ code' = code \o <<Op("restore")>>
  <1>1. Sound(code) /\ Paired(code) /\ IsSeq(code)
    BY SoundBefore DEF FinishMethod, CodeInv, WellFormed
  <1>2. code' = code \o << >> \/ code' = code \o <<Op("restore")>>
    BY DEF FinishMethod, Epilogue
  <1>3. code \o << >> = code
    BY <1>1 DEF IsSeq
  <1>4. status' = "running" /\ UNCHANGED <<pc, held, restored>>
    BY DEF FinishMethod, NotRun
  <1> QED BY <1>1, <1>2, <1>3, <1>4, SoundRestored

\* A method resolves nothing: what waits for a statement around it has one.
LEMMA FinishHomes ==
  ASSUME CodeInv, Homes(code, work), FinishMethod
  PROVE  \A i \in DOMAIN code' : code'[i].op \notin Pending
  <1>1. work[1].s.kind = "method" /\ (\A k \in 1..Len(work) : k = 1) /\ IsSeq(code)
    BY DEF CodeInv, Typed, FinishMethod, WellFormed
  <1>2. \A op \in Pending : ~Resolves(work[1].s, op)
    BY <1>1 DEF Resolves, Pending, LoopKinds
  <1>3. \A i \in 1..Len(code) : code[i].op \notin Pending
    BY <1>1, <1>2 DEF Homes
  <1>4. CASE code' = code
    BY <1>1, <1>3, <1>4, SeqFacts
  <1>5. CASE code' = code \o <<Op("restore")>>
    <2>1. IsSeq(<<Op("restore")>>) /\ Len(<<Op("restore")>>) = 1 /\ <<Op("restore")>>[1] = Op("restore")
      BY <1>1, SeqAppended
    <2>2. Append(code, Op("restore")) = code \o <<Op("restore")>>
      BY <1>1, SeqAppended
    <2>3. /\ IsSeq(code') /\ Len(code') = Len(code) + 1 /\ code'[Len(code) + 1] = Op("restore")
          /\ \A i \in 1..Len(code) : code'[i] = code[i]
      <3>1. PICK S : code \in Seq(S)
        BY <1>1 DEF IsSeq
      <3>2. code \in Seq(S \cup {Op("restore")})
        BY <3>1
      <3>3. code' = Append(code, Op("restore"))
        BY <1>5, <2>2
      <3> QED BY <3>2, <3>3 DEF IsSeq
    <2>4. DOMAIN code' = 1..Len(code') /\ Len(code) \in Nat
      BY <1>1, <2>3, SeqFacts
    <2>5. Op("restore").op \notin Pending
      BY DEF Op, Pending
    <2>6. \A i \in 1..Len(code') : i \in 1..Len(code) \/ i = Len(code) + 1
      BY <2>3, <2>4
    <2> QED BY <1>3, <2>3, <2>4, <2>5, <2>6
  <1> QED BY <1>4, <1>5, FinishCode

-----------------------------------------------------------------------------
(* Where a statement of code that is Sound and Kept goes.                  *)

\* Statement j runs after statement i, with the iterators it must hold.
Arrives(c, i, j) ==
  /\ j \in 1..Len(c) /\ c[j].op # "return"
  /\ Depth(c, j) = CASE c[i].op = "get_iterator" -> Depth(c, i) + 1
                     [] c[i].op = "destroy"      -> Depth(c, i) - 1
                     [] OTHER                    -> Depth(c, i)

LEMMA KeptFacts ==
  ASSUME NEW c, Sound(c), Kept(c), NEW i \in 1..Len(c)
  PROVE  /\ Len(c) \in Nat /\ i \in Nat /\ i > 0
         /\ c[i].op = "restore" \/ (c[i].op = "check" /\ c[i].n = 0) => Depth(c, i) = 0
         /\ c[i].op = "goto" \/ (c[i].op = "check" /\ c[i].n # 0) =>
              Depth(c, i) = Depth(c, LabelIn(c, c[i].n))
         /\ c[i].op = "iterate" => "current" \notin c[i].throws
         /\ c[i].op # "restore" => Len(c) + 1 \notin Ways(c, i)
  <1>1. Len(c) \in Nat /\ DOMAIN c = 1..Len(c)
    BY SeqFacts DEF Sound
  <1> QED BY <1>1 DEF Kept

LEMMA NextArrives ==
  ASSUME NEW c, Sound(c), Kept(c), NEW i \in 1..Len(c),
         c[i].op \notin Pending \cup {"restore", "return", "jump", "goto"}
  PROVE  Arrives(c, i, i + 1)
  <1>1. Len(c) \in Nat /\ i \in Nat /\ i > 0 /\ Len(c) + 1 \notin Ways(c, i)
    BY KeptFacts
  <1>2. i + 1 \in Ways(c, i)
    BY DEF Ways
  <1>3. i + 1 \in 1..Len(c) /\ (i + 1) - 1 = i
    BY <1>1, <1>2
  <1>4. c[i + 1].op # "return"
    BY <1>3 DEF Sound
  <1> QED BY <1>1, <1>3, <1>4, DepthStep DEF Arrives

\* A test that succeeds.
LEMMA TestArrives ==
  ASSUME NEW c, Sound(c), Kept(c), NEW i \in 1..Len(c), c[i].op \in Tests
  PROVE  Arrives(c, i, i + 2)
  <1>1. Len(c) \in Nat /\ i \in Nat /\ i > 0 /\ Len(c) + 1 \notin Ways(c, i)
    BY KeptFacts DEF Tests
  <1>2. i + 2 \in Ways(c, i)
    <2>1. Ways(c, i) = {i + 1, i + 2}
      BY DEF Ways, Tests, Pending
    <2> QED BY <2>1
  <1>3. i < Len(c) /\ c[i + 1].op \in Pending \cup {"jump"}
    BY DEF Sound
  <1>4. i + 2 \in 1..Len(c) /\ (i + 2) - 1 = i + 1
    BY <1>1, <1>2, <1>3
  <1>5. c[i + 2].op # "return"
    BY <1>3, <1>4 DEF Sound, Pending
  <1>6. Depth(c, i + 1 + 1) = Depth(c, i)
    <2>1. c[i].op \notin {"get_iterator", "destroy"} /\ c[i + 1].op \notin {"get_iterator", "destroy"}
      BY <1>3 DEF Tests, Pending
    <2>2. i + 1 \in Nat /\ i + 1 > 0
      BY <1>1
    <2> QED BY <1>1, <2>1, <2>2, DepthStep
  <1>7. i + 1 + 1 = i + 2
    BY <1>1
  <1> QED BY <1>4, <1>5, <1>6, <1>7 DEF Arrives, Tests

LEMMA JumpArrives ==
  ASSUME NEW c, Sound(c), Kept(c), NEW i \in 1..Len(c), c[i].op = "jump"
  PROVE  Arrives(c, i, c[i].to)
  <1>1. Len(c) \in Nat /\ Len(c) + 1 \notin Ways(c, i)
    BY KeptFacts
  <1>2. c[i].to # Len(c) + 1
    <2>1. Ways(c, i) = {c[i].to}
      BY DEF Ways, Pending
    <2> QED BY <1>1, <2>1
  <1>3. Lands(c, c[i].to) /\ Depth(c, c[i].to) = Depth(c, i)
    BY DEF Sound, Lead
  <1>4. c[i].to \in 1..Len(c) /\ c[c[i].to].op # "return"
    BY <1>1, <1>2, <1>3 DEF Lands
  <1> QED BY <1>3, <1>4 DEF Arrives

LEMMA LabelArrives ==
  ASSUME NEW c, Sound(c), Kept(c), NEW i \in 1..Len(c),
         c[i].op = "goto" \/ (c[i].op = "check" /\ c[i].n # 0)
  PROVE  Arrives(c, i, LabelIn(c, c[i].n))
  <1>1. DOMAIN c = 1..Len(c)
    BY SeqFacts DEF Sound
  <1>2. PICK k \in 1..Len(c) : c[k] = Label(c[i].n)
    BY DEF Sound
  <1>3. LabelIn(c, c[i].n) \in DOMAIN c /\ c[LabelIn(c, c[i].n)].op = "label"
    <2>1. k \in DOMAIN c /\ c[k].op = "label" /\ c[k].n = c[i].n
      BY <1>1, <1>2 DEF Label
    <2> QED BY <2>1 DEF LabelIn
  <1>4. Depth(c, i) = Depth(c, LabelIn(c, c[i].n))
    BY KeptFacts
  <1> QED BY <1>1, <1>3, <1>4 DEF Arrives

-----------------------------------------------------------------------------
(* The run of a method.                                                    *)

\* On its way the method holds an iterator for each loop around; once it has
\* restored its frame, it holds nothing and is about to return.
OnItsWay == restored = 0 /\ pc \in 1..Len(code) /\ code[pc].op # "return" /\ held = Depth(code, pc)
Leaving  == restored = 1 /\ held = 0 /\ (AtEnd \/ code[pc].op = "return")

RunInv ==
  /\ pc \in 1..(Len(code) + 1) /\ restored \in 0..1 /\ held \in Nat
  /\ status \in {"running", "ended", "crashed", "diverged"}
  /\ status = "running" => OnItsWay \/ Leaving
  /\ status = "ended" => restored = 1 /\ held = 0

Good == Sound(code) /\ Kept(code) /\ RunInv

\* Of a statement that the method has come to with its frame.
LEMMA AtFacts ==
  ASSUME Good, NEW op, At(op), op # "return"
  PROVE  /\ Len(code) \in Nat /\ pc \in 1..Len(code) /\ code[pc].op = op
         /\ restored = 0 /\ held = Depth(code, pc) /\ held \in Nat /\ status = "running"
  <1>1. status = "running" /\ pc # Len(code) + 1 /\ code[pc].op = op
    BY DEF At, AtEnd
  <1>2. OnItsWay
    BY <1>1 DEF Good, RunInv, Leaving, AtEnd
  <1>3. Len(code) \in Nat
    BY SeqFacts DEF Good, Sound
  <1> QED BY <1>1, <1>2, <1>3 DEF Good, RunInv, OnItsWay

\* A step to where its statement goes, that does to the iterators what it says,
\* keeps the invariant.
LEMMA WayKept ==
  ASSUME Good, NEW op, At(op), op \notin {"return", "restore"},
         UNCHANGED <<code, restored>>, Arrives(code, pc, pc'),
         held' = CASE op = "get_iterator" -> held + 1
                   [] op = "destroy"      -> held - 1
                   [] OTHER               -> held,
         status' \in {"running", "crashed", "diverged"}
  PROVE  Good'
  <1>1. /\ Len(code) \in Nat /\ code[pc].op = op /\ restored = 0 /\ held = Depth(code, pc)
    BY AtFacts
  <1>2. pc' \in 1..Len(code) /\ code[pc'].op # "return" /\ held' = Depth(code, pc')
    BY <1>1 DEF Arrives
  <1>3. Depth(code, pc') \in Nat
    <2>1. pc' \in 1..(Len(code) + 1)
      BY <1>1, <1>2
    <2> QED BY <2>1 DEF Good, Sound
  <1>4. OnItsWay'
    BY <1>1, <1>2 DEF OnItsWay
  <1>5. RunInv'
    BY <1>1, <1>2, <1>3, <1>4 DEF RunInv
  <1> QED BY <1>5 DEF Good

\* A step that restores the frame, when no iterator is held, and then returns.
LEMMA RestoreKept ==
  ASSUME Good, NEW op, At(op), op # "return", Depth(code, pc) = 0,
         UNCHANGED <<code, held, status>>, restored' = restored + 1,
         pc' = Len(code) + 1 \/ (pc' = pc + 1 /\ (pc = Len(code) \/ code[pc + 1].op = "return"))
  PROVE  Good'
  <1>1. /\ Len(code) \in Nat /\ pc \in 1..Len(code) /\ restored = 0 /\ held = 0
        /\ status = "running"
    BY AtFacts
  <1>2. Leaving'
    BY <1>1 DEF Leaving, AtEnd
  <1>3. RunInv'
    BY <1>1, <1>2 DEF RunInv
  <1> QED BY <1>3 DEF Good

\* What the outside sees: whether or not the body has asked for it.
LEMMA EventKept ==
  ASSUME Good,
         \/ EchoStep \/ CallSucceeds \/ EvalSucceeds \/ CallFails
         \/ Test \/ Select \/ Iterate \/ IterateFails
  PROVE  Good'
  <1>1. \A event, id, answered :
          See(event, id, answered) /\ status = "running" => status' \in {"running", "diverged"}
    BY DEF See
  <1>2. ASSUME NEW op \in {"echo", "call", "eval", "select"}, At(op), GoOn,
               UNCHANGED <<code, held, restored>>, status' \in {"running", "diverged"}
        PROVE  Good'
    <2>1. Arrives(code, pc, pc + 1)
      BY <1>2, AtFacts, NextArrives DEF Good, Pending
    <2> QED BY <1>2, <2>1, WayKept DEF GoOn
  <1>3. CASE EchoStep \/ CallSucceeds \/ EvalSucceeds \/ Select
    <2>1. status' \in {"running", "diverged"}
      BY <1>1, <1>3 DEF EchoStep, CallSucceeds, EvalSucceeds, Select, At
    <2> QED BY <1>2, <1>3, <2>1 DEF EchoStep, CallSucceeds, EvalSucceeds, Select
  <1>4. CASE CallFails
    <2>1. status' \in {"running", "diverged"}
      BY <1>1, <1>4 DEF CallFails, At
    <2> QED BY <1>2, <1>4, <2>1 DEF CallFails
  <1>5. ASSUME NEW op \in {"if", "iterate"}, At(op), pc' = pc + 1 \/ pc' = pc + 2,
               UNCHANGED <<code, held, restored>>, status' \in {"running", "diverged"}
        PROVE  Good'
    <2>1. code[pc].op = op /\ pc \in 1..Len(code) /\ Sound(code) /\ Kept(code)
      BY <1>5, AtFacts DEF Good
    <2>2. Arrives(code, pc, pc + 1)
      BY <1>5, <2>1, NextArrives DEF Pending
    <2>3. Arrives(code, pc, pc + 2)
      BY <1>5, <2>1, TestArrives DEF Tests
    <2> QED BY <1>5, <2>2, <2>3, WayKept
  <1>6. CASE Test
    <2>1. status' \in {"running", "diverged"}
      BY <1>1, <1>6 DEF Test, At
    <2> QED BY <1>5, <1>6, <2>1 DEF Test, Skip
  <1>7. CASE Iterate
    <2>1. status' \in {"running", "diverged"}
      BY <1>1, <1>7 DEF Iterate, At
    <2> QED BY <1>5, <1>7, <2>1 DEF Iterate, Skip
  <1>8. CASE IterateFails
    <2>1. status' \in {"running", "diverged"}
      BY <1>1, <1>8 DEF IterateFails, At
    <2>2. code[pc].op = "iterate" /\ pc \in 1..Len(code)
      BY <1>8, AtFacts DEF IterateFails
    <2>3. "current" \notin code[pc].throws
      BY <2>2, KeptFacts DEF Good
    <2>4. pc' = pc + 1
      BY <1>8, <2>3 DEF IterateFails, GoOn
    <2> QED BY <1>5, <1>8, <2>1, <2>4 DEF IterateFails
  <1> QED BY <1>3, <1>4, <1>6, <1>7, <1>8

\* A failed call leaves the method only where no iterator is held.
LEMMA CheckKept ==
  ASSUME Good, Check
  PROVE  Good'
  <1>1. /\ At("check") /\ code[pc].op = "check" /\ pc \in 1..Len(code)
        /\ UNCHANGED <<code, held, status>> /\ status = "running" /\ Sound(code) /\ Kept(code)
    BY AtFacts DEF Check, Good
  <1>2. CASE exc # NoException /\ code[pc].n = 0
    <2>1. Depth(code, pc) = 0
      BY <1>1, <1>2, KeptFacts
    <2>2. pc' = Len(code) + 1 /\ restored' = restored + 1
      BY <1>2 DEF Check
    <2> QED BY <1>1, <2>1, <2>2, RestoreKept
  <1>3. CASE ~(exc # NoException /\ code[pc].n = 0)
    <2>1. /\ pc' = pc + 1 \/ (code[pc].n # 0 /\ pc' = LabelIn(code, code[pc].n))
          /\ UNCHANGED restored
      BY <1>3 DEF Check, GoOn, LabelAt
    <2>2. Arrives(code, pc, pc + 1)
      BY <1>1, NextArrives DEF Pending
    <2>3. code[pc].n # 0 => Arrives(code, pc, LabelIn(code, code[pc].n))
      BY <1>1, LabelArrives
    <2> QED BY <1>1, <2>1, <2>2, <2>3, WayKept
  <1> QED BY <1>2, <1>3

\* Jumps, and branches on what the code has kept.
LEMMA BranchKept ==
  ASSUME Good, Branch \/ BranchOnTemp
  PROVE  Good'
  <1>1. PICK op \in {"jump", "goto", "label", "case", "if_exception", "instanceof", "if_temp"} : At(op)
    BY DEF Branch, BranchOnTemp
  <1>2. /\ code[pc].op = op /\ status = "running" /\ pc \in 1..Len(code)
        /\ UNCHANGED <<code, held, restored, status>> /\ Sound(code) /\ Kept(code)
    BY <1>1, AtFacts DEF Branch, BranchOnTemp, Good
  <1>3. Arrives(code, pc, pc')
    <2>1. CASE op = "jump"
      <3>1. pc' = code[pc].to
        BY <1>1, <1>2, <2>1 DEF Branch, BranchOnTemp, At
      <3> QED BY <1>2, <2>1, <3>1, JumpArrives
    <2>2. CASE op = "goto"
      <3>1. pc' = LabelIn(code, code[pc].n)
        BY <1>1, <1>2, <2>2 DEF Branch, BranchOnTemp, At, LabelAt
      <3> QED BY <1>2, <2>2, <3>1, LabelArrives
    <2>3. CASE op = "label"
      <3>1. pc' = pc + 1
        BY <1>1, <1>2, <2>3 DEF Branch, BranchOnTemp, At, GoOn
      <3> QED BY <1>2, <2>3, <3>1, NextArrives DEF Pending
    <2>4. CASE op \in {"case", "if_exception", "instanceof", "if_temp"}
      <3>1. pc' = pc + 1 \/ pc' = pc + 2
        BY <1>1, <1>2, <2>4 DEF Branch, BranchOnTemp, At, Skip
      <3> QED BY <1>2, <2>4, <3>1, NextArrives, TestArrives DEF Tests, Pending
    <2> QED BY <1>1, <2>1, <2>2, <2>3, <2>4
  <1> QED BY <1>1, <1>2, <1>3, WayKept

\* The other statements nobody sees, which go on to the next.
LEMMA SilentKept ==
  ASSUME Good, Flag \/ GetIterator \/ Destroy \/ ThrowStep \/ Clear \/ Fetch
  PROVE  Good'
  <1>1. PICK op \in {"flag", "get_iterator", "destroy", "throw", "clear", "fetch"} : At(op)
    BY DEF Flag, GetIterator, Destroy, ThrowStep, Clear, Fetch
  <1>2. /\ code[pc].op = op /\ status = "running" /\ GoOn
        /\ UNCHANGED <<code, restored>> /\ status' \in {"running", "crashed"}
        /\ pc \in 1..Len(code) /\ Sound(code) /\ Kept(code)
    BY <1>1, AtFacts DEF Flag, GetIterator, Destroy, ThrowStep, Clear, Fetch, Good
  <1>3. Arrives(code, pc, pc')
    BY <1>1, <1>2, NextArrives DEF GoOn, Pending
  <1>4. CASE GetIterator /\ held' = held
    <2>1. pc \in 1..Len(code) /\ Len(code) \in Nat /\ restored = 0 /\ held \in Nat
      BY <1>1, AtFacts
    <2>2. status' = "crashed"
      <3>1. held + 1 # held
        BY <2>1
      <3> QED BY <1>4, <3>1 DEF GetIterator
    <2>3. RunInv'
      BY <1>2, <1>4, <2>1, <2>2 DEF RunInv, GoOn
    <2> QED BY <1>2, <2>3 DEF Good
  <1>5. CASE ~(GetIterator /\ held' = held)
    <2>1. held' = CASE op = "get_iterator" -> held + 1
                    [] op = "destroy"      -> held - 1
                    [] OTHER               -> held
      BY <1>1, <1>2, <1>5 DEF Flag, GetIterator, Destroy, ThrowStep, Clear, Fetch, At
    <2> QED BY <1>1, <1>2, <1>3, <2>1, WayKept
  <1> QED BY <1>4, <1>5

\* RETURN_MM, in its two statements.
LEMMA LeaveKept ==
  ASSUME Good, RestoreStep \/ ReturnStep
  PROVE  Good'
  <1>1. CASE RestoreStep
    <2>1. At("restore") /\ code[pc].op = "restore" /\ pc \in 1..Len(code)
      BY <1>1, AtFacts DEF RestoreStep
    <2>2. Depth(code, pc) = 0 /\ (pc = Len(code) \/ code[pc + 1].op = "return")
      BY <2>1, KeptFacts DEF Good, Sound
    <2> QED BY <1>1, <2>1, <2>2, RestoreKept DEF RestoreStep, GoOn
  <1>2. CASE ReturnStep
    <2>1. /\ status = "running" /\ (AtEnd \/ code[pc].op = "return")
          /\ UNCHANGED <<code, pc, held, restored>> /\ status' \in {"ended", "diverged"}
      BY <1>2 DEF ReturnStep, At
    <2>2. ~OnItsWay
      <3>1. Len(code) \in Nat
        BY SeqFacts DEF Good, Sound
      <3> QED BY <2>1, <3>1 DEF OnItsWay, AtEnd
    <2>3. restored = 1 /\ held = 0
      BY <2>1, <2>2 DEF Good, RunInv, Leaving
    <2>4. RunInv'
      BY <2>1, <2>3 DEF Good, RunInv
    <2> QED BY <2>1, <2>4 DEF Good
  <1> QED BY <1>1, <1>2

-----------------------------------------------------------------------------
(* The compilation and the run together.                                   *)

Unrun == {"compiling", "refused"}

\* The code of a method that is run leaves its loops and the method as it should.
RunsKept == status \notin Unrun => Kept(code)

MethodInv ==
  /\ status \in Unrun => IsSeq(code) /\ pc = 1 /\ held = 0 /\ restored = 0
  /\ Compiling => CodeInv
  /\ status \notin Unrun => Sound(code) /\ (Kept(code) => RunInv)

LEMMA RunFacts ==
  ASSUME Run
  PROVE  /\ status = "running" /\ UNCHANGED code
         /\ status' \in {"running", "ended", "crashed", "diverged"}
  <1>1. \A event, id, answered :
          See(event, id, answered) => status' \in {status, "diverged"}
    BY DEF See
  <1>2. \A op : At(op) => status = "running"
    BY DEF At
  <1>3. CASE EchoStep \/ CallSucceeds \/ EvalSucceeds \/ Test \/ Select \/ Iterate
    BY <1>1, <1>2, <1>3 DEF EchoStep, CallSucceeds, EvalSucceeds, Test, Select, Iterate
  <1>4. CASE CallFails \/ IterateFails
    BY <1>1, <1>2, <1>4 DEF CallFails, IterateFails
  <1>5. CASE ReturnStep
    BY <1>5 DEF ReturnStep
  <1>6. CASE Check \/ Branch \/ BranchOnTemp \/ Flag \/ GetIterator \/ Destroy
    BY <1>2, <1>6 DEF Check, Branch, BranchOnTemp, Flag, GetIterator, Destroy
  <1>7. CASE ThrowStep \/ Clear \/ Fetch \/ RestoreStep
    BY <1>2, <1>7 DEF ThrowStep, Clear, Fetch, RestoreStep
  <1> QED BY <1>3, <1>4, <1>5, <1>6, <1>7 DEF Run

\* A method begins to run with its frame and no iterator.
LEMMA RunBegins ==
  ASSUME CodeInv, FinishMethod, pc = 1, held = 0, restored = 0, Kept(code')
  PROVE  RunInv'
  <1>1. /\ Sound(code') /\ status' = "running" /\ pc' = 1 /\ held' = 0 /\ restored' = 0
    BY FinishCode
  <1>2. IsSeq(code') /\ Len(code') \in Nat /\ code' # << >>
    BY <1>1, SeqFacts DEF Sound, Kept
  <1>3. 1 \in 1..Len(code')
    BY <1>2 DEF IsSeq
  <1>4. code'[1].op # "return"
    BY <1>1, <1>3 DEF Sound
  <1>5. Depth(code', 1) = 0
    <2>1. Obtains(code', 1) = {} /\ Destroys(code', 1) = {}
      BY DEF Obtains, Destroys
    <2> QED BY <2>1, DepthFacts, FS_EmptySet
  <1>6. OnItsWay'
    BY <1>1, <1>3, <1>4, <1>5 DEF OnItsWay
  <1> QED BY <1>1, <1>2, <1>6 DEF RunInv

LEMMA MethodBegins ==
  ASSUME Init
  PROVE  MethodInv
  <1>1. CodeInv
    BY InitCode
  <1>2. status = "compiling" /\ pc = 1 /\ held = 0 /\ restored = 0
    BY DEF Init, MethodInit
  <1> QED BY <1>1, <1>2 DEF MethodInv, Unrun, Compiling, CodeInv, WellFormed

LEMMA MethodStep ==
  ASSUME MethodInv, [Next]_vars
  PROVE  MethodInv'
  <1>1. CASE UNCHANGED vars
    <2>1. UNCHANGED <<code, pc, held, restored, status, work, insideTryCatch, currentTryCatch>>
      BY <1>1 DEF vars, method, context
    <2>2. CodeInv => CodeInv'
      BY <2>1 DEF CodeInv
    <2>3. RunInv => RunInv'
      BY <2>1 DEF RunInv, OnItsWay, Leaving, AtEnd
    <2> QED BY <2>1, <2>2, <2>3 DEF MethodInv, Compiling
  <1>2. CASE CompileSimple \/ OpenStatement \/ NextPart \/ CloseStatement
    <2>1. CodeInv /\ pc = 1 /\ held = 0 /\ restored = 0
      BY <1>2 DEF MethodInv, CompileSimple, OpenStatement, NextPart, CloseStatement,
                  AtStatement, Compiling, Unrun
    <2>2. CodeInv'
      BY <1>2, <2>1, SimpleCode, OpenCode, NextCode, CloseCode
    <2>3. status' = "compiling" /\ UNCHANGED <<pc, held, restored>>
      BY <1>2 DEF CompileSimple, OpenStatement, NextPart, CloseStatement, AtStatement, Compiling, NotRun
    <2>4. IsSeq(code')
      BY <2>2 DEF CodeInv, WellFormed
    <2> QED BY <2>1, <2>2, <2>3, <2>4 DEF MethodInv, Unrun, Compiling
  <1>3. CASE Refuse
    BY <1>3 DEF MethodInv, Refuse, AtStatement, Compiling, Unrun, NotRun
  <1>4. CASE FinishMethod
    <2>1. CodeInv /\ pc = 1 /\ held = 0 /\ restored = 0
      BY <1>4 DEF MethodInv, FinishMethod, Compiling, Unrun
    <2>2. Sound(code') /\ status' = "running"
      BY <1>4, <2>1, FinishCode
    <2>3. Kept(code') => RunInv'
      BY <1>4, <2>1, RunBegins
    <2> QED BY <2>2, <2>3 DEF MethodInv, Unrun, Compiling
  <1>5. CASE Run
    <2>1. /\ status = "running" /\ UNCHANGED code
          /\ status' \in {"running", "ended", "crashed", "diverged"}
      BY <1>5, RunFacts
    <2>2. Sound(code) /\ (Kept(code) => RunInv)
      BY <2>1 DEF MethodInv, Unrun
    <2>3. Kept(code) => RunInv'
      <3>1. SUFFICES ASSUME Good PROVE Good'
        BY <2>2 DEF Good
      <3> QED BY <1>5, <3>1, EventKept, CheckKept, BranchKept, SilentKept, LeaveKept DEF Run
    <2> QED BY <2>1, <2>2, <2>3 DEF MethodInv, Unrun, Compiling
  <1> QED BY <1>1, <1>2, <1>3, <1>4, <1>5 DEF Next, Compile

\* The inductive invariant: whatever body is compiled, the pending jumps of the
\* code belong to statements that are open, at the depth of their loop; and while
\* the code runs, the iterators of the loops around are held and the frame is
\* there, until the method leaves.
THEOREM MethodHolds == Spec => []MethodInv
  BY MethodBegins, MethodStep, PTL DEF Spec

\* Every jump the statement compilers make lands on a statement of the method or
\* on its end, and no run destroys more iterators than it has obtained.
THEOREM TypeCorrect == Spec => [](RunsKept => TypeOK)
  <1>1. MethodInv /\ RunsKept => TypeOK
    <2>1. SUFFICES ASSUME MethodInv, RunsKept PROVE TypeOK
      OBVIOUS
    <2>2. CASE status \in Unrun
      <3>1. Len(code) \in Nat
        BY <2>1, <2>2, SeqFacts DEF MethodInv
      <3> QED BY <2>1, <2>2, <3>1 DEF MethodInv, Unrun, TypeOK
    <2>3. CASE status \notin Unrun
      BY <2>1, <2>3 DEF MethodInv, RunsKept, RunInv, TypeOK
    <2> QED BY <2>2, <2>3
  <1> QED BY <1>1, MethodHolds, PTL

\* Whichever loop, branch, failed call or catch a method gets to a statement by, it
\* holds one iterator for each loop over an iterator around it, and its frame.
THEOREM HeldByLoopsHolds == Spec => [](RunsKept => HeldByLoops)
  <1>1. MethodInv /\ RunsKept => HeldByLoops
    BY DEF MethodInv, RunsKept, RunInv, OnItsWay, Leaving, HeldByLoops, Unrun, Sound
  <1> QED BY <1>1, MethodHolds, PTL

\* The frame of a method is restored exactly once, on every path, and nothing but
\* the return comes after it.
THEOREM RestoredOnceHolds == Spec => [](RunsKept => RestoredOnce)
  <1>1. MethodInv /\ RunsKept => RestoredOnce
    BY DEF MethodInv, RunsKept, RunInv, OnItsWay, Leaving, RestoredOnce, Unrun
  <1> QED BY <1>1, MethodHolds, PTL

\* A method that ends has destroyed every iterator it has obtained.
THEOREM IteratorsReleasedHolds == Spec => [](RunsKept => IteratorsReleased)
  <1>1. MethodInv /\ RunsKept => IteratorsReleased
    BY DEF MethodInv, RunsKept, RunInv, IteratorsReleased, Unrun
  <1> QED BY <1>1, MethodHolds, PTL

-----------------------------------------------------------------------------
(* The counters of the context, and the jumps that find their statement.   *)

CompilerInv ==
  /\ Compiling => CodeInv /\ CountersInv /\ Homes(code, work)
  /\ BreaksInside

LEMMA CompilerBegins ==
  ASSUME Init
  PROVE  CompilerInv
  BY InitCode, CountersInit, HomesInit DEF Init, MethodInit, CompilerInv, BreaksInside

LEMMA CompilerStep ==
  ASSUME SwitchesHaveClauses, CompilerInv, [Next]_vars
  PROVE  CompilerInv'
  <1>1. CASE UNCHANGED vars
    <2>1. UNCHANGED <<code, status, work, insideCycle, insideSwitch, insideTryCatch, currentTryCatch>>
      BY <1>1 DEF vars, method, context
    <2>2. CodeInv /\ CountersInv /\ Homes(code, work) => (CodeInv /\ CountersInv /\ Homes(code, work))'
      BY <2>1 DEF CodeInv, CountersInv, BlocksCounted
    <2> QED BY <2>1, <2>2 DEF CompilerInv, Compiling, BreaksInside
  <1>2. CASE CompileSimple \/ OpenStatement \/ NextPart \/ CloseStatement
    <2>1. CodeInv /\ CountersInv /\ Homes(code, work)
      BY <1>2 DEF CompilerInv, CompileSimple, OpenStatement, NextPart, CloseStatement, AtStatement
    <2>2. CodeInv'
      BY <1>2, <2>1, SimpleCode, OpenCode, NextCode, CloseCode
    <2>3. CountersInv'
      BY <1>2, <2>1, CountersSimple, CountersOpen, CountersNext, CountersClose
    <2>4. Homes(code', work')
      BY <1>2, <2>1, HomesSimple, HomesOpen, HomesNext, HomesClose
    <2>5. status' = "compiling"
      BY <1>2 DEF CompileSimple, OpenStatement, NextPart, CloseStatement, AtStatement, Compiling
    <2> QED BY <2>2, <2>3, <2>4, <2>5 DEF CompilerInv, Compiling, BreaksInside
  <1>3. CASE Refuse
    BY <1>3 DEF CompilerInv, Refuse, Compiling, BreaksInside
  <1>4. CASE FinishMethod
    <2>1. CodeInv /\ Homes(code, work)
      BY <1>4 DEF CompilerInv, FinishMethod
    <2>2. \A i \in DOMAIN code' : code'[i].op \notin Pending
      BY <1>4, <2>1, FinishHomes
    <2>3. status' = "running"
      BY <1>4 DEF FinishMethod
    <2> QED BY <2>2, <2>3 DEF CompilerInv, Compiling, BreaksInside
  <1>5. CASE Run
    <2>1. /\ status = "running" /\ UNCHANGED code
          /\ status' \in {"running", "ended", "crashed", "diverged"}
      BY <1>5, RunFacts
    <2> QED BY <2>1 DEF CompilerInv, Compiling, BreaksInside
  <1> QED BY <1>1, <1>2, <1>3, <1>4, <1>5 DEF Next, Compile

LEMMA CompilerHolds ==
  ASSUME SwitchesHaveClauses
  PROVE  Spec => []CompilerInv
  BY CompilerBegins, CompilerStep, PTL DEF Spec

\* The counters by which a break, a throw and a failed call are compiled are those
\* of the loops, switches and try blocks that are open: for every body in which no
\* switch is without clauses, since SwitchStatement::compile forgets to count that
\* one down.
THEOREM CountersMatchHolds ==
  ASSUME SwitchesHaveClauses
  PROVE  Spec => []CountersMatch
  <1>1. CompilerInv => CountersMatch
    <2>1. SUFFICES ASSUME CompilerInv, Compiling PROVE CountersMatch
      BY DEF CountersMatch
    <2>2. CountersInv /\ DOMAIN work = 1..Len(work)
      BY <2>1, SeqFacts DEF CompilerInv, CodeInv, Typed
    <2> QED BY <2>2 DEF CountersInv, BlocksCounted, CountersMatch, OfKinds, InBlocks
  <1> QED BY <1>1, CompilerHolds, PTL

\* Every break, continue, end of a branch and failed test of a method goes to the
\* end of a statement around it: the compilers refuse a body with one that cannot.
THEOREM BreaksInsideHolds ==
  ASSUME SwitchesHaveClauses
  PROVE  Spec => []BreaksInside
  <1>1. CompilerInv => BreaksInside
    BY DEF CompilerInv
  <1> QED BY <1>1, CompilerHolds, PTL

-----------------------------------------------------------------------------
(* Code that restores the frame only outside of loops over an iterator,    *)
(* and in which the end of try block m, and what goes to it, is at depth   *)
(* d[m].                                                                   *)

Fits(e, level, d) ==
  /\ e.op = "restore" \/ (e.op = "check" /\ e.n = 0) => level = 0
  /\ e.op \in {"goto", "label"} \/ (e.op = "check" /\ e.n # 0) => e.n \in DOMAIN d /\ level = d[e.n]
  /\ e.op = "iterate" => "current" \notin e.throws

Guarded(c, d) == \A i \in 1..Len(c) : Fits(c[i], Depth(c, i), d)

AllFit(f, level, d) == IsSeq(f) /\ Flat(f) /\ \A i \in 1..Len(f) : Fits(f[i], level, d)

\* A statement that fits everywhere.
Fitting(e) == e.op \notin {"restore", "check", "goto", "label", "iterate", "get_iterator", "destroy"}

LEMMA FitsJoined ==
  ASSUME NEW f, NEW g, NEW level, NEW d, AllFit(f, level, d), AllFit(g, level, d)
  PROVE  AllFit(f \o g, level, d)
  <1>1. /\ Len(f) \in Nat /\ Len(g) \in Nat /\ IsSeq(f) /\ IsSeq(g)
        /\ IsSeq(f \o g) /\ Len(f \o g) = Len(f) + Len(g)
        /\ \A i \in 1..Len(f) : (f \o g)[i] = f[i]
        /\ \A i \in 1..Len(g) : (f \o g)[Len(f) + i] = g[i]
    BY SeqFacts, SeqJoined DEF AllFit
  <1>2. ASSUME NEW i \in 1..Len(f \o g)
        PROVE  \/ i \in 1..Len(f) /\ (f \o g)[i] = f[i]
               \/ \E k \in 1..Len(g) : (f \o g)[i] = g[k]
    <2>1. i \in 1..Len(f) \/ (i - Len(f) \in 1..Len(g) /\ i = Len(f) + (i - Len(f)))
      BY <1>1
    <2> QED BY <1>1, <2>1
  <1> QED BY <1>1, <1>2 DEF AllFit, Flat

LEMMA FitsEmpty ==
  ASSUME NEW level, NEW d
  PROVE  AllFit(<< >>, level, d)
  <1>1. << >> \in Seq({}) /\ Len(<< >>) = 0 /\ 1..0 = {}
    OBVIOUS
  <1> QED BY <1>1 DEF AllFit, Flat, IsSeq

LEMMA FitsOne ==
  ASSUME NEW e, NEW level, NEW d, Fits(e, level, d), e.op \notin {"get_iterator", "destroy"}
  PROVE  AllFit(<<e>>, level, d)
  <1>1. <<e>> \in Seq({e}) /\ Len(<<e>>) = 1 /\ <<e>>[1] = e
    OBVIOUS
  <1>2. \A i \in 1..1 : i = 1
    OBVIOUS
  <1> QED BY <1>1, <1>2 DEF AllFit, Flat, IsSeq

LEMMA FitsPlain ==
  ASSUME NEW e, NEW level, NEW d, Fitting(e)
  PROVE  AllFit(<<e>>, level, d)
  BY FitsOne DEF Fitting, Fits

LEMMA FitsTwo ==
  ASSUME NEW e, NEW m, NEW level, NEW d, AllFit(<<e>>, level, d), AllFit(<<m>>, level, d)
  PROVE  AllFit(<<e, m>>, level, d)
  <1>1. /\ <<e, m>> \in Seq({e, m}) /\ Len(<<e, m>>) = 2 /\ <<e, m>>[1] = e /\ <<e, m>>[2] = m
        /\ Len(<<e>>) = 1 /\ <<e>>[1] = e /\ Len(<<m>>) = 1 /\ <<m>>[1] = m
    OBVIOUS
  <1>2. 1 \in 1..1 /\ \A i \in 1..2 : i = 1 \/ i = 2
    OBVIOUS
  <1>3. Fits(e, level, d) /\ Fits(m, level, d) /\ {e.op, m.op} \cap {"get_iterator", "destroy"} = {}
    BY <1>1, <1>2 DEF AllFit, Flat
  <1> QED BY <1>1, <1>2, <1>3 DEF AllFit, Flat, IsSeq

LEMMA GuardedJoined ==
  ASSUME NEW c, IsSeq(c), NEW d, Guarded(c, d), NEW f, AllFit(f, Depth(c, Len(c) + 1), d)
  PROVE  Guarded(c \o f, d)
  <1>1. /\ Len(c) \in Nat /\ Len(f) \in Nat /\ IsSeq(f) /\ Flat(f)
        /\ Len(c \o f) = Len(c) + Len(f)
        /\ \A i \in 1..Len(c) : (c \o f)[i] = c[i]
        /\ \A i \in 1..Len(f) : (c \o f)[Len(c) + i] = f[i]
    BY SeqFacts, SeqJoined DEF AllFit
  <1> SUFFICES ASSUME NEW i \in 1..Len(c \o f)
               PROVE  Fits((c \o f)[i], Depth(c \o f, i), d)
    BY DEF Guarded
  <1>2. CASE i <= Len(c)
    <2>1. i \in 1..Len(c) /\ i \in 1..(Len(c) + 1)
      BY <1>1, <1>2
    <2>2. Depth(c \o f, i) = Depth(c, i)
      BY <1>1, <2>1, PrefixSame
    <2> QED BY <1>1, <2>1, <2>2 DEF Guarded
  <1>3. CASE i > Len(c)
    <2>1. i - Len(c) \in 1..Len(f) /\ i - Len(c) \in 1..(Len(f) + 1) /\ i = Len(c) + (i - Len(c))
      BY <1>1, <1>3
    <2>2. Depth(c \o f, Len(c) + (i - Len(c))) = Depth(c, Len(c) + 1)
      BY <1>1, <2>1, FlatJoined
    <2>3. (c \o f)[Len(c) + (i - Len(c))] = f[i - Len(c)]
      BY <1>1, <2>1
    <2>4. Fits(f[i - Len(c)], Depth(c, Len(c) + 1), d)
      BY <2>1 DEF AllFit
    <2> QED BY <2>1, <2>2, <2>3, <2>4
  <1> QED BY <1>1, <1>2, <1>3

\* One statement, which may begin or end a loop over an iterator.
LEMMA GuardedOne ==
  ASSUME NEW c, IsSeq(c), NEW d, Guarded(c, d), NEW e, Fits(e, Depth(c, Len(c) + 1), d)
  PROVE  Guarded(c \o <<e>>, d)
  <1>1. IsSeq(<<e>>) /\ Len(<<e>>) = 1 /\ <<e>>[1] = e
    BY SeqAppended
  <1>2. /\ Len(c) \in Nat /\ Len(c \o <<e>>) = Len(c) + 1
        /\ \A i \in 1..Len(c) : (c \o <<e>>)[i] = c[i]
    BY <1>1, SeqFacts, SeqJoined
  <1>3. (c \o <<e>>)[Len(c) + 1] = e
    <2>1. 1 \in 1..Len(<<e>>)
      BY <1>1
    <2> QED BY <1>1, <2>1, SeqJoined
  <1>4. \A i \in 1..(Len(c) + 1) : Depth(c \o <<e>>, i) = Depth(c, i)
    BY <1>1, PrefixSame
  <1>5. \A i \in 1..(Len(c) + 1) : i \in 1..Len(c) \/ i = Len(c) + 1
    BY <1>2
  <1> QED BY <1>2, <1>3, <1>4, <1>5 DEF Guarded

LEMMA GuardedResolved ==
  ASSUME NEW c, IsSeq(c), NEW d, Guarded(c, d), NEW from \in Nat, NEW ops, ops \subseteq Pending, NEW n
  PROVE  Guarded(Resolve(c, from, ops, n), d)
  <1> DEFINE r == Resolve(c, from, ops, n)
  <1>1. /\ Len(r) = Len(c) /\ Len(c) \in Nat
        /\ \A i \in 1..Len(c) : r[i] = c[i] \/ (r[i] = Jump(n) /\ c[i].op \in ops)
    BY ResolveFacts, SeqFacts
  <1> HIDE DEF r
  <1>2. \A i \in 1..Len(c) : r[i] = c[i] \/ (r[i].op = "jump" /\ c[i].op \in Pending)
    BY <1>1 DEF Jump
  <1>3. ASSUME NEW i \in 1..Len(c)
        PROVE  Depth(r, i) = Depth(c, i)
    <2>1. i \in Nat /\ \A k \in 1..(i - 1) : k \in 1..Len(c)
      BY <1>1
    <2>2. \A k \in 1..(i - 1) : /\ r[k].op = "get_iterator" <=> c[k].op = "get_iterator"
                                /\ r[k].op = "destroy" <=> c[k].op = "destroy"
      BY <1>2, <2>1 DEF Pending
    <2> QED BY <2>1, <2>2, DepthSame
  <1>4. ASSUME NEW i \in 1..Len(r)
        PROVE  Fits(r[i], Depth(r, i), d)
    <2>1. i \in 1..Len(c) /\ Depth(r, i) = Depth(c, i)
      BY <1>1, <1>3
    <2>2. CASE r[i] = c[i]
      BY <2>1, <2>2 DEF Guarded
    <2>3. CASE r[i].op = "jump"
      BY <2>3 DEF Fits
    <2> QED BY <1>2, <2>1, <2>2, <2>3
  <1> QED BY <1>4 DEF Guarded, r

\* What d says of other try blocks does not matter.
LEMMA GuardedMore ==
  ASSUME NEW c, NEW d, NEW e, Guarded(c, d),
         \A m \in DOMAIN d : m \in DOMAIN e /\ e[m] = d[m]
  PROVE  Guarded(c, e)
  BY DEF Guarded, Fits

\* The loops around a statement stay.
LEMMA GrowsDepth ==
  ASSUME NEW c, IsSeq(c), NEW d, NEW ops, NEW n, Grows(c, d, ops, n)
  PROVE  \A i \in 1..(Len(c) + 1) : Depth(d, i) = Depth(c, i)
  <1> SUFFICES ASSUME NEW i \in 1..(Len(c) + 1)
               PROVE  Depth(d, i) = Depth(c, i)
    OBVIOUS
  <1>1. i \in Nat /\ \A k \in 1..(i - 1) : k \in 1..Len(c)
    BY SeqFacts
  <1>2. \A k \in 1..(i - 1) : /\ d[k].op = "get_iterator" <=> c[k].op = "get_iterator"
                              /\ d[k].op = "destroy" <=> c[k].op = "destroy"
    BY <1>1 DEF Grows, Pending
  <1> QED BY <1>1, <1>2, DepthSame

\* What fails at place x, at this depth, goes where it may.
Safe(x, level, d) ==
  /\ ~x.deep => level = 0
  /\ insideTryCatch > 0 <=> x.failure # "leaves"
  /\ x.failure = "caught" =>
       currentTryCatch # 0 /\ currentTryCatch \in DOMAIN d /\ level = d[currentTryCatch]

LEMMA FitsCheck ==
  ASSUME NEW x, NEW level, NEW d, Safe(x, level, d), MayFail(x)
  PROVE  AllFit(CheckStatus, level, d)
  <1> DEFINE e == [op |-> "check", n |-> IF insideTryCatch > 0 THEN currentTryCatch ELSE 0]
  <1>1. Fits(e, level, d) /\ e.op = "check"
    BY DEF Fits, Safe, MayFail
  <1> HIDE DEF e
  <1>2. AllFit(<<e>>, level, d)
    BY <1>1, FitsOne
  <1> QED BY <1>2 DEF CheckStatus, e

LEMMA FitsBefore ==
  ASSUME NEW cond, NEW level, NEW d, cond.call => AllFit(CheckStatus, level, d)
  PROVE  AllFit(Before(cond), level, d)
  <1>1. AllFit(<<EvalOp(cond.id)>>, level, d)
    BY FitsPlain DEF Fitting, EvalOp
  <1> QED BY <1>1, FitsJoined, FitsEmpty DEF Before

LEMMA FitsReturn ==
  ASSUME NEW d
  PROVE  AllFit(CompileReturn, 0, d)
  <1>1. Fits(Op("restore"), 0, d) /\ Op("restore").op = "restore"
    BY DEF Fits, Op
  <1>2. AllFit(<<Op("restore")>>, 0, d)
    BY <1>1, FitsOne
  <1>3. AllFit(<<Op("return")>>, 0, d)
    BY FitsPlain DEF Fitting, Op
  <1> QED BY <1>2, <1>3, FitsTwo DEF CompileReturn

LEMMA FitsCompiled ==
  ASSUME NEW x, NEW level, NEW d, Safe(x, level, d),
         NEW s, s.kind \in Unnested, s.kind = "return" => ~x.deep, Calls(s) => MayFail(x)
  PROVE  AllFit(Compiled(s), level, d)
  <1>1. CASE s.kind = "echo"
    <2>1. AllFit(<<EchoOp(s.id)>>, level, d)
      BY FitsPlain DEF Fitting, EchoOp
    <2> QED BY <1>1, <2>1 DEF Compiled
  <1>2. CASE s.kind = "call"
    <2>1. AllFit(<<CallOp(s.id)>>, level, d)
      BY FitsPlain DEF Fitting, CallOp
    <2>2. AllFit(<<CallOp(s.id)>> \o CheckStatus, level, d)
      BY <1>2, <2>1, FitsCheck, FitsJoined DEF Calls
    <2> QED BY <1>2, <2>2 DEF Compiled
  <1>3. CASE s.kind = "return"
    <2>1. level = 0
      BY <1>3 DEF Safe
    <2> QED BY <1>3, <2>1, FitsReturn DEF Compiled
  <1>4. CASE s.kind = "throw"
    <2> DEFINE e == [op |-> "throw", class |-> s.class]
    <2>1. AllFit(<<e>>, level, d)
      BY FitsPlain DEF Fitting
    <2> HIDE DEF e
    <2>2. ASSUME insideTryCatch > 0
          PROVE  AllFit(<<Goto(currentTryCatch)>>, level, d)
      <3>1. Fits(Goto(currentTryCatch), level, d) /\ Goto(currentTryCatch).op = "goto"
        BY <1>4, <2>2 DEF Fits, Goto, Safe, MayFail, Calls
      <3> QED BY <3>1, FitsOne
    <2>3. ~(insideTryCatch > 0) => level = 0
      BY <1>4 DEF Safe, MayFail, Calls
    <2>4. ~(insideTryCatch > 0) => AllFit(CompileReturn, level, d)
      BY <2>3, FitsReturn
    <2>5. AllFit(<<e>> \o (IF insideTryCatch > 0 THEN <<Goto(currentTryCatch)>> ELSE CompileReturn), level, d)
      BY <2>1, <2>2, <2>4, FitsJoined
    <2>6. AllFit(CompileThrow(s), level, d)
      BY <2>5 DEF CompileThrow, e
    <2> QED BY <1>4, <2>6 DEF Compiled
  <1>5. CASE s.kind \in {"break", "continue"}
    <2>1. AllFit(<<Op(s.kind)>>, level, d)
      BY <1>5, FitsPlain DEF Fitting, Op
    <2>2. Compiled(s) = <<Op(s.kind)>>
      BY <1>5 DEF Compiled
    <2> QED BY <2>1, <2>2
  <1> QED BY <1>1, <1>2, <1>3, <1>4, <1>5 DEF Unnested

\* Tests and what is done if they fail fit everywhere.
LEMMA FitsTest ==
  ASSUME NEW e, e.op \in Tests \ {"iterate"}, NEW name \in Pending, NEW level, NEW d
  PROVE  AllFit(<<e, Op(name)>>, level, d)
  <1>1. Fitting(e) /\ Fitting(Op(name))
    BY DEF Fitting, Tests, Pending, Op
  <1> QED BY <1>1, FitsPlain, FitsTwo

LEMMA FitsLeave ==
  ASSUME NEW cond, NEW level, NEW d
  PROVE  AllFit(Leave(cond), level, d)
  <1>1. IfOp(cond).op \in Tests \ {"iterate"} /\ "break" \in Pending
    BY DEF IfOp, Tests, Pending
  <1> QED BY <1>1, FitsTest DEF Leave

LEMMA FitsBeginning ==
  ASSUME NEW p, NEW level, NEW d, p.as = "before" /\ p.of.call => AllFit(CheckStatus, level, d)
  PROVE  AllFit(Beginning(p), level, d)
  <1>1. ASSUME NEW e, e.op \in Tests \ {"iterate"}
        PROVE  AllFit(<<e, Op("next")>>, level, d)
    BY <1>1, FitsTest DEF Pending
  <1>2. ASSUME NEW class
        PROVE  AllFit(Catching(class), level, d)
    <2> DEFINE e == [op |-> "instanceof", class |-> class]
    <2>1. e.op \in Tests \ {"iterate"}
      BY DEF Tests
    <2>2. Catching(class) = <<e, Op("next")>> \o <<Op("clear")>>
      BY DEF Catching
    <2> HIDE DEF e
    <2>3. AllFit(<<Op("clear")>>, level, d)
      BY FitsPlain DEF Fitting, Op
    <2> QED BY <1>1, <2>1, <2>2, <2>3, FitsJoined
  <1>3. CASE p.as = "before"
    BY <1>3, FitsBefore DEF Beginning
  <1>4. CASE p.as = "arm"
    <2>1. IfOp(p.of).op \in Tests \ {"iterate"}
      BY DEF IfOp, Tests
    <2> QED BY <1>1, <1>4, <2>1 DEF Beginning
  <1>5. CASE p.as = "case"
    <2> DEFINE e == [op |-> "case", id |-> p.of.id, values |-> p.of.values]
    <2>1. e.op \in Tests \ {"iterate"}
      BY DEF Tests
    <2>2. AllFit(<<e, Op("next")>>, level, d)
      BY <1>1, <2>1
    <2> QED BY <1>5, <2>2 DEF Beginning
  <1>6. CASE p.as = "catch"
    <2>1. AllFit(<<Op("fetch")>>, level, d)
      BY FitsPlain DEF Fitting, Op
    <2>2. AllFit(<<Op("fetch")>> \o Catching(Head(p.of)), level, d)
      BY <1>2, <2>1, FitsJoined
    <2> QED BY <1>6, <2>2 DEF Beginning
  <1>7. CASE p.as = "class"
    BY <1>2, <1>7 DEF Beginning
  <1>8. CASE p.as \notin {"before", "arm", "case", "catch", "class"}
    <2>1. Beginning(p) = << >>
      BY <1>8 DEF Beginning
    <2> QED BY <2>1, FitsEmpty
  <1> QED BY <1>3, <1>4, <1>5, <1>6, <1>7, <1>8

LEMMA FitsEnding ==
  ASSUME NEW f, NEW level, NEW d, f.as = "try" => f.label \in DOMAIN d /\ level = d[f.label]
  PROVE  AllFit(Ending(f), level, d)
  <1>1. AllFit(<<Op("end")>>, level, d) /\ AllFit(<<Op("clear")>>, level, d)
    BY FitsPlain DEF Fitting, Op
  <1>2. AllFit(<<Op("if_exception"), Op("end")>>, level, d)
    BY FitsTest DEF Tests, Pending, Op
  <1>3. CASE f.as = "try"
    <2> DEFINE g == IF f.s.catches = << >> THEN <<Op("clear")>> ELSE <<Op("if_exception"), Op("end")>>
    <2>1. AllFit(g, level, d)
      BY <1>1, <1>2
    <2>2. Ending(f) = <<Label(f.label)>> \o g
      BY <1>3 DEF Ending
    <2> HIDE DEF g
    <2>3. Fits(Label(f.label), level, d) /\ Label(f.label).op = "label"
      BY <1>3 DEF Fits, Label
    <2>4. AllFit(<<Label(f.label)>>, level, d)
      BY <2>3, FitsOne
    <2> QED BY <2>1, <2>2, <2>4, FitsJoined
  <1>4. CASE f.as = "arm" /\ Falls
    BY <1>1, <1>4 DEF Ending
  <1>5. CASE f.as # "try" /\ ~(f.as = "arm" /\ Falls)
    <2>1. Ending(f) = << >>
      BY <1>5 DEF Ending
    <2> QED BY <2>1, FitsEmpty
  <1> QED BY <1>3, <1>4, <1>5

LEMMA FitsSetup ==
  ASSUME NEW s, ~OverIterator(s), NEW level, NEW d
  PROVE  AllFit(Setup(s), level, d)
  <1>1. CASE s.kind = "for" /\ s.over = "range"
    <2>1. AllFit(<<FlagOp(s, FALSE)>>, level, d)
      BY FitsPlain DEF Fitting, FlagOp
    <2>2. AllFit(<<FlagOp(s, FALSE)>> \o Leave(s.cond), level, d)
      BY <2>1, FitsLeave, FitsJoined
    <2> QED BY <1>1, <2>2 DEF Setup
  <1>2. CASE ~(s.kind = "for" /\ s.over = "range")
    <2>1. Setup(s) = << >>
      BY <1>2 DEF Setup, OverIterator
    <2> QED BY <2>1, FitsEmpty
  <1> QED BY <1>1, <1>2

LEMMA FitsOpening ==
  ASSUME NEW s, NEW m, NEW level, NEW d,
         s.kind = "while" /\ s.cond.call => AllFit(CheckStatus, level, d),
         OverIterator(s) => "current" \notin s.throws
  PROVE  AllFit(Opening(s, m), level, d)
  <1>1. AllFit(Leave(s.cond), level, d)
    BY FitsLeave
  <1>2. CASE s.kind = "while"
    <2>1. AllFit(Before(s.cond) \o Leave(s.cond), level, d)
      BY <1>1, <1>2, FitsBefore, FitsJoined
    <2> QED BY <1>2, <2>1 DEF Opening
  <1>3. CASE s.kind = "for" /\ s.over = "array"
    BY <1>1, <1>3 DEF Opening
  <1>4. CASE s.kind = "for" /\ s.over = "range"
    <2> DEFINE e == [op |-> "if_temp", id |-> s.cond.id]
               j == Jump(m + 4)
    <2>1. AllFit(<<e>>, level, d) /\ AllFit(<<j>>, level, d) /\ AllFit(<<FlagOp(s, TRUE)>>, level, d)
      BY FitsPlain DEF Fitting, FlagOp, Jump
    <2>2. Opening(s, m) = <<e, j>> \o Leave(s.cond) \o <<FlagOp(s, TRUE)>>
      BY <1>4 DEF Opening
    <2> HIDE DEF e, j
    <2>3. AllFit(<<e, j>> \o Leave(s.cond), level, d)
      BY <1>1, <2>1, FitsTwo, FitsJoined
    <2> QED BY <2>1, <2>2, <2>3, FitsJoined
  <1>5. CASE s.kind = "for" /\ s.over = "iterator"
    <2>1. Fits(IteratorOp("iterate", s), level, d) /\ IteratorOp("iterate", s).op = "iterate"
      BY <1>5 DEF Fits, IteratorOp, OverIterator
    <2>2. AllFit(<<IteratorOp("iterate", s)>>, level, d)
      BY <2>1, FitsOne
    <2>3. AllFit(<<Op("break")>>, level, d)
      BY FitsPlain DEF Fitting, Op
    <2>4. AllFit(<<IteratorOp("iterate", s), Op("break")>>, level, d)
      BY <2>2, <2>3, FitsTwo
    <2> QED BY <1>5, <2>4 DEF Opening
  <1>6. CASE s.kind = "switch"
    <2> DEFINE e == [op |-> "select", id |-> s.id,
                     values |-> {s.clauses[i].value : i \in DOMAIN s.clauses} \ {0}]
    <2>1. AllFit(<<e>>, level, d)
      BY FitsPlain DEF Fitting
    <2>2. Opening(s, m) = <<e>>
      BY <1>6 DEF Opening
    <2> QED BY <2>1, <2>2
  <1>7. CASE /\ s.kind \notin {"while", "switch"} /\ ~(s.kind = "for" /\ s.over = "range")
             /\ ~(s.kind = "for" /\ s.over = "array") /\ ~(s.kind = "for" /\ s.over = "iterator")
    <2>1. Opening(s, m) = << >>
      BY <1>7 DEF Opening
    <2> QED BY <2>1, FitsEmpty
  <1> QED BY <1>2, <1>3, <1>4, <1>5, <1>6, <1>7

\* The end of a part, and of a statement.
LEMMA GuardedEnded ==
  ASSUME CodeInv, NEW d, Guarded(code, d),
         Top.as = "try" => Top.label \in DOMAIN d /\ Depth(code, Top.again) = d[Top.label]
  PROVE  Guarded(Ended(Top), d)
  <1>1. Top.from \in Nat /\ IsSeq(code) /\ Depth(code, Len(code) + 1) = Depth(code, Top.again)
    BY TopFrame
  <1>2. AllFit(Ending(Top), Depth(code, Len(code) + 1), d)
    BY <1>1, FitsEnding
  <1>3. Guarded(code \o Ending(Top), d) /\ IsSeq(code \o Ending(Top))
    BY <1>1, <1>2, GuardedJoined, SeqJoined DEF AllFit
  <1> QED BY <1>1, <1>3, GuardedResolved DEF Ended, ResolveNext, Pending

LEMMA GuardedClosing ==
  ASSUME NEW f, f.from \in Nat, NEW c, IsSeq(c), NEW d, Guarded(c, d)
  PROVE  Guarded(Closing(c, f), d)
  <1>1. ASSUME NEW e, IsSeq(e), Guarded(e, d), NEW ops, ops \subseteq Pending, NEW n
        PROVE  IsSeq(Resolve(e, f.from, ops, n)) /\ Guarded(Resolve(e, f.from, ops, n), d)
    BY <1>1, ResolveFacts, GuardedResolved
  <1>2. ASSUME NEW e, IsSeq(e), Guarded(e, d), NEW ops, ops \subseteq Pending
        PROVE  IsSeq(ResolveNext(e, f.from, ops)) /\ Guarded(ResolveNext(e, f.from, ops), d)
    BY <1>1, <1>2 DEF ResolveNext
  <1>3. ASSUME NEW e, IsSeq(e), Guarded(e, d), NEW g, AllFit(g, Depth(e, Len(e) + 1), d)
        PROVE  IsSeq(e \o g) /\ Guarded(e \o g, d)
    BY <1>3, GuardedJoined, SeqJoined DEF AllFit
  <1>4. ASSUME NEW e, IsSeq(e), Guarded(e, d)
        PROVE  IsSeq(e \o <<Jump(f.again)>>) /\ Guarded(e \o <<Jump(f.again)>>, d)
    <2>1. AllFit(<<Jump(f.again)>>, Depth(e, Len(e) + 1), d)
      BY FitsPlain DEF Fitting, Jump
    <2> QED BY <1>3, <1>4, <2>1
  <1>5. {"end"} \subseteq Pending /\ {"break"} \subseteq Pending
        /\ {"continue"} \subseteq Pending /\ {"break", "continue"} \subseteq Pending
    BY DEF Pending
  <1>6. IsSeq(EndLoop(c, f)) /\ Guarded(EndLoop(c, f), d)
    <2> DEFINE r == Resolve(c, f.from, {"continue"}, f.again)
    <2>1. IsSeq(r) /\ Guarded(r, d)
      BY <1>1, <1>5
    <2> HIDE DEF r
    <2>2. Append(r, Jump(f.again)) = r \o <<Jump(f.again)>>
      BY <2>1, SeqAppended
    <2>3. IsSeq(Append(r, Jump(f.again))) /\ Guarded(Append(r, Jump(f.again)), d)
      BY <1>4, <2>1, <2>2
    <2> QED BY <1>2, <1>5, <2>3 DEF EndLoop, r
  <1>7. Guarded(EndDoWhile(c, f), d)
    <2> DEFINE r == ResolveNext(c, f.from, {"continue"})
               t == r \o Leave(f.s.cond)
    <2>1. IsSeq(r) /\ Guarded(r, d)
      BY <1>2, <1>5
    <2> HIDE DEF r
    <2>2. AllFit(Leave(f.s.cond), Depth(r, Len(r) + 1), d)
      BY FitsLeave
    <2>3. IsSeq(t) /\ Guarded(t, d)
      BY <1>3, <2>1, <2>2
    <2> HIDE DEF t
    <2>4. IsSeq(t \o <<Jump(f.again)>>) /\ Guarded(t \o <<Jump(f.again)>>, d)
      BY <1>4, <2>3
    <2>5. Guarded(ResolveNext(t \o <<Jump(f.again)>>, f.from, {"break"}), d)
      BY <1>2, <1>5, <2>4
    <2> QED BY <2>5 DEF EndDoWhile, r, t
  <1>8. Guarded(EndIterator(c, f), d)
    <2>1. Fits(Op("destroy"), Depth(EndLoop(c, f), Len(EndLoop(c, f)) + 1), d)
      BY DEF Fits, Op
    <2>2. Append(EndLoop(c, f), Op("destroy")) = EndLoop(c, f) \o <<Op("destroy")>>
      BY <1>6, SeqAppended
    <2> QED BY <1>6, <2>1, <2>2, GuardedOne DEF EndIterator
  <1> QED BY <1>2, <1>5, <1>6, <1>7, <1>8 DEF Closing

-----------------------------------------------------------------------------
(* Where the open statements stand.                                        *)

\* The block of open statement k stands at xs[k], after n try statements.
Housed(at, c, w, n, xs, d, k) ==
  LET f == w[k]
      x == xs[k]
      level == Depth(c, f.again)
  IN /\ InBlock(f.block, at[x])
     /\ ~x.deep => level = 0
     /\ x.failure = "leaves" <=> \A l \in 1..k : w[l].as # "try"
     /\ x.failure = "caught" => n \in DOMAIN d /\ level = d[n]
     /\ \A l \in 1..k : xs[l].failure = "caught" => x.failure \in {"caught", "passes"}
     /\ f.as = "try" => f.label \in DOMAIN d /\ level = d[f.label]
     /\ k > 1 => f.s \in at[xs[k - 1]] /\ Enters(xs[k - 1], f.s, f.as, x)

Housing(at, c, w, n, xs, d) ==
  /\ xs \in [Nat -> Places] /\ DOMAIN d = 1..n /\ Guarded(c, d)
  /\ \A k \in 1..Len(w) : Housed(at, c, w, n, xs, d, k)

PlaceInv(at) == \E xs, d : Housing(at, code, work, currentTryCatch, xs, d)

\* A part stands where its statement does.
LEMMA PartStands ==
  ASSUME NEW at, Stand(at), NEW x \in Places, NEW s \in at[x], NEW p, PartOf(p, s)
  PROVE  InBlock(p.stmts, at[x]) /\ (p.as = "before" /\ p.of.call => MayFail(x))
  <1>1. Len(<< >>) = 0 /\ 1..0 = {}
    OBVIOUS
  <1>2. InBlock(<< >>, at[x])
    BY <1>1 DEF InBlock
  <1>3. CASE p.as = "before"
    BY <1>2, <1>3 DEF Stand, PartOf, Calls
  <1>4. CASE p.as # "before"
    BY <1>2, <1>4 DEF Stand, PartOf
  <1> QED BY <1>3, <1>4

\* A statement of a part other than a try block stands where its own does, but for
\* the block of a loop over an iterator.
LEMMA EntersSame ==
  ASSUME NEW x, NEW s, NEW as, as # "try", ~OverIterator(s)
  PROVE  \A y : Enters(x, s, as, y) <=> y = x
  BY DEF Enters

\* The failure of the innermost place decides where what fails goes.
LEMMA SafeTop ==
  ASSUME CodeInv, BlocksCounted, NEW at, NEW xs, NEW d,
         Housing(at, code, work, currentTryCatch, xs, d)
  PROVE  Safe(xs[Len(work)], Depth(code, Len(code) + 1), d)
  <1> DEFINE n == Len(work)
             x == xs[n]
  <1>1. /\ n \in Nat /\ n \in 1..n /\ Depth(code, Len(code) + 1) = Depth(code, work[n].again)
        /\ currentTryCatch \in Nat
    BY TopFrame, InContext DEF Top
  <1>2. Housed(at, code, work, currentTryCatch, xs, d, n) /\ DOMAIN d = 1..currentTryCatch
    BY <1>1 DEF Housing
  <1>3. x.failure = "leaves" <=> InBlocks(work) = {}
    BY <1>2 DEF Housed, InBlocks
  <1>4. Cardinality(InBlocks(work)) > 0 <=> InBlocks(work) # {}
    <2>1. InBlocks(work) \subseteq 1..n
      BY CountedIn
    <2>2. IsFiniteSet(InBlocks(work))
      <3>1. IsFiniteSet(1..n)
        BY <1>1, FS_Interval
      <3> QED BY <2>1, <3>1, FS_Subset
    <2> QED BY <2>2, FS_CardinalityType, FS_EmptySet
  <1>5. insideTryCatch > 0 <=> x.failure # "leaves"
    BY <1>3, <1>4 DEF BlocksCounted
  <1> QED BY <1>1, <1>2, <1>5 DEF Housed, Safe

\* An open statement that stays stands where it did.
LEMMA HousedSame ==
  ASSUME NEW at, NEW c, NEW w, NEW n, NEW xs, NEW d, NEW k \in Nat, k > 0,
         Housed(at, c, w, n, xs, d, k),
         NEW b, NEW v, NEW ys,
         \A l \in 1..k : v[l].as = w[l].as /\ ys[l] = xs[l],
         v[k] = w[k], Depth(b, w[k].again) = Depth(c, w[k].again)
  PROVE  Housed(at, b, v, n, ys, d, k)
  <1>1. k \in 1..k /\ (k > 1 => k - 1 \in 1..k)
    OBVIOUS
  <1> QED BY <1>1 DEF Housed

\* Only the innermost statement is another.
LEMMA HousingLast ==
  ASSUME NEW at, NEW c, NEW w, NEW n, NEW xs, NEW d, Housing(at, c, w, n, xs, d),
         NEW b, Guarded(b, d), NEW v, NEW ys \in [Nat -> Places], Len(v) \in Nat,
         \A k \in 1..(Len(v) - 1) :
           k \in 1..Len(w) /\ v[k] = w[k] /\ ys[k] = xs[k] /\ Depth(b, w[k].again) = Depth(c, w[k].again),
         Housed(at, b, v, n, ys, d, Len(v))
  PROVE  Housing(at, b, v, n, ys, d)
  <1>1. ASSUME NEW k \in 1..(Len(v) - 1)
        PROVE  Housed(at, b, v, n, ys, d, k)
    <2>1. k \in Nat /\ k > 0 /\ \A l \in 1..k : l \in 1..(Len(v) - 1)
      BY <1>1
    <2>2. Housed(at, c, w, n, xs, d, k)
      BY <1>1 DEF Housing
    <2>3. \A l \in 1..k : v[l].as = w[l].as /\ ys[l] = xs[l]
      BY <2>1
    <2>4. v[k] = w[k] /\ Depth(b, w[k].again) = Depth(c, w[k].again)
      BY <1>1
    <2> QED BY <2>1, <2>2, <2>3, <2>4, HousedSame
  <1>2. \A k \in 1..Len(v) : k \in 1..(Len(v) - 1) \/ k = Len(v)
    OBVIOUS
  <1> QED BY <1>1, <1>2 DEF Housing


-----------------------------------------------------------------------------
(* What the steps of the compiler make of the innermost statement.         *)

\* g is the open statement f, at another of its parts or further in its block.
Later(f, g) ==
  /\ g.s = f.s /\ g.label = f.label /\ g.from = f.from /\ g.again = f.again

\* All but the innermost of the open statements are as they were.
Below(w, v) == \A k \in 1..Len(w) : k # Len(w) => v[k] = w[k]

LEMMA AfterShape ==
  ASSUME CodeInv, Top.block # << >>
  PROVE  /\ IsSeq(After) /\ Len(After) = Len(work) /\ Below(work, After)
         /\ Later(Top, After[Len(work)])
         /\ After[Len(work)].as = Top.as /\ After[Len(work)].parts = Top.parts
         /\ After[Len(work)].block = Tail(Top.block)
  <1>1. /\ IsFrame(Top) /\ IsSeq(work) /\ Len(work) > 0
    BY TopFrame
  <1> DEFINE f == [Top EXCEPT !.block = Tail(Top.block)]
  <1>2. /\ f.s = Top.s /\ f.label = Top.label /\ f.from = Top.from /\ f.again = Top.again
        /\ f.as = Top.as /\ f.block = Tail(Top.block) /\ f.parts = Top.parts
    BY <1>1 DEF IsFrame
  <1>3. After = [work EXCEPT ![Len(work)] = f]
    BY DEF After, Top
  <1> HIDE DEF f
  <1>4. /\ IsSeq(After) /\ Len(After) = Len(work) /\ After[Len(work)] = f
        /\ \A k \in 1..Len(work) : k # Len(work) => After[k] = work[k]
    BY <1>1, <1>3, LastReplaced, ZenonT(60)
  <1> QED BY <1>2, <1>4 DEF Later, Below

LEMMA NextShape ==
  ASSUME CodeInv, NextPart
  PROVE  /\ IsSeq(work') /\ Len(work') = Len(work) /\ Below(work, work')
         /\ Later(Top, work'[Len(work)])
         /\ work'[Len(work)].as = Head(Top.parts).as
         /\ work'[Len(work)].parts = Rest(Top.parts)
         /\ work'[Len(work)].block = Head(Top.parts).stmts
         /\ code' = Ended(Top) \o Beginning(Head(Top.parts))
         /\ Top.block = << >> /\ Top.parts # << >>
         /\ PartOf(Head(Top.parts), Top.s) /\ Head(Top.parts).as # "try"
  <1>1. /\ IsFrame(Top) /\ IsSeq(work) /\ Len(work) > 0
    BY TopFrame
  <1>2. /\ code' = Ended(Top) \o Beginning(Head(Top.parts))
        /\ Top.block = << >> /\ Top.parts # << >>
    BY DEF NextPart
  <1> DEFINE f == Further(Top)
  <1>3. work' = [work EXCEPT ![Len(work)] = f]
    BY DEF NextPart, Top
  <1>4. /\ f.s = Top.s /\ f.label = Top.label /\ f.from = Top.from /\ f.again = Top.again
        /\ f.as = Head(Top.parts).as /\ f.block = Head(Top.parts).stmts /\ f.parts = Rest(Top.parts)
    BY <1>1 DEF IsFrame, Further
  <1> HIDE DEF f
  <1>5. /\ IsSeq(work') /\ Len(work') = Len(work) /\ work'[Len(work)] = f
        /\ \A k \in 1..Len(work) : k # Len(work) => work'[k] = work[k]
    <2> DEFINE v == [work EXCEPT ![Len(work)] = f]
    <2>1. /\ IsSeq(v) /\ Len(v) = Len(work) /\ v[Len(work)] = f
          /\ \A k \in 1..Len(work) : k # Len(work) => v[k] = work[k]
      BY <1>1, LastReplaced
    <2> QED BY <1>3, <2>1
  <1>6. PartOf(Head(Top.parts), Top.s) /\ Head(Top.parts).as # "try"
    BY <1>1, <1>2, PartsRest DEF IsFrame
  <1> QED BY <1>2, <1>4, <1>5, <1>6 DEF Later, Below

LEMMA OpenShape ==
  ASSUME CodeInv, OpenStatement
  PROVE  /\ Top.block # << >>
         /\ IsSeq(work') /\ Len(work') = Len(work) + 1
         /\ \A k \in 1..Len(work) : work'[k] = After[k]
         /\ LET fr == work'[Len(work) + 1]
                isTry == Current.kind = "try"
            IN /\ fr.s = Current /\ fr.label = currentTryCatch' /\ fr.from = Len(code)
               /\ fr.again = Len(code) + Len(Setup(Current)) + 1
               /\ fr.as = IF isTry THEN "try" ELSE "body"
               /\ fr.block = IF isTry \/ Current.kind \in LoopKinds THEN Current.body ELSE << >>
               /\ fr.parts = Parts(Current)
               /\ code' = code \o Setup(Current) \o Opening(Current, fr.again)
  <1> DEFINE isTry == Current.kind = "try"
             again == Len(code) + Len(Setup(Current)) + 1
             as == IF isTry THEN "try" ELSE "body"
             block == IF isTry \/ Current.kind \in LoopKinds THEN Current.body ELSE << >>
             fr == Opened(Current, currentTryCatch', Len(code), again, as, block, Parts(Current))
  <1>1. /\ Top.block # << >> /\ work' = Append(After, fr)
        /\ code' = code \o Setup(Current) \o Opening(Current, again)
    BY DEF OpenStatement, AtStatement
  <1>2. IsSeq(After) /\ Len(After) = Len(work)
    BY <1>1, AfterShape
  <1>3. /\ fr.s = Current /\ fr.label = currentTryCatch' /\ fr.from = Len(code) /\ fr.again = again
        /\ fr.as = as /\ fr.block = block /\ fr.parts = Parts(Current)
    BY DEF Opened
  <1> HIDE DEF fr
  <1>4. /\ IsSeq(work') /\ Len(work') = Len(work) + 1 /\ work'[Len(work) + 1] = fr
        /\ \A k \in 1..Len(work) : work'[k] = After[k]
    BY <1>1, <1>2, LastPushed
  <1> QED BY <1>1, <1>3, <1>4

\* Blocks.
LEMMA InBlockEmpty ==
  ASSUME NEW S
  PROVE  InBlock(<< >>, S)
  <1>1. Len(<< >>) = 0 /\ 1..0 = {}
    OBVIOUS
  <1> QED BY <1>1 DEF InBlock

LEMMA InBlockTail ==
  ASSUME NEW b, IsSeq(b), b # << >>, NEW S, InBlock(b, S)
  PROVE  Head(b) \in S /\ InBlock(Tail(b), S)
  <1>1. /\ Len(Tail(b)) = Len(b) - 1 /\ Len(b) > 0 /\ Head(b) = b[1] /\ Len(b) \in Nat
        /\ \A i \in 1..Len(Tail(b)) : Tail(b)[i] = b[i + 1]
    BY SeqTail, SeqFacts
  <1>2. 1 \in 1..Len(b) /\ \A i \in 1..Len(Tail(b)) : i + 1 \in 1..Len(b)
    BY <1>1
  <1> QED BY <1>1, <1>2 DEF InBlock

\* The open statements begin within the code.
LEMMA AgainSame ==
  ASSUME CodeInv, NEW d, NEW ops, NEW n, Grows(code, d, ops, n)
  PROVE  \A k \in 1..Len(work) : Depth(d, work[k].again) = Depth(code, work[k].again)
  <1>1. IsSeq(code) /\ \A k \in 1..Len(work) : work[k].again \in 1..(Len(code) + 1)
    BY DEF CodeInv, WellFormed, Stack, Placed, Lands
  <1> QED BY <1>1, GrowsDepth

-----------------------------------------------------------------------------
(* The compiler keeps every open statement in its place.                   *)

LEMMA MoreThanOne ==
  ASSUME NEW n \in Nat, n > 0, n # 1
  PROVE  n > 1 /\ n - 1 \in 1..n /\ n \in 1..n /\ n - 1 \in Nat /\ n - 1 # n /\ n \in 2..n
  OBVIOUS

LEMMA PlaceInit ==
  ASSUME Init, NEW at, NEW last, Sheltered(at, last)
  PROVE  PlaceInv(at)
  <1>1. PICK body \in Bodies :
          work = <<Opened([kind |-> "method", body |-> body], 0, 0, 1, "body", body, << >>)>>
    BY DEF Init
  <1> DEFINE f == Opened([kind |-> "method", body |-> body], 0, 0, 1, "body", body, << >>)
             xs == [m \in Nat |-> Outside]
             d == [m \in 1..0 |-> 0]
  <1>2. f.again = 1 /\ f.as = "body" /\ f.block = body
    BY DEF Opened
  <1> HIDE DEF f
  <1>3. work = <<f>> /\ Len(<<f>>) = 1 /\ <<f>>[1] = f
    BY <1>1 DEF f
  <1>4. Len(work) = 1 /\ work[1] = f
    BY <1>3
  <1>5. code = << >> /\ currentTryCatch = 0 /\ Len(<< >>) = 0 /\ 1..0 = {}
    BY DEF Init, MethodInit
  <1>6. Depth(code, 1) = 0
    <2>1. Obtains(code, 1) = {} /\ Destroys(code, 1) = {}
      BY DEF Obtains, Destroys
    <2> QED BY <2>1, DepthFacts, FS_EmptySet
  <1>7. Outside \in Places /\ ~Outside.deep /\ Outside.failure = "leaves"
    BY DEF Outside, Places
  <1>8. xs \in [Nat -> Places] /\ \A k \in Nat : xs[k] = Outside
    BY <1>7
  <1>9. DOMAIN d = 1..0
    OBVIOUS
  <1> HIDE DEF xs, d
  <1>10. Guarded(code, d)
    BY <1>5 DEF Guarded
  <1>11. InBlock(body, at[Outside])
    BY DEF Sheltered
  <1>12. Housed(at, code, work, 0, xs, d, 1)
    <2>1. xs[1] = Outside /\ \A l \in 1..1 : l = 1
      BY <1>8
    <2> QED BY <1>2, <1>4, <1>6, <1>7, <1>11, <2>1 DEF Housed
  <1>13. \A k \in 1..Len(work) : k = 1
    BY <1>4
  <1>14. Housing(at, code, work, currentTryCatch, xs, d)
    BY <1>5, <1>8, <1>9, <1>10, <1>12, <1>13 DEF Housing
  <1> QED BY <1>14 DEF PlaceInv

\* Of the innermost statement the block is another, and the code is more.
LEMMA HousedOn ==
  ASSUME CodeInv, NEW at, NEW xs, NEW d, Housing(at, code, work, currentTryCatch, xs, d),
         NEW b, Guarded(b, d),
         \A k \in 1..Len(work) : Depth(b, work[k].again) = Depth(code, work[k].again),
         NEW v, Len(v) = Len(work), Below(work, v), Later(Top, v[Len(work)]),
         v[Len(work)].as = Top.as, InBlock(v[Len(work)].block, at[xs[Len(work)]])
  PROVE  Housing(at, b, v, currentTryCatch, xs, d)
  <1> DEFINE n == Len(work)
             N == currentTryCatch
  <1>1. n \in Nat /\ n \in 1..n
    BY TopFrame
  <1>2. xs \in [Nat -> Places] /\ Housed(at, code, work, N, xs, d, n)
    BY <1>1 DEF Housing
  <1>3. \A k \in 1..(n - 1) : k \in 1..n /\ k # n
    BY <1>1
  <1>4. \A l \in 1..n : v[l].as = work[l].as
    BY DEF Below, Top
  <1>5. Depth(b, v[n].again) = Depth(code, work[n].again)
    BY <1>1 DEF Later, Top
  <1>6. Housed(at, b, v, N, xs, d, n)
    BY <1>1, <1>2, <1>4, <1>5 DEF Housed, Later, Top
  <1>7. \A k \in 1..(Len(v) - 1) :
          k \in 1..n /\ v[k] = work[k] /\ xs[k] = xs[k] /\ Depth(b, work[k].again) = Depth(code, work[k].again)
    BY <1>3 DEF Below
  <1> QED BY <1>1, <1>2, <1>6, <1>7, HousingLast

LEMMA PlaceSimple ==
  ASSUME CodeInv, BlocksCounted, NEW at, Stand(at), PlaceInv(at), CompileSimple
  PROVE  PlaceInv(at)'
  <1> DEFINE n == Len(work)
             N == currentTryCatch
             s == Current
             f == Compiled(s)
             level == Depth(code, Len(code) + 1)
  <1>1. PICK xs, d : Housing(at, code, work, N, xs, d)
    BY DEF PlaceInv
  <1> DEFINE x == xs[n]
  <1>2. /\ Top.block # << >> /\ s.kind \in Unnested /\ code' = code \o f /\ work' = After
        /\ currentTryCatch' = N
    BY DEF CompileSimple, AtStatement, context
  <1>3. n \in 1..n /\ n \in Nat /\ IsSeq(Top.block) /\ IsSeq(code)
    BY TopFrame DEF IsFrame, StatementsBlock, IsSeq
  <1>4. x \in Places /\ InBlock(Top.block, at[x]) /\ Guarded(code, d)
    BY <1>1, <1>3 DEF Housing, Housed, Top
  <1>5. s \in at[x] /\ InBlock(Tail(Top.block), at[x])
    BY <1>2, <1>3, <1>4, InBlockTail DEF Current
  <1>6. (s.kind = "return" => ~x.deep) /\ (Calls(s) => MayFail(x))
    BY <1>4, <1>5 DEF Stand
  <1>7. Safe(x, level, d)
    BY <1>1, SafeTop
  <1> HIDE DEF s, x, N
  <1>8. AllFit(f, level, d)
    BY <1>2, <1>6, <1>7, FitsCompiled
  <1>9. Guarded(code', d)
    BY <1>2, <1>3, <1>4, <1>8, GuardedJoined
  <1>10. \A k \in 1..n : Depth(code', work[k].again) = Depth(code, work[k].again)
    BY SimpleGrows, AgainSame
  <1>11. /\ Len(work') = n /\ Below(work, work') /\ Later(Top, work'[n])
         /\ work'[n].as = Top.as /\ work'[n].block = Tail(Top.block)
    BY <1>2, AfterShape
  <1>12. Housing(at, code', work', N, xs, d)
    BY <1>1, <1>5, <1>9, <1>10, <1>11, HousedOn DEF x, N
  <1> QED BY <1>2, <1>12 DEF PlaceInv

LEMMA PlaceNext ==
  ASSUME CodeInv, BlocksCounted, NEW at, Stand(at), PlaceInv(at), NextPart
  PROVE  PlaceInv(at)'
  <1> DEFINE n == Len(work)
             N == currentTryCatch
             p == Head(Top.parts)
             c == Ended(Top)
  <1>1. PICK xs, d : Housing(at, code, work, N, xs, d)
    BY DEF PlaceInv
  <1> DEFINE x == xs[n]
             y == xs[n - 1]
             ys == [xs EXCEPT ![n] = y]
  <1>2. /\ Len(work') = n /\ Below(work, work') /\ Later(Top, work'[n])
        /\ work'[n].as = p.as /\ work'[n].block = p.stmts
        /\ code' = c \o Beginning(p) /\ PartOf(p, Top.s) /\ p.as # "try"
    BY NextShape
  <1>3. /\ n # 1 /\ currentTryCatch' = N /\ Grows(code, code', Own(Top.s), N)
    BY NextGrows
  <1>4. n \in Nat /\ n > 1 /\ n - 1 \in 1..n /\ n \in 1..n /\ n - 1 \in Nat /\ n - 1 # n /\ IsSeq(code)
    <2>1. n \in Nat /\ n > 0 /\ IsSeq(code)
      BY TopFrame
    <2> QED BY <1>3, <2>1, MoreThanOne
  <1>5. /\ Housed(at, code, work, N, xs, d, n) /\ Housed(at, code, work, N, xs, d, n - 1)
        /\ xs \in [Nat -> Places] /\ Guarded(code, d)
    BY <1>1, <1>4 DEF Housing
  <1> HIDE DEF p, c, N
  <1>6. x \in Places /\ y \in Places /\ Top.s \in at[y] /\ Enters(y, Top.s, Top.as, x) /\ work[n] = Top
    BY <1>4, <1>5 DEF Housed, Top
  <1>7. ~OverIterator(Top.s)
    BY <1>2 DEF PartOf, OverIterator
  <1>8. Top.as # "try" => x = y
    BY <1>6, <1>7, EntersSame
  <1>9. Top.as = "try" => Top.label \in DOMAIN d /\ Depth(code, Top.again) = d[Top.label]
    BY <1>5 DEF Housed, Top
  <1>10. Guarded(c, d)
    BY <1>5, <1>9, GuardedEnded DEF c
  <1>11. WellFormed(c) /\ AtLevel(c, work) /\ Grows(code, c, Own(Top.s), N) /\ IsSeq(c)
    BY <1>3, EndedFacts DEF c, N, WellFormed
  <1>12. Depth(c, Len(c) + 1) = Depth(code, Top.again) /\ Depth(code, Top.again) = Depth(code, Len(code) + 1)
    <2>1. Depth(c, work[n].again) = Depth(code, work[n].again)
      BY <1>4, <1>11, AgainSame
    <2> QED BY <1>6, <1>11, <2>1, TopFrame DEF AtLevel
  <1>13. InBlock(p.stmts, at[y]) /\ (p.as = "before" /\ p.of.call => MayFail(y))
    BY <1>2, <1>6, PartStands
  <1>14. p.as = "before" /\ p.of.call => AllFit(CheckStatus, Depth(c, Len(c) + 1), d)
    <2>1. SUFFICES ASSUME p.as = "before", p.of.call
                   PROVE  AllFit(CheckStatus, Depth(c, Len(c) + 1), d)
      OBVIOUS
    <2>2. Top.s.kind # "try"
      BY <1>2, <2>1 DEF PartOf
    <2>3. Top.as # "try"
      BY <2>2, TopFrame DEF IsFrame
    <2>4. MayFail(x)
      BY <1>8, <1>13, <2>1, <2>3
    <2>5. Safe(x, Depth(code, Len(code) + 1), d)
      BY <1>1, SafeTop DEF N
    <2> QED BY <1>12, <2>4, <2>5, FitsCheck
  <1>15. Guarded(code', d)
    <2>1. AllFit(Beginning(p), Depth(c, Len(c) + 1), d)
      BY <1>14, FitsBeginning
    <2> QED BY <1>2, <1>10, <1>11, <2>1, GuardedJoined
  <1>16. \A k \in 1..n : Depth(code', work[k].again) = Depth(code, work[k].again)
    BY <1>3, AgainSame
  <1>17. /\ ys \in [Nat -> Places] /\ ys[n] = y /\ \A k \in Nat : k # n => ys[k] = xs[k]
    BY <1>4, <1>5, <1>6
  <1> HIDE DEF ys
  <1>18. Depth(code', work'[n].again) = Depth(code, work[n - 1].again)
         /\ Depth(code', work'[n].again) = Depth(code, work[n].again)
    <2>1. n \in 2..n
      BY <1>4
    <2>2. Depth(code, work[n].again) = Depth(code, work[n - 1].again)
      BY <1>6, <1>7, <2>1 DEF CodeInv, Stack, Levels
    <2> QED BY <1>2, <1>4, <1>6, <1>16, <2>2 DEF Later
  <1>19. \A l \in 1..n : l \in 1..(n - 1) \/ l = n
    BY <1>4
  <1>20. \A l \in 1..(n - 1) : l \in 1..n /\ l # n /\ l \in Nat
    BY <1>4
  <1>21. y.failure = "leaves" <=> \A l \in 1..n : work'[l].as # "try"
    <2>1. y.failure = "leaves" <=> \A l \in 1..(n - 1) : work[l].as # "try"
      BY <1>5 DEF Housed
    <2>2. \A l \in 1..(n - 1) : work'[l] = work[l]
      BY <1>2, <1>20 DEF Below
    <2> QED BY <1>2, <1>19, <1>20, <2>1, <2>2
  <1>22. \A l \in 1..n : ys[l].failure = "caught" => y.failure \in {"caught", "passes"}
    <2>1. \A l \in 1..(n - 1) : xs[l].failure = "caught" => y.failure \in {"caught", "passes"}
      BY <1>5 DEF Housed
    <2> QED BY <1>17, <1>19, <1>20, <2>1
  <1>23. ~y.deep => Depth(code', work'[n].again) = 0
    BY <1>5, <1>18 DEF Housed
  <1>24. y.failure = "caught" => N \in DOMAIN d /\ Depth(code', work'[n].again) = d[N]
    BY <1>5, <1>18 DEF Housed
  <1>25. Housed(at, code', work', N, ys, d, n)
    <2>1. work'[n].s = Top.s /\ ys[n - 1] = y
      BY <1>2, <1>4, <1>17 DEF Later
    <2>2. Enters(y, Top.s, p.as, y)
      BY <1>2, <1>7, EntersSame
    <2> QED BY <1>2, <1>6, <1>13, <1>17, <1>21, <1>22, <1>23, <1>24, <2>1, <2>2 DEF Housed
  <1>26. \A k \in 1..(Len(work') - 1) :
           k \in 1..n /\ work'[k] = work[k] /\ ys[k] = xs[k]
           /\ Depth(code', work[k].again) = Depth(code, work[k].again)
    BY <1>2, <1>16, <1>17, <1>20 DEF Below
  <1>27. Housing(at, code', work', N, ys, d)
    <2>1. Len(work') \in Nat /\ Housed(at, code', work', N, ys, d, Len(work'))
      BY <1>2, <1>4, <1>25
    <2>2. \A k \in 1..(Len(work') - 1) :
            k \in 1..Len(work) /\ work'[k] = work[k] /\ ys[k] = xs[k]
            /\ Depth(code', work[k].again) = Depth(code, work[k].again)
      BY <1>26
    <2>3. Housing(at, code, work, N, xs, d)
      BY <1>1 DEF N
    <2> HIDE DEF n, x, y
    <2> QED BY <1>15, <1>17, <2>1, <2>2, <2>3, HousingLast
  <1> QED BY <1>3, <1>27 DEF PlaceInv, N

LEMMA PlaceClose ==
  ASSUME CodeInv, NEW at, PlaceInv(at), CloseStatement
  PROVE  PlaceInv(at)'
  <1> DEFINE n == Len(work)
             N == currentTryCatch
  <1>1. PICK xs, d : Housing(at, code, work, N, xs, d)
    BY DEF PlaceInv
  <1>2. /\ Closed(code') /\ n # 1 /\ Len(work') = n - 1
        /\ \A k \in 1..Len(work') : k \in 1..n /\ k # n /\ work'[k] = work[k]
        /\ currentTryCatch' = N
    BY CloseGrows
  <1>3. n \in 1..n /\ n \in Nat /\ Top.from \in Nat
    BY TopFrame
  <1>4. xs \in [Nat -> Places] /\ Guarded(code, d) /\ DOMAIN d = 1..N /\ Housed(at, code, work, N, xs, d, n)
    BY <1>1, <1>3 DEF Housing
  <1>5. Guarded(code', d)
    <2>1. Guarded(Ended(Top), d)
      BY <1>4, GuardedEnded DEF Housed, Top
    <2>2. IsSeq(Ended(Top))
      BY <1>2, EndedFacts DEF WellFormed
    <2>3. code' = Closing(Ended(Top), Top)
      BY DEF CloseStatement
    <2> QED BY <1>3, <2>1, <2>2, <2>3, GuardedClosing
  <1>6. \A k \in 1..n : Depth(code', work[k].again) = Depth(code, work[k].again)
    BY <1>2, AgainSame DEF Closed
  <1>7. ASSUME NEW k \in 1..Len(work')
        PROVE  Housed(at, code', work', N, xs, d, k)
    <2>1. k \in 1..n /\ k \in Nat /\ k > 0 /\ \A l \in 1..k : l \in 1..Len(work')
      BY <1>2, <1>3
    <2>2. Housed(at, code, work, N, xs, d, k)
      BY <1>1, <2>1 DEF Housing
    <2>3. \A l \in 1..k : work'[l].as = work[l].as /\ xs[l] = xs[l]
      BY <1>2, <2>1
    <2>4. work'[k] = work[k] /\ Depth(code', work[k].again) = Depth(code, work[k].again)
      BY <1>2, <1>6, <2>1
    <2> QED BY <2>1, <2>2, <2>3, <2>4, HousedSame
  <1>8. Housing(at, code', work', N, xs, d)
    BY <1>4, <1>5, <1>7 DEF Housing
  <1> QED BY <1>2, <1>8 DEF PlaceInv

LEMMA EntersTry ==
  ASSUME NEW x, NEW s, ~OverIterator(s), NEW y, Enters(x, s, "try", y)
  PROVE  /\ y.deep = x.deep /\ y.failure \in {"caught", "strays"}
         /\ x.failure # "passes" /\ (x.failure = "caught" => y.failure = "caught")
  BY DEF Enters

\* One more statement is open: the code becomes b, the stack v, and of e now that of
\* M try blocks is known.
Opens(at, c, w, N, xs, d, y, b, v, M, e) ==
  LET n == Len(w)
      x == xs[n]
      fr == v[n + 1]
      isTry == fr.s.kind = "try"
  IN /\ Housing(at, c, w, N, xs, d) /\ N \in Nat /\ n \in Nat /\ n > 0
     /\ Len(v) = n + 1 /\ \A k \in 1..n : v[k] = w[k]
     /\ fr.s \in at[x] /\ y \in Places /\ Enters(x, fr.s, fr.as, y) /\ InBlock(fr.block, at[y])
     /\ fr.as = "try" <=> isTry
     /\ fr.as = "try" => fr.label = M
     /\ M = IF isTry THEN N + 1 ELSE N
     /\ DOMAIN e = 1..M /\ \A m \in 1..N : e[m] = d[m]
     /\ isTry => e[M] = Depth(b, fr.again)
     /\ Guarded(b, e)
     /\ \A k \in 1..n : Depth(b, w[k].again) = Depth(c, w[k].again)
     /\ ~OverIterator(fr.s) => Depth(b, fr.again) = Depth(c, w[n].again)

LEMMA HousingPushed ==
  ASSUME NEW at, NEW c, NEW w, NEW N, NEW xs, NEW d, NEW y, NEW b, NEW v, NEW M, NEW e,
         Opens(at, c, w, N, xs, d, y, b, v, M, e)
  PROVE  \E ys : Housing(at, b, v, M, ys, e)
  <1> DEFINE n == Len(w)
             x == xs[n]
             fr == v[n + 1]
             s == fr.s
             ys == [xs EXCEPT ![n + 1] = y]
             isTry == s.kind = "try"
  <1>0. /\ Housing(at, c, w, N, xs, d) /\ N \in Nat /\ n \in Nat /\ n > 0
        /\ Len(v) = n + 1 /\ \A k \in 1..n : v[k] = w[k]
        /\ s \in at[x] /\ y \in Places /\ Enters(x, s, fr.as, y) /\ InBlock(fr.block, at[y])
        /\ fr.as = "try" <=> isTry
        /\ fr.as = "try" => fr.label = M
        /\ M = IF isTry THEN N + 1 ELSE N
        /\ DOMAIN e = 1..M /\ \A m \in 1..N : e[m] = d[m]
        /\ isTry => e[M] = Depth(b, fr.again)
        /\ Guarded(b, e)
        /\ \A k \in 1..n : Depth(b, w[k].again) = Depth(c, w[k].again)
        /\ ~OverIterator(s) => Depth(b, fr.again) = Depth(c, w[n].again)
    BY DEF Opens
  <1> HIDE DEF n, fr, s
  <1> USE <1>0
  <1>1. n \in 1..n /\ n + 1 \in Nat /\ n + 1 > 1 /\ (n + 1) - 1 = n
    OBVIOUS
  <1>2. xs \in [Nat -> Places] /\ DOMAIN d = 1..N /\ \A k \in 1..n : Housed(at, c, w, N, xs, d, k)
    BY DEF Housing, n
  <1>3. ys \in [Nat -> Places] /\ ys[n + 1] = y /\ \A k \in Nat : k # n + 1 => ys[k] = xs[k]
    BY <1>1, <1>2
  <1>4. Housed(at, c, w, N, xs, d, n)
    BY <1>1, <1>2
  <1> HIDE DEF ys
  <1>5. \A k \in 1..n : k \in Nat /\ k > 0 /\ k # n + 1 /\ ys[k] = xs[k]
    BY <1>3
  <1>6. \A m \in 1..N : m \in 1..M /\ e[m] = d[m]
    OBVIOUS
  <1>7. isTry => ~OverIterator(s)
    BY DEF OverIterator
  <1>8. isTry => /\ y.deep = x.deep /\ y.failure \in {"caught", "strays"}
                 /\ x.failure # "passes" /\ (x.failure = "caught" => y.failure = "caught")
    BY <1>7, EntersTry
  <1>9. ~isTry /\ OverIterator(s) =>
          y.deep /\ y.failure = IF x.failure = "caught" THEN "passes" ELSE x.failure
    BY DEF Enters
  <1>10. ~isTry /\ ~OverIterator(s) => y = x
    BY DEF Enters
  <1>11. ASSUME NEW k \in 1..n
         PROVE  Housed(at, b, v, M, ys, e, k)
    <2> DEFINE z == xs[k]
    <2>1. /\ v[k] = w[k] /\ ys[k] = z /\ Depth(b, v[k].again) = Depth(c, w[k].again)
          /\ \A l \in 1..k : l \in 1..n /\ v[l] = w[l] /\ ys[l] = xs[l]
      <3>1. \A l \in 1..k : l \in 1..n
        OBVIOUS
      <3> QED BY <1>5, <3>1
    <2>2. Housed(at, c, w, N, xs, d, k)
      BY <1>2
    <2>3. z.failure = "caught" => M \in DOMAIN e /\ Depth(b, v[k].again) = e[M]
      <3>1. SUFFICES ASSUME z.failure = "caught"
                     PROVE  M \in DOMAIN e /\ Depth(b, v[k].again) = e[M]
        OBVIOUS
      <3>2. N \in 1..N /\ Depth(c, w[k].again) = d[N]
        BY <1>2, <2>2, <3>1 DEF Housed
      <3>3. CASE isTry
        <4>1. x.failure \in {"caught", "passes"}
          BY <1>4, <3>1 DEF Housed
        <4>2. Depth(c, w[n].again) = d[N]
          BY <1>4, <1>8, <3>3, <4>1 DEF Housed
        <4>3. e[M] = Depth(c, w[n].again)
          BY <1>7, <3>3
        <4>4. M \in 1..M
          BY <3>3
        <4> QED BY <2>1, <3>2, <4>2, <4>3, <4>4
      <3>4. CASE ~isTry
        BY <1>6, <2>1, <3>2, <3>4
      <3> QED BY <3>3, <3>4
    <2>4. v[k].as = "try" => v[k].label \in DOMAIN e /\ Depth(b, v[k].again) = e[v[k].label]
      BY <1>2, <1>6, <2>1, <2>2 DEF Housed
    <2>5. k > 1 => v[k].s \in at[ys[k - 1]] /\ Enters(ys[k - 1], v[k].s, v[k].as, z)
      <3>1. k > 1 => k - 1 \in 1..k
        OBVIOUS
      <3> QED BY <2>1, <2>2, <3>1 DEF Housed
    <2>6. /\ InBlock(v[k].block, at[z]) /\ (~z.deep => Depth(b, v[k].again) = 0)
          /\ z.failure = "leaves" <=> \A l \in 1..k : v[l].as # "try"
          /\ \A l \in 1..k : ys[l].failure = "caught" => z.failure \in {"caught", "passes"}
      BY <2>1, <2>2 DEF Housed
    <2> QED BY <2>1, <2>3, <2>4, <2>5, <2>6 DEF Housed
  <1>12. Housed(at, b, v, M, ys, e, n + 1)
    <2>1. \A l \in 1..(n + 1) : l \in 1..n \/ l = n + 1
      OBVIOUS
    <2>2. \A l \in 1..n : l \in 1..(n + 1)
      OBVIOUS
    <2>3. ~y.deep => Depth(b, fr.again) = 0
      BY <1>4, <1>7, <1>8, <1>9, <1>10 DEF Housed
    <2>4. y.failure = "leaves" <=> \A l \in 1..(n + 1) : v[l].as # "try"
      <3>1. x.failure = "leaves" <=> \A l \in 1..n : v[l].as # "try"
        BY <1>4 DEF Housed
      <3>2. CASE isTry
        <4>1. n + 1 \in 1..(n + 1) /\ v[n + 1].as = "try"
          BY <3>2 DEF fr
        <4> QED BY <1>8, <3>2, <4>1
      <3>3. CASE ~isTry
        <4>1. y.failure = "leaves" <=> x.failure = "leaves"
          BY <1>9, <1>10, <3>3
        <4>2. v[n + 1].as # "try"
          BY <3>3 DEF fr
        <4> QED BY <2>1, <2>2, <3>1, <4>1, <4>2
      <3> QED BY <3>2, <3>3
    <2>5. y.failure = "caught" => M \in DOMAIN e /\ Depth(b, fr.again) = e[M]
      <3>1. CASE isTry
        <4>1. M \in 1..M
          BY <3>1
        <4> QED BY <3>1, <4>1
      <3>2. CASE ~isTry
        <4>1. SUFFICES ASSUME y.failure = "caught"
                       PROVE  M \in DOMAIN e /\ Depth(b, fr.again) = e[M]
          OBVIOUS
        <4>2. ~OverIterator(s) /\ y = x
          BY <1>9, <1>10, <3>2, <4>1
        <4>3. N \in 1..N /\ Depth(c, w[n].again) = d[N]
          BY <1>2, <1>4, <4>1, <4>2 DEF Housed
        <4> QED BY <1>6, <3>2, <4>2, <4>3
      <3> QED BY <3>1, <3>2
    <2>6. \A l \in 1..(n + 1) : ys[l].failure = "caught" => y.failure \in {"caught", "passes"}
      <3>1. \A l \in 1..n : xs[l].failure = "caught" => x.failure \in {"caught", "passes"}
        BY <1>4 DEF Housed
      <3>2. x.failure \in {"caught", "passes"} => y.failure \in {"caught", "passes"}
        BY <1>8, <1>9, <1>10
      <3> QED BY <1>3, <1>5, <2>1, <3>1, <3>2
    <2>7. fr.as = "try" => fr.label \in DOMAIN e /\ Depth(b, fr.again) = e[fr.label]
      <3>1. isTry => M \in 1..M
        OBVIOUS
      <3> QED BY <3>1
    <2>8. ys[(n + 1) - 1] = x
      BY <1>1, <1>5
    <2> QED BY <1>1, <1>3, <2>3, <2>4, <2>5, <2>6, <2>7, <2>8 DEF Housed, fr, s
  <1>13. \A k \in 1..Len(v) : k \in 1..n \/ k = n + 1
    OBVIOUS
  <1>14. Housing(at, b, v, M, ys, e)
    BY <1>3, <1>11, <1>12, <1>13 DEF Housing
  <1> QED BY <1>14

\* What a statement prints when it is opened restores the frame, and may fail, where
\* it should.
LEMMA GuardedOpened ==
  ASSUME NEW c, IsSeq(c), NEW e, Guarded(c, e), NEW s,
         s.kind = "while" /\ s.cond.call => AllFit(CheckStatus, Depth(c, Len(c) + 1), e),
         OverIterator(s) => "current" \notin s.throws, NEW m
  PROVE  Guarded(c \o Setup(s) \o Opening(s, m), e)
  <1> DEFINE g == Setup(s)
             f == Opening(s, m)
             b == c \o g
             level == Depth(c, Len(c) + 1)
  <1>1. CASE ~OverIterator(s)
    <2>1. AllFit(g, level, e) /\ AllFit(f, level, e)
      BY <1>1, FitsSetup, FitsOpening
    <2> HIDE DEF g, f
    <2>2. IsSeq(b) /\ Guarded(b, e)
      BY <2>1, GuardedJoined, SeqJoined DEF AllFit
    <2>3. Depth(b, Len(b) + 1) = level
      <3>1. Len(g) \in Nat /\ Len(c) \in Nat /\ Len(b) = Len(c) + Len(g) /\ IsSeq(g) /\ Flat(g)
        BY <2>1, SeqFacts, SeqJoined DEF AllFit
      <3>2. Len(g) + 1 \in 1..(Len(g) + 1) /\ Len(c) + (Len(g) + 1) = Len(b) + 1
        BY <3>1
      <3>3. Depth(c \o g, Len(c) + (Len(g) + 1)) = Depth(c, Len(c) + 1)
        BY <3>1, <3>2, FlatJoined
      <3> QED BY <3>2, <3>3
    <2> HIDE DEF b, level
    <2>4. Guarded(b \o f, e)
      BY <2>1, <2>2, <2>3, GuardedJoined
    <2> QED BY <2>4 DEF b, g, f
  <1>2. CASE OverIterator(s)
    <2> DEFINE t == IteratorOp("get_iterator", s)
    <2>1. g = <<t>> /\ t.op = "get_iterator"
      BY <1>2 DEF Setup, OverIterator, IteratorOp
    <2>2. Fits(t, level, e)
      BY <2>1 DEF Fits
    <2> HIDE DEF t, g
    <2>3. IsSeq(b) /\ Guarded(b, e)
      BY <2>1, <2>2, GuardedOne, SeqAppended, SeqJoined
    <2>4. AllFit(f, Depth(b, Len(b) + 1), e)
      <3>1. ~(s.kind = "while")
        BY <1>2 DEF OverIterator
      <3> QED BY <3>1, FitsOpening
    <2> HIDE DEF b, f
    <2>5. Guarded(b \o f, e)
      BY <2>3, <2>4, GuardedJoined
    <2> QED BY <2>5 DEF b, g, f
  <1> QED BY <1>1, <1>2

LEMMA PlaceOpen ==
  ASSUME CodeInv, BlocksCounted, NEW at, Stand(at), PlaceInv(at), OpenStatement
  PROVE  PlaceInv(at)'
  <1> DEFINE n == Len(work)
             N == currentTryCatch
             M == currentTryCatch'
             s == Current
             isTry == s.kind = "try"
             fr == work'[n + 1]
  <1>1. PICK xs, d : Housing(at, code, work, N, xs, d)
    BY DEF PlaceInv
  <1> DEFINE x == xs[n]
             level == Depth(code, Len(code) + 1)
  <1>2. /\ Top.block # << >> /\ Len(work') = n + 1
        /\ \A k \in 1..n : work'[k] = After[k]
        /\ fr.s = s /\ fr.label = M
        /\ fr.as = IF isTry THEN "try" ELSE "body"
        /\ fr.block = IF isTry \/ s.kind \in LoopKinds THEN s.body ELSE << >>
        /\ code' = code \o Setup(s) \o Opening(s, fr.again)
    BY OpenShape
  <1>3. /\ Stack(code', work') /\ Grows(code, code', Own(s), N)
        /\ M = IF isTry THEN N + 1 ELSE N
    BY OpenGrows DEF Plus
  <1>4. /\ n \in 1..n /\ n \in Nat /\ n > 0 /\ IsSeq(Top.block) /\ IsSeq(code) /\ N \in Nat
        /\ level = Depth(code, work[n].again)
    BY TopFrame, InContext DEF IsFrame, StatementsBlock, IsSeq, Top
  <1>5. x \in Places /\ InBlock(Top.block, at[x]) /\ Guarded(code, d) /\ DOMAIN d = 1..N
    BY <1>1, <1>4 DEF Housing, Housed, Top
  <1>6. s \in at[x] /\ InBlock(Tail(Top.block), at[x])
    BY <1>2, <1>4, <1>5, InBlockTail DEF Current
  <1>7. /\ Len(After) = n /\ Below(work, After) /\ Later(Top, After[n])
        /\ After[n].as = Top.as /\ After[n].block = Tail(Top.block)
    BY <1>2, AfterShape
  <1>8. Housing(at, code, After, N, xs, d)
    BY <1>1, <1>5, <1>6, <1>7, HousedOn
  <1>9. \A k \in 1..n : After[k].again = work[k].again
    BY <1>7 DEF Below, Later, Top
  <1>10. \A k \in 1..n : Depth(code', After[k].again) = Depth(code, After[k].again)
    <2>1. \A k \in 1..n : Depth(code', work[k].again) = Depth(code, work[k].again)
      BY <1>3, AgainSame
    <2> QED BY <1>9, <2>1
  <1>11. /\ Calls(s) => MayFail(x)
         /\ OverIterator(s) => "current" \notin s.throws
         /\ s.kind \in LoopKinds \cup {"try"} =>
              \E y \in Places : Enters(x, s, IF isTry THEN "try" ELSE "body", y) /\ InBlock(s.body, at[y])
    BY <1>5, <1>6 DEF Stand
  <1>12. Safe(x, level, d)
    BY <1>1, SafeTop
  <1> HIDE DEF s, fr, n, N, M, x
  <1>13. PICK y \in Places : Enters(x, s, fr.as, y) /\ InBlock(fr.block, at[y])
    <2>1. CASE s.kind \in LoopKinds \cup {"try"}
      BY <1>2, <1>11, <2>1
    <2>2. CASE s.kind \notin LoopKinds \cup {"try"}
      <3>1. ~OverIterator(s) /\ fr.as # "try" /\ fr.block = << >>
        BY <1>2, <2>2 DEF OverIterator, LoopKinds
      <3> QED BY <1>5, <3>1, EntersSame, InBlockEmpty
    <2> QED BY <2>1, <2>2
  <1> DEFINE e == IF isTry THEN [m \in 1..(N + 1) |-> IF m = N + 1 THEN Depth(code', fr.again) ELSE d[m]]
                           ELSE d
  <1>14. /\ DOMAIN e = 1..M /\ (\A m \in 1..N : m \in 1..M /\ e[m] = d[m])
         /\ isTry => e[M] = Depth(code', fr.again)
    BY <1>3, <1>4, <1>5
  <1>15. ~isTry => e = d
    OBVIOUS
  <1> HIDE DEF e
  <1>16. Guarded(code', e)
    <2>1. Guarded(code, e)
      BY <1>5, <1>14, GuardedMore
    <2>2. s.kind = "while" /\ s.cond.call => AllFit(CheckStatus, level, e)
      <3>1. SUFFICES ASSUME s.kind = "while", s.cond.call
                     PROVE  AllFit(CheckStatus, level, e)
        OBVIOUS
      <3>2. MayFail(x) /\ e = d
        BY <1>11, <1>15, <3>1 DEF Calls
      <3> QED BY <1>12, <3>2, FitsCheck
    <2> QED BY <1>2, <1>4, <1>11, <2>1, <2>2, GuardedOpened
  <1>17. ~OverIterator(s) => Depth(code', fr.again) = Depth(code, After[n].again)
    <2>1. n + 1 \in 2..Len(work') /\ (n + 1) - 1 = n
      BY <1>2, <1>4
    <2>2. ~OverIterator(work'[n + 1].s) => Depth(code', work'[n + 1].again) = Depth(code', work'[n].again)
      BY <1>3, <2>1 DEF Stack, Levels
    <2>3. Depth(code', work'[n].again) = Depth(code, After[n].again)
      BY <1>2, <1>4, <1>10
    <2> QED BY <1>2, <2>2, <2>3 DEF fr
  <1>18. fr.as = "try" <=> s.kind = "try"
    BY <1>2
  <1>19. Len(After) = n /\ Len(work') = n + 1 /\ work'[n + 1] = fr
    BY <1>2, <1>7 DEF fr
  <1>20. \E ys : Housing(at, code', work', M, ys, e)
    <2>1. s \in at[xs[n]] /\ Enters(xs[n], s, fr.as, y)
      BY <1>6, <1>13 DEF x
    <2>2. Opens(at, code, After, N, xs, d, y, code', work', M, e)
      BY <1>2, <1>3, <1>4, <1>8, <1>10, <1>13, <1>14, <1>16, <1>17, <1>18, <1>19, <2>1 DEF Opens
    <2> QED BY <2>2, HousingPushed
  <1> QED BY <1>20 DEF PlaceInv, M

-----------------------------------------------------------------------------
(* A body that ends in a statement every way through which leaves the      *)
(* method: the code of its end is not reached.                             *)

\* The end of c is not reached from within it.
Stops(c) == c # << >> /\ \A i \in 1..Len(c) : Len(c) + 1 \notin Ways(c, i)

LEMMA WaysInside ==
  ASSUME NEW c, WellFormed(c), NEW f, IsSeq(f), Len(f) > 0, NEW i \in 1..Len(c)
  PROVE  Len(c \o f) + 1 \notin Ways(c \o f, i)
  <1> DEFINE b == c \o f
  <1>1. /\ IsSeq(c) /\ Len(c) \in Nat /\ Len(f) \in Nat /\ IsSeq(b)
        /\ Len(b) = Len(c) + Len(f) /\ b[i] = c[i] /\ DOMAIN b = 1..Len(b)
    BY SeqFacts, SeqJoined DEF WellFormed
  <1>2. c[i].op = "jump" => c[i].to \in 1..(Len(c) + 1)
    BY DEF WellFormed, Lead, Lands
  <1>3. c[i].op \in Tests => i < Len(c)
    BY DEF WellFormed, Paired
  <1> HIDE DEF b
  <1>4. \A j \in Ways(b, i) : j \in 1..Len(b) \/ j = i + 1 \/ (j = i + 2 /\ i < Len(c)) \/ j \in 1..(Len(c) + 1)
    <2>1. CASE c[i].op = "jump"
      <3>1. Ways(b, i) = {c[i].to}
        BY <1>1, <2>1 DEF Ways, Pending
      <3> QED BY <1>2, <2>1, <3>1
    <2>2. CASE c[i].op = "goto"
      <3>1. Ways(b, i) \subseteq DOMAIN b
        BY <1>1, <2>2 DEF Ways
      <3> QED BY <1>1, <3>1
    <2>3. CASE c[i].op \in Tests
      <3>1. Ways(b, i) = {i + 1, i + 2}
        BY <1>1, <2>3 DEF Ways, Tests, Pending
      <3> QED BY <1>3, <2>3, <3>1
    <2>4. CASE c[i].op \in Pending \cup {"return"}
      <3>1. Ways(b, i) = {}
        BY <1>1, <2>4 DEF Ways, Pending
      <3> QED BY <3>1
    <2>5. CASE c[i].op \notin {"jump", "goto", "return"} \cup Tests \cup Pending
      <3>1. Ways(b, i) = {i + 1}
        BY <1>1, <2>5 DEF Ways, Tests
      <3> QED BY <3>1
    <2> QED BY <2>1, <2>2, <2>3, <2>4, <2>5
  <1>5. \A j \in Ways(b, i) : j # Len(b) + 1
    BY <1>1, <1>4
  <1> QED BY <1>5 DEF b

\* Code that leaves the place it is in, at its end.
Departs(f) ==
  /\ IsSeq(f) /\ Len(f) > 0
  /\ \A i \in 1..Len(f) : IF i = Len(f) THEN f[i].op \in {"return", "goto"}
                                        ELSE f[i].op \in {"throw", "restore"}

LEMMA StopsJoined ==
  ASSUME NEW c, WellFormed(c), NEW f, Departs(f)
  PROVE  Stops(c \o f)
  <1> DEFINE b == c \o f
  <1>0. /\ IsSeq(f) /\ Len(f) > 0
        /\ \A i \in 1..Len(f) : IF i = Len(f) THEN f[i].op \in {"return", "goto"}
                                              ELSE f[i].op \in {"throw", "restore"}
    BY DEF Departs
  <1> USE <1>0
  <1>1. /\ IsSeq(c) /\ Len(c) \in Nat /\ Len(f) \in Nat /\ IsSeq(b)
        /\ Len(b) = Len(c) + Len(f) /\ DOMAIN b = 1..Len(b)
        /\ \A i \in 1..Len(b) : i > Len(c) => i - Len(c) \in 1..Len(f) /\ b[i] = f[i - Len(c)]
    BY SeqFacts, SeqJoined DEF WellFormed
  <1>2. \A i \in 1..Len(c) : Len(b) + 1 \notin Ways(b, i)
    BY WaysInside
  <1> HIDE DEF b
  <1>3. ASSUME NEW i \in 1..Len(b), i > Len(c)
        PROVE  Len(b) + 1 \notin Ways(b, i)
    <2>0. i - Len(c) \in 1..Len(f) /\ b[i] = f[i - Len(c)]
      BY <1>1, <1>3
    <2>1. i - Len(c) \in 1..Len(f) /\ b[i] = f[i - Len(c)] /\ (i - Len(c) = Len(f) <=> i = Len(b))
      BY <1>1, <2>0
    <2>2. CASE i = Len(b)
      <3>1. b[i].op \in {"return", "goto"}
        BY <2>1, <2>2
      <3>2. Ways(b, i) \subseteq 1..Len(b)
        BY <1>1, <3>1 DEF Ways
      <3> QED BY <1>1, <3>2
    <2>3. CASE i # Len(b)
      <3>1. b[i].op \in {"throw", "restore"}
        BY <2>1, <2>3
      <3>2. Ways(b, i) = {i + 1}
        BY <3>1 DEF Ways, Pending
      <3>3. i \in Nat /\ i <= Len(b) /\ Len(b) \in Nat
        BY <1>1
      <3>4. Len(b) + 1 # i + 1
        BY <2>3, <3>3
      <3> QED BY <3>2, <3>4
    <2> QED BY <2>2, <2>3
  <1>4. b # << >>
    BY <1>1, SeqEmpty
  <1>5. \A i \in 1..Len(b) : i \in 1..Len(c) \/ i > Len(c)
    BY <1>1
  <1>6. Stops(b)
    BY <1>2, <1>3, <1>4, <1>5 DEF Stops
  <1> QED BY <1>6 DEF b

LEMMA DepartsAfter ==
  ASSUME NEW f, Departs(f), NEW e, e.op = "throw"
  PROVE  Departs(<<e>> \o f)
  <1> DEFINE h == <<e>> \o f
  <1>1. <<e>> \in Seq({e}) /\ Len(<<e>>) = 1 /\ <<e>>[1] = e
    OBVIOUS
  <1>2. IsSeq(<<e>>) /\ IsSeq(f) /\ Len(f) \in Nat /\ Len(f) > 0
    BY <1>1, SeqFacts DEF IsSeq, Departs
  <1>3. /\ IsSeq(h) /\ Len(h) = 1 + Len(f)
        /\ \A i \in 1..1 : h[i] = <<e>>[i]
        /\ \A i \in 1..Len(f) : h[1 + i] = f[i]
    BY <1>1, <1>2, SeqJoined
  <1> HIDE DEF h
  <1>4. h[1] = e
    <2>1. 1 \in 1..1
      OBVIOUS
    <2> QED BY <1>1, <1>3, <2>1
  <1>5. ASSUME NEW i \in 1..Len(h)
        PROVE  IF i = Len(h) THEN h[i].op \in {"return", "goto"} ELSE h[i].op \in {"throw", "restore"}
    <2>1. CASE i = 1
      BY <1>2, <1>3, <1>4, <2>1
    <2>2. CASE i # 1
      <3>1. i - 1 \in 1..Len(f) /\ 1 + (i - 1) = i /\ (i - 1 = Len(f) <=> i = Len(h))
        BY <1>2, <1>3, <2>2
      <3>2. h[i] = f[i - 1]
        BY <1>3, <3>1
      <3> QED BY <3>1, <3>2 DEF Departs
    <2> QED BY <2>1, <2>2
  <1>6. Departs(h)
    BY <1>2, <1>3, <1>5 DEF Departs
  <1> QED BY <1>6 DEF h

\* A return and a throw end the code.
LEMMA StopsCompiled ==
  ASSUME NEW c, WellFormed(c), NEW s, s.kind \in {"return", "throw"}
  PROVE  Stops(c \o Compiled(s))
  <1>1. CompileReturn \in Seq({Op("restore"), Op("return")}) /\ Len(CompileReturn) = 2
        /\ CompileReturn[1] = Op("restore") /\ CompileReturn[2] = Op("return")
    BY DEF CompileReturn
  <1>2. \A i \in 1..2 : i = 1 \/ i = 2
    OBVIOUS
  <1>3. Departs(CompileReturn)
    <2>1. IsSeq(CompileReturn)
      BY <1>1 DEF IsSeq
    <2> QED BY <1>1, <1>2, <2>1 DEF Departs, Op
  <1>4. CASE s.kind = "return"
    <2>1. Compiled(s) = CompileReturn
      BY <1>4 DEF Compiled
    <2> QED BY <1>3, <2>1, StopsJoined
  <1>5. CASE s.kind = "throw"
    <2> DEFINE e == [op |-> "throw", class |-> s.class]
               g == Goto(currentTryCatch)
    <2>1. e.op = "throw" /\ g.op = "goto" /\ Compiled(s) = CompileThrow(s)
      BY <1>5 DEF Goto, Compiled
    <2>2. CompileThrow(s) = <<e>> \o (IF insideTryCatch > 0 THEN <<g>> ELSE CompileReturn)
      BY DEF CompileThrow
    <2> HIDE DEF e, g
    <2>3. Departs(<<g>>)
      <3>1. IsSeq(<<g>>) /\ Len(<<g>>) = 1 /\ <<g>>[1] = g
        <4>1. <<g>> \in Seq({g}) /\ Len(<<g>>) = 1 /\ <<g>>[1] = g
          OBVIOUS
        <4> QED BY <4>1 DEF IsSeq
      <3>2. \A i \in 1..1 : i = 1
        OBVIOUS
      <3> QED BY <2>1, <3>1, <3>2 DEF Departs
    <2>4. Departs(CompileReturn)
      BY <1>3
    <2> DEFINE h == IF insideTryCatch > 0 THEN <<g>> ELSE CompileReturn
    <2>5. Departs(h)
      BY <2>3, <2>4
    <2>6. Compiled(s) = <<e>> \o h
      BY <2>1, <2>2
    <2> HIDE DEF h
    <2>7. Departs(<<e>> \o h)
      BY <2>1, <2>5, DepartsAfter
    <2> QED BY <2>6, <2>7, StopsJoined
  <1> QED BY <1>4, <1>5

\* Down to open statement m each is the last of the block around it, and an if no
\* branch of which comes to its end.
Lasting(c, w, m, last) ==
  /\ \A k \in 1..m : k # m => w[k].block = << >>
  /\ \A k \in 1..m : k # 1 => w[k].s \in last /\ w[k].s.kind = "if"
                              /\ (w[k].as = "else" <=> w[k].parts = << >>)
  /\ \A k \in 1..m, i \in 1..Len(c) :
       k # 1 /\ Owner(c, w, i, k) => c[i].op # "end" /\ (w[k].as = "else" => c[i].op # "next")

\* What is left of the block of m leaves the method, or has.
LeavesAt(c, w, m, last) ==
  /\ Lasting(c, w, m, last)
  /\ \/ EndsIn(w[m].block, last)
     \/ /\ m = Len(w) /\ w[m].block = << >>
        /\ m = 1 \/ w[m].as \in {"arm", "else"} => Stops(c)

Root == work[1].s.body \in Bodies /\ work[1].again = 1

LeaveInv(last) ==
  /\ Root
  /\ EndsIn(work[1].s.body, last) => \E m \in 1..Len(work) : LeavesAt(code, work, m, last)

\* What up to m is to be resolved at the end of a part or of an if, was before.
OwnedBefore(c, w, d, v, m) ==
  \A k \in 1..m, i \in 1..Len(d) :
    Owner(d, v, i, k) /\ d[i].op \in {"next", "end"} =>
      i \in 1..Len(c) /\ d[i] = c[i] /\ Owner(c, w, i, k)

LEMMA LastingOn ==
  ASSUME NEW c, NEW w, NEW d, NEW v, NEW m \in Nat, NEW last, Lasting(c, w, m, last),
         \A k \in 1..m : /\ v[k].s = w[k].s /\ v[k].as = w[k].as /\ v[k].parts = w[k].parts
                         /\ k # m => v[k].block = w[k].block,
         OwnedBefore(c, w, d, v, m)
  PROVE  Lasting(d, v, m, last)
  <1>1. ASSUME NEW k \in 1..m, NEW i \in 1..Len(d), k # 1, Owner(d, v, i, k), d[i].op \in {"next", "end"}
        PROVE  d[i].op # "end" /\ (v[k].as = "else" => d[i].op # "next")
    BY <1>1 DEF OwnedBefore, Lasting
  <1> QED BY <1>1 DEF Lasting

LEMMA LeavesBelow ==
  ASSUME NEW c, NEW w, NEW d, NEW v, NEW m \in Nat, NEW last, m # Len(w), LeavesAt(c, w, m, last),
         m > 0, \A k \in 1..m : v[k] = w[k], OwnedBefore(c, w, d, v, m)
  PROVE  LeavesAt(d, v, m, last)
  <1>1. m \in 1..m
    OBVIOUS
  <1> QED BY <1>1, LastingOn DEF LeavesAt

\* Of the statements there were nothing more is to be resolved.
LEMMA OwnerSame ==
  ASSUME NEW c, NEW d, NEW ops, NEW n, Grows(c, d, ops, n), NEW w, NEW v,
         Len(w) \in Nat, Len(v) \in Nat, Len(w) <= Len(v),
         \A l \in 1..Len(w) : v[l].s = w[l].s /\ v[l].from = w[l].from,
         NEW i \in 1..Len(c), NEW k \in 1..Len(w), Owner(d, v, i, k)
  PROVE  d[i] = c[i] /\ Owner(c, w, i, k)
  <1>1. d[i] = c[i]
    BY DEF Grows, Owner, Pending
  <1>2. \A l \in (k + 1)..Len(w) : l \in 1..Len(w) /\ l \in (k + 1)..Len(v)
    OBVIOUS
  <1> QED BY <1>1, <1>2 DEF Owner

\* What is new belongs to the innermost statement that may resolve it.
LEMMA OwnerNew ==
  ASSUME NEW d, NEW v, Len(v) \in Nat, NEW i, NEW k \in 1..Len(v), Owner(d, v, i, k),
         NEW j \in 1..Len(v), Resolves(v[j].s, d[i].op), ~(i <= v[j].from)
  PROVE  ~(k < j)
  <1>1. k < j => j \in (k + 1)..Len(v)
    OBVIOUS
  <1> QED BY <1>1 DEF Owner

\* The method stays the outermost of the open statements.
LEMMA RootKept ==
  ASSUME CodeInv, Root, CompileSimple \/ OpenStatement \/ NextPart \/ CloseStatement
  PROVE  Root' /\ work'[1].s = work[1].s
  <1>1. Len(work) \in Nat /\ 1 \in 1..Len(work)
    BY TopFrame
  <1>2. CASE CompileSimple
    BY <1>1, <1>2, SimpleGrows DEF Alike, Root
  <1>3. CASE OpenStatement
    <2>1. work'[1] = After[1]
      BY <1>1, <1>3, OpenShape
    <2>2. Alike(work, After)
      BY <1>3, AfterFacts, OpenShape
    <2> QED BY <1>1, <2>1, <2>2 DEF Alike, Root
  <1>4. CASE NextPart
    BY <1>1, <1>4, NextGrows DEF Alike, Root
  <1>5. CASE CloseStatement
    <2>1. /\ Len(work) # 1 /\ Len(work') = Len(work) - 1
          /\ \A k \in 1..Len(work') : work'[k] = work[k]
      BY <1>5, CloseGrows
    <2>2. 1 \in 1..Len(work')
      BY <1>1, <2>1
    <2> QED BY <2>1, <2>2 DEF Root
  <1> QED BY <1>2, <1>3, <1>4, <1>5

LEMMA OwnedSimple ==
  ASSUME CodeInv, CompileSimple, NEW m \in 1..Len(work)
  PROVE  OwnedBefore(code, work, code', work', m)
  <1>1. /\ Grows(code, code', {Current.kind}, currentTryCatch) /\ Alike(work, work')
        /\ Current.kind \in Unnested /\ Len(work) \in Nat /\ Len(code) \in Nat
    BY SimpleGrows, TopFrame DEF CompileSimple
  <1> SUFFICES ASSUME NEW k \in 1..m, NEW i \in 1..Len(code'), Owner(code', work', i, k),
                      code'[i].op \in {"next", "end"}
               PROVE  i \in 1..Len(code) /\ code'[i] = code[i] /\ Owner(code, work, i, k)
    BY DEF OwnedBefore
  <1>2. i \in 1..Len(code)
    <2>1. ~(i > Len(code))
      BY <1>1 DEF Grows, Unnested, Pending
    <2> QED BY <1>1, <2>1
  <1>3. k \in 1..Len(work)
    BY <1>1
  <1> QED BY <1>1, <1>2, <1>3, OwnerSame, SMTT(60) DEF Alike

LEMMA OwnedOpen ==
  ASSUME CodeInv, OpenStatement, NEW m \in 1..Len(work)
  PROVE  OwnedBefore(code, work, code', work', m)
  <1> DEFINE j == Len(work) + 1
  <1>1. /\ Grows(code, code', Own(Current), currentTryCatch) /\ Len(work) \in Nat /\ Len(code) \in Nat
        /\ Len(work') = Len(work) + 1 /\ j \in 1..Len(work')
        /\ \A k \in 1..Len(work) : work'[k].s = work[k].s /\ work'[k].from = work[k].from
        /\ work'[j].s = Current /\ work'[j].from = Len(code)
    BY OpenGrows, TopFrame
  <1> HIDE DEF j
  <1> SUFFICES ASSUME NEW k \in 1..m, NEW i \in 1..Len(code'), Owner(code', work', i, k),
                      code'[i].op \in {"next", "end"}
               PROVE  i \in 1..Len(code) /\ code'[i] = code[i] /\ Owner(code, work, i, k)
    BY DEF OwnedBefore
  <1>2. k \in 1..Len(work) /\ k \in 1..Len(work') /\ k < j
    BY <1>1 DEF j
  <1>3. i \in 1..Len(code)
    <2>1. ASSUME i > Len(code) PROVE FALSE
      <3>1. Resolves(work'[j].s, code'[i].op)
        BY <1>1, <2>1 DEF Grows, Own, Pending
      <3>2. ~(i <= work'[j].from)
        BY <1>1, <2>1
      <3>3. Len(work') \in Nat
        BY <1>1
      <3> QED BY <1>1, <1>2, <3>1, <3>2, <3>3, OwnerNew
    <2> QED BY <1>1, <2>1
  <1>4. Len(work) <= Len(work') /\ Len(work') \in Nat /\ Len(work) \in Nat
    BY <1>1
  <1>5. \A l \in 1..Len(work) : work'[l].s = work[l].s /\ work'[l].from = work[l].from
    BY <1>1
  <1>6. Grows(code, code', Own(Current), currentTryCatch)
    BY <1>1
  <1>7. code'[i] = code[i] /\ Owner(code, work, i, k)
    BY <1>2, <1>3, <1>4, <1>5, <1>6, OwnerSame
  <1> QED BY <1>3, <1>7

LEMMA OwnedNext ==
  ASSUME CodeInv, NextPart, NEW m \in 1..Len(work), m # Len(work)
  PROVE  OwnedBefore(code, work, code', work', m)
  <1> DEFINE j == Len(work)
  <1>1. /\ Grows(code, code', Own(Top.s), currentTryCatch) /\ Len(work) \in Nat /\ Len(code) \in Nat
        /\ Alike(work, work') /\ j \in 1..Len(work') /\ Top.from <= Len(code) /\ Top.from \in Nat
        /\ work'[j].s = Top.s /\ work'[j].from = Top.from
    BY NextGrows, TopFrame DEF Alike, Top
  <1> HIDE DEF j
  <1> SUFFICES ASSUME NEW k \in 1..m, NEW i \in 1..Len(code'), Owner(code', work', i, k),
                      code'[i].op \in {"next", "end"}
               PROVE  i \in 1..Len(code) /\ code'[i] = code[i] /\ Owner(code, work, i, k)
    BY DEF OwnedBefore
  <1>2. k \in 1..Len(work) /\ k \in 1..Len(work') /\ k < j
    BY <1>1 DEF j, Alike
  <1>3. i \in 1..Len(code)
    <2>1. ASSUME i > Len(code) PROVE FALSE
      <3>1. Resolves(work'[j].s, code'[i].op)
        BY <1>1, <2>1 DEF Grows, Own, Pending
      <3>2. ~(i <= work'[j].from)
        BY <1>1, <2>1
      <3>3. Len(work') \in Nat
        BY <1>1 DEF Alike
      <3> QED BY <1>1, <1>2, <3>1, <3>2, <3>3, OwnerNew
    <2> QED BY <1>1, <2>1
  <1>4. Len(work) <= Len(work') /\ Len(work') \in Nat /\ Len(work) \in Nat
    BY <1>1 DEF Alike
  <1>5. \A l \in 1..Len(work) : work'[l].s = work[l].s /\ work'[l].from = work[l].from
    BY <1>1 DEF Alike
  <1>6. Grows(code, code', Own(Top.s), currentTryCatch)
    BY <1>1
  <1>7. code'[i] = code[i] /\ Owner(code, work, i, k)
    BY <1>2, <1>3, <1>4, <1>5, <1>6, OwnerSame
  <1> QED BY <1>3, <1>7

LEMMA BeforeLast ==
  ASSUME NEW a \in Nat, NEW b, b = a - 1, NEW k \in Nat, k > 0, NEW l \in (k + 1)..a, l # a
  PROVE  l \in (k + 1)..b /\ l \in 1..b
  OBVIOUS

LEMMA OwnedClose ==
  ASSUME CodeInv, CloseStatement, NEW m \in 1..Len(work')
  PROVE  OwnedBefore(code, work, code', work', m)
  <1>1. /\ Closed(code') /\ Len(work') = Len(work) - 1 /\ Len(work) \in Nat /\ Len(code) \in Nat
        /\ \A k \in 1..Len(work') : work'[k] = work[k]
        /\ Top.from <= Len(code) /\ Top.from \in Nat
    BY CloseGrows, TopFrame
  <1>2. /\ Grows(code, code', Own(Top.s), currentTryCatch)
        /\ \A i \in 1..Len(code') : code'[i].op \in Own(Top.s) => i <= Top.from
    BY <1>1 DEF Closed
  <1> SUFFICES ASSUME NEW k \in 1..m, NEW i \in 1..Len(code'), Owner(code', work', i, k),
                      code'[i].op \in {"next", "end"}
               PROVE  i \in 1..Len(code) /\ code'[i] = code[i] /\ Owner(code, work, i, k)
    BY DEF OwnedBefore
  <1>3. k \in 1..Len(work') /\ k \in Nat /\ k > 0
    <2>1. Len(work') \in Nat \/ Len(work') = -1
      BY <1>1
    <2> QED BY <2>1
  <1>4. i \in 1..Len(code)
    <2>1. ASSUME i > Len(code) PROVE FALSE
      <3>1. code'[i].op \in Own(Top.s)
        BY <1>2, <2>1 DEF Grows, Pending
      <3> QED BY <1>1, <1>2, <2>1, <3>1
    <2> QED BY <1>1, <2>1
  <1>5. code'[i] = code[i] /\ code[i].op \in Pending
    BY <1>2, <1>4 DEF Grows, Owner, Pending
  <1>6. ASSUME NEW l \in (k + 1)..Len(work), Resolves(work[l].s, code[i].op)
        PROVE  i <= work[l].from
    <2>1. CASE l = Len(work)
      BY <1>2, <1>5, <1>6, <2>1 DEF Own, Top
    <2>2. CASE l # Len(work)
      <3>1. l \in (k + 1)..Len(work') /\ l \in 1..Len(work')
        BY <1>1, <1>3, <2>2, BeforeLast
      <3> QED BY <1>1, <1>5, <1>6, <3>1 DEF Owner
    <2> QED BY <2>1, <2>2
  <1> QED BY <1>1, <1>3, <1>4, <1>5, <1>6 DEF Owner

LEMMA JoinedEmpty ==
  ASSUME NEW c, IsSeq(c)
  PROVE  c \o << >> = c
  <1>1. PICK S : c \in Seq(S)
    BY DEF IsSeq
  <1> QED BY <1>1

LEMMA EndsTail ==
  ASSUME NEW b, IsSeq(b), NEW S, EndsIn(b, S)
  PROVE  \/ Tail(b) = << >> /\ Head(b) \in S
         \/ EndsIn(Tail(b), S)
  <1>1. /\ IsSeq(Tail(b)) /\ Len(Tail(b)) = Len(b) - 1 /\ Len(b) > 0 /\ Head(b) = b[1] /\ Len(b) \in Nat
        /\ \A i \in 1..Len(Tail(b)) : Tail(b)[i] = b[i + 1]
        /\ b[Len(b)] \in S
    BY SeqTail, SeqFacts DEF EndsIn
  <1>2. Tail(b) = << >> <=> Len(Tail(b)) = 0
    BY <1>1, SeqEmpty
  <1>3. CASE Len(b) = 1
    BY <1>1, <1>2, <1>3
  <1>4. CASE Len(b) # 1
    <2>0. \A n \in Nat : n > 0 /\ n # 1 => n - 1 \in 1..(n - 1) /\ n - 1 + 1 = n
      OBVIOUS
    <2>1. Len(Tail(b)) \in 1..Len(Tail(b)) /\ Len(Tail(b)) + 1 = Len(b)
      BY <1>1, <1>4, <2>0, Zenon
    <2>2. Tail(b)[Len(Tail(b))] = b[Len(b)]
      BY <1>1, <2>1
    <2> QED BY <1>1, <1>2, <2>1, <2>2 DEF EndsIn
  <1> QED BY <1>3, <1>4

LEMMA LeaveInit ==
  ASSUME Init, NEW last
  PROVE  LeaveInv(last)
  <1>1. PICK body \in Bodies :
          work = <<Opened([kind |-> "method", body |-> body], 0, 0, 1, "body", body, << >>)>>
    BY DEF Init
  <1> DEFINE f == Opened([kind |-> "method", body |-> body], 0, 0, 1, "body", body, << >>)
  <1>2. f.again = 1 /\ f.s.body = body /\ f.block = body
    BY DEF Opened
  <1> HIDE DEF f
  <1>3. work = <<f>> /\ Len(<<f>>) = 1 /\ <<f>>[1] = f
    BY <1>1 DEF f
  <1>4. Len(work) = 1 /\ work[1] = f /\ 1 \in 1..Len(work)
    BY <1>3
  <1>5. \A k \in 1..1 : k = 1
    OBVIOUS
  <1>6. Lasting(code, work, 1, last)
    BY <1>5 DEF Lasting
  <1> QED BY <1>2, <1>4, <1>6 DEF LeaveInv, Root, LeavesAt

LEMMA LeaveSimple ==
  ASSUME CodeInv, NEW last, AllLeave(last), LeaveInv(last), CompileSimple
  PROVE  LeaveInv(last)'
  <1> DEFINE n == Len(work)
  <1>1. Root' /\ work'[1].s = work[1].s
    BY RootKept DEF LeaveInv
  <1> SUFFICES ASSUME EndsIn(work[1].s.body, last)
               PROVE  \E m \in 1..Len(work') : LeavesAt(code', work', m, last)
    BY <1>1 DEF LeaveInv
  <1>2. PICK m \in 1..Len(work) : LeavesAt(code, work, m, last)
    BY DEF LeaveInv
  <1>3. /\ Top.block # << >> /\ Current.kind \in Unnested /\ work' = After
        /\ code' = code \o Compiled(Current)
    BY DEF CompileSimple, AtStatement
  <1>4. /\ Len(work') = n /\ Below(work, work') /\ Later(Top, work'[n])
        /\ work'[n].as = Top.as /\ work'[n].parts = Top.parts /\ work'[n].block = Tail(Top.block)
    BY <1>3, AfterShape
  <1>5. /\ n \in Nat /\ m \in Nat /\ m > 0 /\ IsSeq(Top.block) /\ WellFormed(code) /\ Top = work[n]
        /\ m \in 1..m /\ \A k \in 1..m : k \in 1..n
    BY <1>2, TopFrame DEF IsFrame, StatementsBlock, IsSeq, CodeInv, Top
  <1>6. OwnedBefore(code, work, code', work', m)
    BY <1>2, OwnedSimple
  <1>7. m \in 1..Len(work')
    BY <1>2, <1>4
  <1>8. CASE m # n
    <2>1. \A k \in 1..m : work'[k] = work[k]
      <3>1. \A k \in 1..m : k # n
        BY <1>2, <1>5, <1>8
      <3> QED BY <1>4, <1>5, <3>1 DEF Below
    <2> QED BY <1>2, <1>5, <1>6, <1>7, <1>8, <2>1, LeavesBelow
  <1>9. CASE m = n
    <2>1. Lasting(code', work', m, last)
      <3>1. \A k \in 1..m : /\ work'[k].s = work[k].s /\ work'[k].as = work[k].as
                            /\ work'[k].parts = work[k].parts
                            /\ k # m => work'[k].block = work[k].block
        BY <1>4, <1>5, <1>9 DEF Below, Later
      <3> QED BY <1>2, <1>5, <1>6, <3>1, LastingOn DEF LeavesAt
    <2>2. EndsIn(Top.block, last)
      BY <1>2, <1>3, <1>5, <1>9 DEF LeavesAt
    <2>3. CASE EndsIn(Tail(Top.block), last)
      BY <1>4, <1>7, <1>9, <2>1, <2>3 DEF LeavesAt
    <2>4. CASE Tail(Top.block) = << >> /\ Head(Top.block) \in last
      <3>1. Current.kind \in {"return", "throw"}
        BY <1>3, <2>4 DEF AllLeave, Current, Unnested
      <3>2. Stops(code')
        BY <1>3, <1>5, <3>1, StopsCompiled
      <3> QED BY <1>4, <1>7, <1>9, <2>1, <2>4, <3>2 DEF LeavesAt
    <2> QED BY <1>5, <2>2, <2>3, <2>4, EndsTail
  <1> QED BY <1>8, <1>9

LEMMA LeaveOpen ==
  ASSUME CodeInv, NEW last, AllLeave(last), LeaveInv(last), OpenStatement
  PROVE  LeaveInv(last)'
  <1> DEFINE n == Len(work)
  <1>1. Root' /\ work'[1].s = work[1].s
    BY RootKept DEF LeaveInv
  <1> SUFFICES ASSUME EndsIn(work[1].s.body, last)
               PROVE  \E m \in 1..Len(work') : LeavesAt(code', work', m, last)
    BY <1>1 DEF LeaveInv
  <1>2. PICK m \in 1..Len(work) : LeavesAt(code, work, m, last)
    BY DEF LeaveInv
  <1>3. /\ Top.block # << >> /\ Len(work') = n + 1 /\ \A k \in 1..n : work'[k] = After[k]
        /\ Current.kind \notin Unnested
    BY OpenShape DEF OpenStatement
  <1>4. /\ Len(After) = n /\ Below(work, After) /\ Later(Top, After[n])
        /\ After[n].as = Top.as /\ After[n].parts = Top.parts /\ After[n].block = Tail(Top.block)
    BY <1>3, AfterShape
  <1>5. /\ n \in Nat /\ n > 0 /\ n \in 1..n /\ m \in Nat /\ m > 0 /\ IsSeq(Top.block) /\ Top = work[n]
        /\ m \in 1..m /\ \A k \in 1..m : k \in 1..n
    BY <1>2, TopFrame DEF IsFrame, StatementsBlock, IsSeq, Top
  <1>6. OwnedBefore(code, work, code', work', m)
    BY <1>2, OwnedOpen
  <1>7. m \in 1..Len(work') /\ n + 1 \in 1..Len(work')
    BY <1>2, <1>3, <1>5
  <1>8. CASE m # n
    <2>1. \A k \in 1..m : work'[k] = work[k]
      <3>1. \A k \in 1..m : k # n
        BY <1>2, <1>5, <1>8
      <3> QED BY <1>3, <1>4, <1>5, <3>1 DEF Below
    <2> QED BY <1>2, <1>5, <1>6, <1>7, <1>8, <2>1, LeavesBelow
  <1>9. CASE m = n
    <2>1. Lasting(code', work', m, last)
      <3>1. \A k \in 1..m : /\ work'[k].s = work[k].s /\ work'[k].as = work[k].as
                            /\ work'[k].parts = work[k].parts
                            /\ k # m => work'[k].block = work[k].block
        BY <1>3, <1>4, <1>5, <1>9 DEF Below, Later
      <3> QED BY <1>2, <1>5, <1>6, <3>1, LastingOn DEF LeavesAt
    <2>2. EndsIn(Top.block, last)
      BY <1>2, <1>3, <1>5, <1>9 DEF LeavesAt
    <2>3. work'[m].block = Tail(Top.block)
      BY <1>3, <1>4, <1>5, <1>9
    <2>4. CASE EndsIn(Tail(Top.block), last)
      BY <1>7, <2>1, <2>3, <2>4 DEF LeavesAt
    <2>5. CASE Tail(Top.block) = << >> /\ Head(Top.block) \in last
      <3> DEFINE s == Current
                 fr == work'[n + 1]
      <3>1. s \in last /\ s.kind = "if"
        BY <1>3, <2>5 DEF AllLeave, Current, Unnested
      <3>2. /\ fr.s = s /\ fr.from = Len(code) /\ fr.as = "body" /\ fr.block = << >>
            /\ fr.parts = Parts(s) /\ code' = code \o Setup(s) \o Opening(s, fr.again)
            /\ s \in Statements
        BY <3>1, OpenShape, OpenGrows DEF LoopKinds
      <3> HIDE DEF s
      <3>3. Parts(s) # << >>
        <4>1. Len(s.arms) \in Nat
          BY <3>1, <3>2, StatementsAssumption
        <4>2. Parts(s) = IfParts(s.arms, s.else)
          BY <3>1 DEF Parts
        <4>3. DOMAIN IfParts(s.arms, s.else) = 1..(2 * Len(s.arms) + 1)
          BY DEF IfParts
        <4>4. 1 \in DOMAIN Parts(s)
          BY <4>1, <4>2, <4>3
        <4> QED BY <4>4
      <3>4. code' = code
        <4>1. Setup(s) = << >> /\ Opening(s, fr.again) = << >>
          BY <3>1 DEF Setup, Opening
        <4>2. code \o << >> = code
          BY TopFrame, JoinedEmpty
        <4> QED BY <3>2, <4>1, <4>2
      <3>5. \A k \in 1..(n + 1) : k \in 1..n \/ k = n + 1
        BY <1>5
      <3>6. Lasting(code', work', n + 1, last)
        <4>1. \A k \in 1..(n + 1) : k # n + 1 => work'[k].block = << >>
          BY <1>9, <2>1, <2>3, <2>5, <3>5 DEF Lasting
        <4>2. \A k \in 1..(n + 1) : k # 1 => work'[k].s \in last /\ work'[k].s.kind = "if"
                                    /\ (work'[k].as = "else" <=> work'[k].parts = << >>)
          BY <1>9, <2>1, <3>1, <3>2, <3>3, <3>5 DEF Lasting
        <4>3. \A i \in 1..Len(code') : ~Owner(code', work', i, n + 1)
          BY <3>2, <3>4, TopFrame DEF Owner
        <4> QED BY <1>9, <2>1, <3>5, <4>1, <4>2, <4>3 DEF Lasting
      <3>7. n + 1 # 1
        BY <1>5
      <3> QED BY <1>3, <1>7, <3>2, <3>6, <3>7 DEF LeavesAt
    <2> QED BY <1>5, <2>2, <2>4, <2>5, EndsTail
  <1> QED BY <1>8, <1>9

\* The end of a part of an if whose end is not reached.
LEMMA EndedIf ==
  ASSUME CodeInv, Top.s.kind = "if", Top.as = "arm" => Stops(code)
  PROVE  /\ Ended(Top) = ResolveNext(code, Top.from, {"next"})
         /\ IsSeq(Ended(Top)) /\ Len(Ended(Top)) = Len(code)
  <1>1. IsSeq(code) /\ DOMAIN code = 1..Len(code) /\ Top.from \in Nat /\ IsFrame(Top)
    BY TopFrame, SeqFacts
  <1>2. Top.as # "try"
    BY <1>1 DEF IsFrame
  <1>3. Top.as = "arm" => ~Falls
    BY <1>1 DEF Stops, Falls
  <1>4. Ending(Top) = << >>
    BY <1>2, <1>3 DEF Ending
  <1>5. Ended(Top) = ResolveNext(code, Top.from, {"next"})
    BY <1>1, <1>4, JoinedEmpty DEF Ended
  <1> QED BY <1>1, <1>5, ResolveFacts DEF ResolveNext

\* The part an if whose end is not to be reached goes on with.
LEMMA NextIf ==
  ASSUME NEW last, AllLeave(last), NEW s \in last, s.kind = "if", NEW p, PartOf(p, s)
  PROVE  \/ EndsIn(p.stmts, last)
         \/ p.stmts = << >> /\ p.as \notin {"arm", "else"}
  <1>1. EndsIn(s.else, last) /\ \A i \in 1..Len(s.arms) : EndsIn(s.arms[i].body, last)
    BY DEF AllLeave
  <1> QED BY <1>1 DEF PartOf

LEMMA LeaveNext ==
  ASSUME CodeInv, NEW last, AllLeave(last), LeaveInv(last), NextPart
  PROVE  LeaveInv(last)'
  <1> DEFINE n == Len(work)
             p == Head(Top.parts)
             d == Ended(Top)
  <1>1. Root' /\ work'[1].s = work[1].s
    BY RootKept DEF LeaveInv
  <1> SUFFICES ASSUME EndsIn(work[1].s.body, last)
               PROVE  \E m \in 1..Len(work') : LeavesAt(code', work', m, last)
    BY <1>1 DEF LeaveInv
  <1>2. PICK m \in 1..Len(work) : LeavesAt(code, work, m, last)
    BY DEF LeaveInv
  <1>3. /\ Len(work') = n /\ Below(work, work') /\ Later(Top, work'[n])
        /\ work'[n].as = p.as /\ work'[n].parts = Rest(Top.parts) /\ work'[n].block = p.stmts
        /\ code' = d \o Beginning(p) /\ PartOf(p, Top.s) /\ Top.block = << >> /\ Top.parts # << >>
    BY NextShape
  <1>4. /\ n # 1 /\ Grows(code, code', Own(Top.s), currentTryCatch) /\ Alike(work, work')
    BY NextGrows
  <1>5. /\ n \in Nat /\ n > 0 /\ n \in 1..n /\ m \in Nat /\ m > 0 /\ Top = work[n] /\ IsFrame(Top)
        /\ m \in 1..m /\ (\A k \in 1..m : k \in 1..n) /\ Len(code) \in Nat /\ Top.from \in Nat
    BY <1>2, TopFrame DEF Top
  <1>6. m \in 1..Len(work')
    BY <1>2, <1>3
  <1>7. CASE m # n
    <2>1. \A k \in 1..m : work'[k] = work[k]
      <3>1. \A k \in 1..m : k # n
        BY <1>2, <1>5, <1>7
      <3> QED BY <1>3, <1>5, <3>1 DEF Below
    <2>2. OwnedBefore(code, work, code', work', m)
      BY <1>2, <1>7, OwnedNext
    <2> QED BY <1>2, <1>5, <1>6, <1>7, <2>1, <2>2, LeavesBelow
  <1>8. CASE m = n
    <2>1. /\ Lasting(code, work, n, last) /\ (Top.as \in {"arm", "else"} => Stops(code))
          /\ Top.s \in last /\ Top.s.kind = "if"
      <3>1. ~EndsIn(Top.block, last)
        BY <1>3 DEF EndsIn
      <3> QED BY <1>2, <1>4, <1>5, <1>8, <3>1 DEF LeavesAt, Lasting
    <2> HIDE DEF p, d
    <2>2. IsSeq(d) /\ Len(d) = Len(code) /\ IsSeq(Beginning(p))
      <3>1. IsSeq(d) /\ Len(d) = Len(code)
        BY <2>1, EndedIf DEF d
      <3>2. IsSeq(Beginning(p))
        BY FragmentBeginning, InContext DEF Fragment
      <3> QED BY <3>1, <3>2
    <2>3. \A i \in 1..Len(code') : code'[i].op = "end" => i \in 1..Len(code)
      <3>1. ASSUME NEW i \in 1..Len(code'), i > Len(code)
            PROVE  code'[i].op # "end"
        <4>1. i - Len(d) \in 1..Len(Beginning(p)) /\ code'[i] = Beginning(p)[i - Len(d)]
          BY <1>3, <2>2, <3>1, SeqJoined
        <4>2. \A l \in 1..Len(Beginning(p)) : Beginning(p)[l].op \in Pending => Beginning(p)[l].op \in {"next"}
          BY FragmentBeginning, InContext DEF Fragment
        <4> QED BY <4>1, <4>2 DEF Pending
      <3> QED BY <1>5, <3>1
    <2>4. p.as = "else" => \A i \in 1..Len(code') : code'[i].op = "next" => i <= Top.from
      <3>1. SUFFICES ASSUME p.as = "else"
                     PROVE  \A i \in 1..Len(code') : code'[i].op = "next" => i <= Top.from
        OBVIOUS
      <3>2. code' = d
        <4>1. Beginning(p) = << >>
          BY <3>1 DEF Beginning
        <4> QED BY <1>3, <2>2, <4>1, JoinedEmpty
      <3> QED BY <1>4, <3>2, EndedFacts DEF d
    <2>5. ASSUME NEW i \in 1..Len(code'), Owner(code', work', i, n)
          PROVE  code'[i].op # "end" /\ (work'[n].as = "else" => code'[i].op # "next")
      <3>1. ASSUME code'[i].op = "end" PROVE FALSE
        <4>1. i \in 1..Len(code)
          BY <2>3, <3>1
        <4>2. Len(work') \in Nat /\ Len(work) <= Len(work') /\ Len(work) \in Nat
          BY <1>3, <1>5
        <4>3. \A l \in 1..Len(work) : work'[l].s = work[l].s /\ work'[l].from = work[l].from
          BY <1>4 DEF Alike
        <4>4. n \in 1..Len(work) /\ Grows(code, code', Own(Top.s), currentTryCatch)
          BY <1>4, <1>5
        <4>5. code'[i] = code[i] /\ Owner(code, work, i, n)
          BY <2>5, <4>1, <4>2, <4>3, <4>4, OwnerSame
        <4> QED BY <1>4, <1>5, <2>1, <3>1, <4>1, <4>5 DEF Lasting
      <3>2. ASSUME p.as = "else", code'[i].op = "next" PROVE FALSE
        <4>1. i <= Top.from
          BY <2>4, <3>2
        <4>2. work'[n].from = Top.from
          BY <1>3 DEF Later
        <4> QED BY <1>5, <2>5, <4>1, <4>2 DEF Owner
      <3> QED BY <1>3, <3>1, <3>2
    <2>6. ASSUME NEW k \in 1..n, NEW i \in 1..Len(code'), k # 1, k # n, Owner(code', work', i, k)
          PROVE  code'[i].op # "end" /\ (work'[k].as = "else" => code'[i].op # "next")
      <3>1. OwnedBefore(code, work, code', work', k)
        BY <2>6, OwnedNext
      <3>2. k \in 1..k
        BY <2>6
      <3>3. code'[i].op \in {"next", "end"} =>
              i \in 1..Len(code) /\ code'[i] = code[i] /\ Owner(code, work, i, k)
        BY <2>6, <3>1, <3>2 DEF OwnedBefore
      <3>4. work'[k] = work[k]
        BY <1>3, <2>6 DEF Below
      <3> QED BY <2>1, <2>6, <3>3, <3>4 DEF Lasting
    <2>7. p.as = "else" <=> Rest(Top.parts) = << >>
      BY <1>3, <1>5, <2>1, PartsRest DEF IsFrame, p
    <2>8. Lasting(code', work', n, last)
      <3>1. \A k \in 1..n : k # n => work'[k].block = << >>
        BY <1>3, <2>1 DEF Lasting, Below
      <3>2. \A k \in 1..n : k # 1 => work'[k].s \in last /\ work'[k].s.kind = "if"
                                  /\ (work'[k].as = "else" <=> work'[k].parts = << >>)
        BY <1>3, <2>1, <2>7 DEF Lasting, Below, Later
      <3> QED BY <2>5, <2>6, <3>1, <3>2 DEF Lasting
    <2>9. \/ EndsIn(p.stmts, last)
          \/ p.stmts = << >> /\ p.as \notin {"arm", "else"}
      BY <1>3, <2>1, NextIf
    <2>10. LeavesAt(code', work', n, last)
      BY <1>3, <1>4, <2>8, <2>9 DEF LeavesAt
    <2> QED BY <1>6, <1>8, <2>10
  <1> QED BY <1>7, <1>8

\* Nothing of an if whose end is not reached is left to be resolved.
LEMMA ResolvedNone ==
  ASSUME NEW c, IsSeq(c), NEW from \in Nat, NEW ops, NEW n,
         \A i \in 1..Len(c) : i > from => c[i].op \notin ops
  PROVE  Resolve(c, from, ops, n) = c
  <1>1. DOMAIN c = 1..Len(c) /\ c = [i \in DOMAIN c |-> c[i]]
    <2>1. PICK S : c \in Seq(S)
      BY DEF IsSeq
    <2> QED BY <2>1
  <1>2. \A i \in DOMAIN c : ~(i > from /\ c[i].op \in ops)
    BY <1>1
  <1> QED BY <1>1, <1>2 DEF Resolve

LEMMA CloseIf ==
  ASSUME CodeInv, CloseStatement, NEW last, Lasting(code, work, Len(work), last), Len(work) # 1,
         Top.as = "else" => Stops(code)
  PROVE  code' = code /\ Stops(code)
  <1> DEFINE n == Len(work)
  <1>1. /\ n \in 1..n /\ n \in Nat /\ IsSeq(code) /\ Top.from \in Nat /\ Top = work[n] /\ Len(code) \in Nat
    BY TopFrame DEF Top
  <1>2. Top.parts = << >> /\ code' = Closing(Ended(Top), Top)
    BY DEF CloseStatement
  <1>3. Top.s.kind = "if" /\ Top.as = "else"
    BY <1>1, <1>2 DEF Lasting
  <1>4. ASSUME NEW i \in 1..Len(code), i > Top.from
        PROVE  code[i].op \notin {"next", "end"}
    <2>1. ASSUME code[i].op \in {"next", "end"} PROVE FALSE
      <3>1. Resolves(work[n].s, code[i].op) /\ code[i].op \in Pending
        BY <1>1, <1>3, <2>1 DEF Resolves, Pending
      <3>2. (n + 1)..n = {} /\ work[n].from < i
        BY <1>1, <1>4
      <3>3. Owner(code, work, i, n)
        BY <3>1, <3>2 DEF Owner
      <3> QED BY <1>1, <1>3, <2>1, <3>3 DEF Lasting
    <2> QED BY <2>1
  <1>5. Ended(Top) = code
    <2>1. Ended(Top) = ResolveNext(code, Top.from, {"next"})
      BY <1>3, EndedIf
    <2> QED BY <1>1, <1>4, <2>1, ResolvedNone DEF ResolveNext
  <1>6. Closing(code, Top) = code
    <2>1. Closing(code, Top) = ResolveNext(code, Top.from, {"end"})
      BY <1>3 DEF Closing
    <2> QED BY <1>1, <1>4, <2>1, ResolvedNone DEF ResolveNext
  <1> QED BY <1>2, <1>3, <1>5, <1>6

LEMMA LeaveClose ==
  ASSUME CodeInv, NEW last, AllLeave(last), LeaveInv(last), CloseStatement
  PROVE  LeaveInv(last)'
  <1> DEFINE n == Len(work)
  <1>1. Root' /\ work'[1].s = work[1].s
    BY RootKept DEF LeaveInv
  <1> SUFFICES ASSUME EndsIn(work[1].s.body, last)
               PROVE  \E m \in 1..Len(work') : LeavesAt(code', work', m, last)
    BY <1>1 DEF LeaveInv
  <1>2. PICK m \in 1..Len(work) : LeavesAt(code, work, m, last)
    BY DEF LeaveInv
  <1>3. /\ n # 1 /\ Len(work') = n - 1
        /\ \A k \in 1..Len(work') : k \in 1..n /\ k # n /\ work'[k] = work[k]
    BY CloseGrows
  <1>4. n \in Nat /\ n > 0 /\ m \in Nat /\ m > 0 /\ Top = work[n] /\ n \in 1..n
    BY <1>2, TopFrame DEF Top
  <1>5. CASE m # n
    <2>0. m <= n
      BY <1>2
    <2>1. m \in 1..Len(work') /\ \A k \in 1..m : k \in 1..Len(work')
      BY <1>3, <1>4, <1>5, <2>0
    <2>2. \A k \in 1..m : work'[k] = work[k]
      BY <1>3, <2>1
    <2>3. OwnedBefore(code, work, code', work', m)
      BY <2>1, OwnedClose
    <2> QED BY <1>2, <1>4, <1>5, <2>1, <2>2, <2>3, LeavesBelow
  <1>6. CASE m = n
    <2> DEFINE j == n - 1
    <2>1. /\ j \in 1..Len(work') /\ j \in Nat /\ j = Len(work') /\ j \in 1..n /\ j # n
          /\ \A k \in 1..j : k \in 1..n /\ k # n /\ k \in 1..Len(work')
      <3>1. j \in Nat /\ j > 0 /\ j \in 1..n /\ j # n /\ j \in 1..j
        BY <1>3, <1>4, MoreThanOne
      <3>2. j = Len(work')
        BY <1>3
      <3> HIDE DEF j
      <3>3. \A k \in 1..j : k \in 1..Len(work')
        BY <3>2
      <3> QED BY <1>3, <3>1, <3>2, <3>3
    <2>2. /\ Lasting(code, work, n, last) /\ (Top.as = "else" => Stops(code))
      <3>1. ~EndsIn(Top.block, last)
        BY DEF EndsIn, CloseStatement
      <3> QED BY <1>2, <1>4, <1>6, <3>1 DEF LeavesAt
    <2>3. code' = code /\ Stops(code)
      BY <1>3, <2>2, CloseIf
    <2> HIDE DEF j
    <2>4. \A k \in 1..j : work'[k] = work[k]
      BY <1>3, <2>1
    <2>5. Lasting(code, work, j, last)
      BY <2>1, <2>2 DEF Lasting
    <2>6. OwnedBefore(code, work, code', work', j)
      BY <2>1, OwnedClose
    <2>7. Lasting(code', work', j, last)
      BY <2>1, <2>4, <2>5, <2>6, LastingOn
    <2>8. work'[j].block = << >>
      <3>1. j \in 1..j
        BY <2>1
      <3> QED BY <2>1, <2>2, <2>4, <3>1 DEF Lasting
    <2>9. LeavesAt(code', work', j, last)
      BY <2>1, <2>3, <2>7, <2>8 DEF LeavesAt
    <2> QED BY <2>1, <2>9
  <1> QED BY <1>5, <1>6

-----------------------------------------------------------------------------
(* The end of the method.                                                  *)

LEMMA GuardedKept ==
  ASSUME NEW c, Sound(c), NEW d, Guarded(c, d), c # << >>,
         \A i \in 1..Len(c) : c[i].op # "restore" => Len(c) + 1 \notin Ways(c, i)
  PROVE  Kept(c)
  <1>1. DOMAIN c = 1..Len(c)
    BY SeqFacts DEF Sound
  <1>2. ASSUME NEW i \in 1..Len(c), c[i].op = "goto" \/ (c[i].op = "check" /\ c[i].n # 0)
        PROVE  Depth(c, i) = Depth(c, LabelIn(c, c[i].n))
    <2> DEFINE n == c[i].n
               k == LabelIn(c, n)
    <2>1. \E l \in DOMAIN c : c[l].op = "label" /\ c[l].n = n
      <3>1. PICK l \in 1..Len(c) : c[l] = Label(n)
        BY <1>2 DEF Sound
      <3> QED BY <1>1, <3>1 DEF Label
    <2>2. k \in DOMAIN c /\ c[k].op = "label" /\ c[k].n = n
      BY <2>1 DEF LabelIn
    <2>3. d[n] = Depth(c, i)
      BY <1>2 DEF Guarded, Fits
    <2> HIDE DEF k
    <2>4. Fits(c[k], Depth(c, k), d)
      BY <1>1, <2>2 DEF Guarded
    <2>5. d[n] = Depth(c, k)
      BY <2>2, <2>4 DEF Fits
    <2> QED BY <2>3, <2>5 DEF k
  <1>3. \A i \in 1..Len(c) :
          /\ c[i].op = "restore" \/ (c[i].op = "check" /\ c[i].n = 0) => Depth(c, i) = 0
          /\ c[i].op = "iterate" => "current" \notin c[i].throws
    BY DEF Guarded, Fits
  <1> QED BY <1>1, <1>2, <1>3 DEF Kept

LEMMA FinishKept ==
  ASSUME CodeInv, NEW at, NEW last, Sheltered(at, last), PlaceInv(at), LeaveInv(last), FinishMethod
  PROVE  Kept(code')
  <1> DEFINE body == work[1].s.body
             e == Op("restore")
  <1>1. /\ Len(work) = 1 /\ Top = work[1] /\ Top.block = << >> /\ code' = code \o Epilogue(body)
        /\ body \in Bodies /\ Top.again = 1
    BY DEF FinishMethod, Top, LeaveInv, Root
  <1>2. /\ IsSeq(code) /\ WellFormed(code) /\ Depth(code, Len(code) + 1) = Depth(code, Top.again)
        /\ Len(code) \in Nat
    BY TopFrame DEF CodeInv
  <1>3. Depth(code, 1) = 0
    <2>1. Obtains(code, 1) = {} /\ Destroys(code, 1) = {}
      BY DEF Obtains, Destroys
    <2> QED BY <2>1, DepthFacts, FS_EmptySet
  <1>4. PICK d : Guarded(code, d)
    BY DEF PlaceInv, Housing
  <1>5. Sound(code')
    BY FinishCode
  <1> HIDE DEF body, e
  <1>6. CASE Epilogue(body) = << >>
    <2>1. code' = code
      BY <1>1, <1>2, <1>6, JoinedEmpty
    <2>2. EndsIn(body, last)
      BY <1>1, <1>6 DEF Sheltered
    <2>3. PICK m \in 1..Len(work) : LeavesAt(code, work, m, last)
      BY <2>2 DEF LeaveInv, body
    <2>4. m = 1
      BY <1>1, <2>3
    <2>5. Stops(code)
      BY <1>1, <2>3, <2>4 DEF LeavesAt, EndsIn
    <2> QED BY <1>4, <1>5, <2>1, <2>5, GuardedKept DEF Stops
  <1>7. CASE Epilogue(body) # << >>
    <2> DEFINE f == <<e>>
    <2>1. code' = code \o f /\ e.op = "restore"
      BY <1>1, <1>7 DEF Epilogue, e, Op
    <2>2. Fits(e, Depth(code, Len(code) + 1), d)
      BY <1>1, <1>2, <1>3, <2>1 DEF Fits
    <2>3. Guarded(code', d)
      BY <1>2, <1>4, <2>1, <2>2, GuardedOne
    <2>4. IsSeq(f) /\ Len(f) = 1 /\ f[1] = e
      BY <1>2, SeqAppended
    <2> HIDE DEF f
    <2>5. /\ IsSeq(code') /\ Len(code') = Len(code) + 1 /\ code'[Len(code) + 1] = e
      <3>1. 1 \in 1..Len(f)
        BY <2>4
      <3>2. /\ IsSeq(code \o f) /\ Len(code \o f) = Len(code) + Len(f)
            /\ \A i \in 1..Len(f) : (code \o f)[Len(code) + i] = f[i]
        <4>1. IsSeq(code) /\ IsSeq(f)
          BY <1>2, <2>4
        <4> QED BY <4>1, SeqJoined
      <3> QED BY <2>1, <2>4, <3>1, <3>2
    <2>6. code' # << >>
      BY <1>2, <2>5, SeqEmpty
    <2>7. ASSUME NEW i \in 1..Len(code'), code'[i].op # "restore"
          PROVE  Len(code') + 1 \notin Ways(code', i)
      <3>1. i \in 1..Len(code)
        BY <1>2, <2>1, <2>5, <2>7
      <3>2. Len(f) > 0
        BY <2>4
      <3> QED BY <1>2, <2>1, <2>4, <3>1, <3>2, WaysInside
    <2> QED BY <1>5, <2>3, <2>6, <2>7, GuardedKept
  <1> QED BY <1>6, <1>7

ShelteredInv(at, last) ==
  /\ Compiling => CodeInv /\ BlocksCounted /\ PlaceInv(at) /\ LeaveInv(last)
  /\ RunsKept

LEMMA ShelteredBegins ==
  ASSUME NEW at, NEW last, Sheltered(at, last), Init
  PROVE  ShelteredInv(at, last)
  <1>1. CodeInv /\ BlocksCounted /\ PlaceInv(at) /\ LeaveInv(last)
    BY InitCode, CountersInit, PlaceInit, LeaveInit DEF CountersInv
  <1>2. status = "compiling"
    BY DEF Init, MethodInit
  <1> QED BY <1>1, <1>2 DEF ShelteredInv, RunsKept, Unrun

LEMMA ShelteredStep ==
  ASSUME NEW at, NEW last, Sheltered(at, last), ShelteredInv(at, last), [Next]_vars
  PROVE  ShelteredInv(at, last)'
  <1>0. Stand(at) /\ AllLeave(last)
    BY DEF Sheltered
  <1>1. CASE UNCHANGED vars
    <2>1. UNCHANGED <<code, status, work, insideCycle, insideSwitch, insideTryCatch, currentTryCatch>>
      BY <1>1 DEF vars, method, context
    <2>2. CodeInv /\ BlocksCounted => CodeInv' /\ BlocksCounted'
      BY <2>1 DEF CodeInv, BlocksCounted
    <2>3. PlaceInv(at) => PlaceInv(at)'
      BY <2>1 DEF PlaceInv
    <2>4. LeaveInv(last) => LeaveInv(last)'
      BY <2>1 DEF LeaveInv, Root
    <2> QED BY <2>1, <2>2, <2>3, <2>4 DEF ShelteredInv, Compiling, RunsKept
  <1>2. CASE CompileSimple \/ OpenStatement \/ NextPart \/ CloseStatement
    <2>1. CodeInv /\ BlocksCounted /\ PlaceInv(at) /\ LeaveInv(last)
      BY <1>2 DEF ShelteredInv, CompileSimple, OpenStatement, NextPart, CloseStatement, AtStatement
    <2>2. CodeInv'
      BY <1>2, <2>1, SimpleCode, OpenCode, NextCode, CloseCode
    <2>3. BlocksCounted'
      BY <1>2, <2>1, BlocksKept
    <2>4. PlaceInv(at)'
      BY <1>0, <1>2, <2>1, PlaceSimple, PlaceOpen, PlaceNext, PlaceClose
    <2>5. LeaveInv(last)'
      BY <1>0, <1>2, <2>1, LeaveSimple, LeaveOpen, LeaveNext, LeaveClose
    <2>6. status' = "compiling"
      BY <1>2 DEF CompileSimple, OpenStatement, NextPart, CloseStatement, AtStatement, Compiling
    <2> QED BY <2>2, <2>3, <2>4, <2>5, <2>6 DEF ShelteredInv, RunsKept, Unrun
  <1>3. CASE Refuse
    BY <1>3 DEF ShelteredInv, Refuse, Compiling, RunsKept, Unrun
  <1>4. CASE FinishMethod
    <2>1. CodeInv /\ PlaceInv(at) /\ LeaveInv(last)
      BY <1>4 DEF ShelteredInv, FinishMethod
    <2>2. Kept(code')
      BY <1>4, <2>1, FinishKept
    <2>3. status' = "running"
      BY <1>4 DEF FinishMethod
    <2> QED BY <2>2, <2>3 DEF ShelteredInv, Compiling, RunsKept
  <1>5. CASE Run
    <2>1. /\ status = "running" /\ UNCHANGED code
          /\ status' \in {"running", "ended", "crashed", "diverged"}
      BY <1>5, RunFacts
    <2> QED BY <2>1 DEF ShelteredInv, Compiling, RunsKept, Unrun
  <1> QED BY <1>1, <1>2, <1>3, <1>4, <1>5 DEF Next, Compile

\* The code of a body whose statements may stand where they are, and which ends as
\* Epilogue takes it to, leaves its loops over iterators by their ends and the
\* method through a statement that restores the frame: neither a return or a failed
\* call in such a loop, nor an end of the code without ZEPHIR_MM_RESTORE.
THEOREM KeptHolds ==
  ASSUME NEW at, NEW last, Sheltered(at, last)
  PROVE  Spec => []RunsKept
  <1>1. Init => ShelteredInv(at, last)
    BY ShelteredBegins
  <1>2. ShelteredInv(at, last) /\ [Next]_vars => ShelteredInv(at, last)'
    BY ShelteredStep
  <1>3. ShelteredInv(at, last) => RunsKept
    BY DEF ShelteredInv
  <1> QED BY <1>1, <1>2, <1>3, PTL DEF Spec

\* The method of such a body runs only statements of its own, on every path.
THEOREM ShelteredTypes ==
  ASSUME NEW at, NEW last, Sheltered(at, last)
  PROVE  Spec => []TypeOK
  <1>1. Spec => []RunsKept
    BY KeptHolds
  <1> QED BY <1>1, TypeCorrect, PTL

\* At every statement such a method holds one iterator for each loop over an
\* iterator around it, and its frame until it leaves.
THEOREM ShelteredLoops ==
  ASSUME NEW at, NEW last, Sheltered(at, last)
  PROVE  Spec => []HeldByLoops
  <1>1. Spec => []RunsKept
    BY KeptHolds
  <1> QED BY <1>1, HeldByLoopsHolds, PTL

\* The frame of such a method is restored exactly once on every path, just before
\* the method is left.
THEOREM ShelteredRestores ==
  ASSUME NEW at, NEW last, Sheltered(at, last)
  PROVE  Spec => []RestoredOnce
  <1>1. Spec => []RunsKept
    BY KeptHolds
  <1> QED BY <1>1, RestoredOnceHolds, PTL

\* Such a method ends with every iterator it has obtained destroyed.
THEOREM ShelteredReleases ==
  ASSUME NEW at, NEW last, Sheltered(at, last)
  PROVE  Spec => []IteratorsReleased
  <1>1. Spec => []RunsKept
    BY KeptHolds
  <1> QED BY <1>1, IteratorsReleasedHolds, PTL
=============================================================================
