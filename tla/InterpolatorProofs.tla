--------------------------- MODULE InterpolatorProofs ---------------------------
(*****************************************************************************)
(* Proofs about the motion path: the renderer's pairs and the interpolator   *)
(* (MotionPair), the cells of its overlay detector (OverlayDetector) and the *)
(* grid it estimates on (FlowScale), for any number of textures, frames,     *)
(* queries and cells.                                                        *)
(*                                                                           *)
(* The pairs: Sound says of the interpolator alone what its flags promise of *)
(* its field, and FieldIsBound ties a field that may seed the next search to *)
(* the pair the renderer has bound.  Every operation is an update of a       *)
(* record, so each is shown once to keep Sound; an operation that prepares   *)
(* nothing is Calm.  HistoryHolds and BoundHolds say where each frame is: no *)
(* texture is wanted twice, which with more textures than the history and the*)
(* bound pair can hold (MotionPairAssumption) always leaves one to write.    *)
(*****************************************************************************)
EXTENDS MotionPair, OverlayDetector, FlowScale, SequenceTheorems,
        FiniteSetTheorems, TLAPS

\* The order of the natural numbers has no infinite descent.
NatOrder == {pair \in Nat \X Nat : pair[1] < pair[2]}

\* The library's theorem, for the order written as a set of pairs.
LEMMA NatOrderWellFounded == IsWellFoundedOn(NatOrder, Nat)
<1>1. OpToRel(<, Nat) = NatOrder
  BY DEF OpToRel, NatOrder
<1> QED
  BY <1>1, NatLessThanWellFounded, Zenon

\* A set of naturals that is not empty has a least one.
LEMMA LeastExists ==
    ASSUME NEW S \in SUBSET Nat, S # {}
    PROVE  \E least \in S : \A j \in S : least <= j
<1>1. PICK least \in S : \A j \in S : ~(<<j, least>> \in NatOrder)
  BY NatOrderWellFounded, WFMin
<1>2. ASSUME NEW j \in S
      PROVE  least <= j
  <2>1. j \in Nat /\ least \in Nat
    OBVIOUS
  <2>2. j < least => <<j, least>> \in NatOrder
    BY <2>1 DEF NatOrder
  <2> QED
    BY <1>1, <2>1, <2>2
<1> QED
  BY <1>2

--------------------------------------------------------------------------------
(****************************************************************************)
(* The frames of the renderer and the motion of the pair it has bound.        *)
(****************************************************************************)

\* The fields an interpolator may hold, and its values.
Fields == [pair : Nat \X Nat, prior : (Nat \X Nat) \cup {NoPair}, mask : Nat,
           auto : BOOLEAN, detector : Nat]

SizeOrNone == Sizes \cup {NoPair}
FieldOrNone == Fields \cup {NoPair}
Detectors == [0..1 -> Nat]

Interpolators ==
    [size : SizeOrNone, ready : BOOLEAN, prior_enabled : BOOLEAN,
     prior_available : BOOLEAN, mask : Nat, auto : BOOLEAN, index : 0..1,
     pending : BOOLEAN, detector : Detectors, field : FieldOrNone,
     prepared : Nat]

Entry == [seq : Nat \ {0}, texture : Textures]

\* The type invariant.
PairTypeOK ==
    /\ source_size \in SizeOrNone
    /\ history \in Seq(Entry) /\ Len(history) <= MaxHistory
    /\ recycled \in Seq(Textures)
    /\ content \in [Textures -> Nat]
    /\ bound \in [previous : Nat, current : Nat, textures : SUBSET Textures]
    /\ has_pair \in BOOLEAN /\ motion_enabled \in BOOLEAN /\ motion_ready \in BOOLEAN
    /\ interpolator \in Interpolators
    /\ stored \in Nat /\ settings \in Nat /\ failures \in Nat

\* Every texture of the history holds its frame, and none is there twice or
\* recycled.
HistoryHolds ==
    /\ \A i \in DOMAIN history : content[history[i].texture] = history[i].seq
    /\ \A i, j \in DOMAIN history : history[i].texture = history[j].texture => i = j
    /\ \A i, j \in DOMAIN recycled : recycled[i] = recycled[j] => i = j
    /\ \A i \in DOMAIN history, j \in DOMAIN recycled : history[i].texture # recycled[j]

\* The bound textures hold the bound frames: one for both, when it is one frame.
BoundHolds ==
    \/ bound = NotBound
    \/ \E a, b \in Textures :
        /\ bound.textures = {a, b}
        /\ content[a] = bound.previous /\ content[b] = bound.current
        /\ bound.previous # 0 /\ bound.current # 0
        /\ bound.previous = bound.current => a = b

\* What an interpolator says of its field: it is there while it may seed a search
\* or be drawn, and was estimated under what holds now.
Sound(mi) ==
    /\ \A i \in 0..1 : mi.detector[i] <= mi.prepared
    /\ mi.ready => /\ mi.prior_available
                   /\ mi.field.mask = mi.mask /\ mi.field.auto = mi.auto
                   /\ mi.field.detector = mi.detector[mi.index]
                   /\ mi.field.detector < mi.prepared
    /\ mi.prior_available => mi.field \in Fields
    /\ mi.field # NoPair /\ mi.field.prior # NoPair => mi.field.prior[2] = mi.field.pair[1]

\* A field that may seed the next search is of the source's size and, while a
\* pair is bound, of that pair.
FieldIsBound ==
    interpolator.prior_available =>
        /\ motion_enabled
        /\ interpolator.size = source_size
        /\ has_pair => interpolator.field.pair = <<bound.previous, bound.current>>

\* A collector, and what it has accounted for.
Collectors ==
    [pending : [Slots -> Nat], active : {Idle}, cancelled : SUBSET Nat, samples : Seq(Nat),
     begun : Nat, collected : SUBSET Nat]

Flying(c) == {q \in Slots : c.pending[q] # Idle}

Accounted(c) ==
    /\ \A q, p \in Flying(c) : c.pending[q] = c.pending[p] => q = p
    /\ \A q \in Flying(c) : c.pending[q] \notin c.collected
    /\ {c.pending[q] : q \in Flying(c)} \cup c.collected = 1..c.begun
    /\ \A i \in DOMAIN c.samples : c.samples[i] \in c.collected
    /\ \A i, j \in DOMAIN c.samples : c.samples[i] = c.samples[j] => i = j

PairInv ==
    /\ PairTypeOK /\ HistoryHolds /\ BoundHolds
    /\ Sound(interpolator) /\ FieldIsBound
    /\ timing \in Collectors /\ Accounted(timing)

--------------------------------------------------------------------------------
(****************************************************************************)
(* The collector: no measurement is lost or sampled twice.                    *)
(****************************************************************************)

\* Slots can be listed in the order of the ring: a least bound below which they
\* cannot does not exist.
Listing(slots) ==
    {s \in [1..Cardinality(slots) -> slots] : \A i, j \in DOMAIN s : i < j => s[i] < s[j]}

\* Finitely many slots have such a listing.
LEMMA ListingExists ==
    ASSUME NEW slots \in SUBSET Slots
    PROVE  IsFiniteSet(slots) /\ Listing(slots) # {}
<1> DEFINE Below(n) == slots \cap (1..n)
           Bad == {n \in Nat : Listing(Below(n)) = {}}
<1>1. QueryCapacity \in Nat /\ IsFiniteSet(Slots) /\ slots = Below(QueryCapacity)
  <2>1. QueryCapacity \in Nat
    BY GpuTimingAssumption DEF GpuTimingAssumption
  <2>2. IsFiniteSet(1..QueryCapacity)
    BY <2>1, FS_Interval
  <2> QED
    BY <2>1, <2>2 DEF Slots
<1>2. IsFiniteSet(slots)
  BY <1>1, FS_Subset
<1>3. ASSUME NEW n \in Nat
      PROVE  IsFiniteSet(Below(n)) /\ Cardinality(Below(n)) \in Nat
  <2>1. Below(n) \in SUBSET slots
    OBVIOUS
  <2> QED
    BY <1>2, <2>1, FS_Subset, FS_CardinalityType
<1>4. Bad = {}
  <2>1. SUFFICES ASSUME Bad # {} PROVE FALSE
    OBVIOUS
  <2>2. Bad \in SUBSET Nat
    OBVIOUS
  <2>3. PICK n \in Bad : \A m \in Bad : n <= m
    <3> HIDE DEF Bad
    <3> QED
      BY <2>1, <2>2, LeastExists
  <2>4. n \in Nat /\ Listing(Below(n)) = {}
    BY <2>3
  <2>5. n # 0
    <3>1. SUFFICES ASSUME n = 0 PROVE FALSE
      OBVIOUS
    <3>2. Below(0) = {} /\ Cardinality(Below(0)) = 0
      BY FS_EmptySet
    <3>3. [i \in 1..0 |-> 0] \in Listing(Below(0))
      BY <3>2 DEF Listing
    <3> QED
      BY <2>4, <3>1, <3>3
  <2>6. n - 1 \in Nat /\ Listing(Below(n - 1)) # {}
    BY <2>3, <2>4, <2>5
  <2> DEFINE B == Below(n - 1)
             k == Cardinality(B)
  <2>7. PICK s \in Listing(B) : TRUE
    BY <2>6
  <2>8. IsFiniteSet(B) /\ k \in Nat
    BY <1>3, <2>6
  <2>9. CASE n \in slots
    <3>1. Below(n) = B \cup {n} /\ n \notin B
      BY <2>4, <2>6, <2>9
    <3>2. Cardinality(Below(n)) = k + 1
      BY <2>8, <3>1, FS_AddElement
    <3> DEFINE t == [i \in 1..(k + 1) |-> IF i = k + 1 THEN n ELSE s[i]]
    <3>3. s \in [1..k -> B] /\ \A i, j \in 1..k : i < j => s[i] < s[j]
      BY <2>7 DEF Listing
    <3>4. \A b \in B : b < n
      BY <2>4
    <3> HIDE DEF B, k
    <3>5. t \in [1..(k + 1) -> B \cup {n}]
      BY <2>8, <3>3
    <3>6. \A i, j \in 1..(k + 1) : i < j => t[i] < t[j]
      BY <2>8, <3>3, <3>4
    <3>7. t \in Listing(Below(n))
      <4>1. DOMAIN t = 1..(k + 1)
        OBVIOUS
      <4> HIDE DEF t
      <4> QED
        BY <3>1, <3>2, <3>5, <3>6, <4>1 DEF Listing, B
    <3> QED
      BY <2>4, <3>7
  <2>10. CASE n \notin slots
    <3>1. Below(n) = B
      BY <2>4, <2>6, <2>10
    <3> QED
      BY <2>4, <2>7, <3>1
  <2> QED
    BY <2>9, <2>10
<1> QED
  BY <1>1, <1>2, <1>4

\* The listing that the operator chooses.
LEMMA InOrderIsListing ==
    ASSUME NEW slots \in SUBSET Slots
    PROVE  /\ Cardinality(slots) \in Nat
           /\ InOrder(slots) \in [1..Cardinality(slots) -> slots]
           /\ \A i, j \in 1..Cardinality(slots) :
                  InOrder(slots)[i] = InOrder(slots)[j] => i = j
<1>1. IsFiniteSet(slots) /\ Cardinality(slots) \in Nat /\ Listing(slots) # {}
  BY ListingExists, FS_CardinalityType
<1> DEFINE n == Cardinality(slots)
<1>2. /\ InOrder(slots) \in [1..n -> slots]
      /\ \A i, j \in DOMAIN InOrder(slots) : i < j => InOrder(slots)[i] < InOrder(slots)[j]
  BY <1>1 DEF InOrder, Listing
<1>3. \A q \in slots : q \in Int
  BY DEF Slots
<1> DEFINE s == InOrder(slots)
<1> HIDE DEF n, s
<1>4. ASSUME NEW i \in 1..n, NEW j \in 1..n, s[i] = s[j]
      PROVE  i = j
  <2>1. i \in Int /\ j \in Int /\ s[i] \in Int /\ s[j] \in Int
    BY <1>1, <1>2, <1>3 DEF s, n
  <2>2. ~(i < j) /\ ~(j < i)
    BY <1>2, <1>4, <2>1 DEF s
  <2> QED
    BY <2>1, <2>2
<1> QED
  BY <1>1, <1>2, <1>4 DEF s, n

\* The fields of a collector.
LEMMA CollectorFields ==
    ASSUME NEW c \in Collectors
    PROVE  /\ c.pending \in [Slots -> Nat] /\ c.active = Idle /\ c.cancelled \in SUBSET Nat
           /\ c.samples \in Seq(Nat) /\ c.begun \in Nat /\ c.collected \in SUBSET Nat
BY DEF Collectors

\* The window keeps the newest samples: a tail of what there was.
LEMMA TailOfSamples ==
    ASSUME NEW s \in Seq(Nat), NEW from \in Nat, from <= Len(s),
           \A i, j \in DOMAIN s : s[i] = s[j] => i = j
    PROVE  LET t == SubSeq(s, from + 1, Len(s)) IN
           /\ t \in Seq(Nat)
           /\ \A i \in DOMAIN t : \E j \in DOMAIN s : t[i] = s[j]
           /\ \A i, j \in DOMAIN t : t[i] = t[j] => i = j
<1> DEFINE t == SubSeq(s, from + 1, Len(s))
<1>1. Len(s) \in Nat /\ DOMAIN s = 1..Len(s)
  OBVIOUS
<1>2. \A i \in (from + 1)..Len(s) : s[i] \in Nat
  OBVIOUS
<1>3. /\ t \in Seq(Nat)
      /\ Len(t) = Len(s) - from
      /\ \A i \in 1..(Len(s) - from) : t[i] = s[from + i]
  <2>1. /\ t \in Seq(Nat)
        /\ Len(t) = IF from + 1 <= Len(s) THEN Len(s) - (from + 1) + 1 ELSE 0
        /\ \A i \in 1..(Len(s) - (from + 1) + 1) : t[i] = s[(from + 1) + i - 1]
    BY <1>1, <1>2, SubSeqProperties
  <2> HIDE DEF t
  <2>2. Len(t) = Len(s) - from
    <3>1. Len(t) = IF from + 1 <= Len(s) THEN Len(s) - (from + 1) + 1 ELSE 0
      BY <2>1
    <3> DEFINE n == Len(s)
               m == Len(t)
    <3>2. m = IF from + 1 <= n THEN n - (from + 1) + 1 ELSE 0
      BY <3>1
    <3>3. n \in Nat /\ from <= n
      BY <1>1
    <3> HIDE DEF n, m
    <3>4. m = n - from
      BY <3>2, <3>3
    <3> QED
      BY <3>4 DEF n, m
  <2>3. ASSUME NEW i \in 1..(Len(s) - from)
        PROVE  t[i] = s[from + i]
    <3>1. i \in 1..(Len(s) - (from + 1) + 1) /\ (from + 1) + i - 1 = from + i
      BY <1>1
    <3>2. t[i] = s[(from + 1) + i - 1]
      BY <2>1, <3>1
    <3> QED
      BY <3>1, <3>2
  <2> QED
    BY <2>1, <2>2, <2>3
<1> HIDE DEF t
<1>4. DOMAIN t = 1..(Len(s) - from)
  BY <1>1, <1>3
<1>5. \A i \in DOMAIN t : from + i \in DOMAIN s /\ t[i] = s[from + i]
  BY <1>1, <1>3, <1>4
<1>6. \A i \in DOMAIN t : i \in Int
  BY <1>1, <1>4
<1>7. \A i, j \in DOMAIN t : t[i] = t[j] => i = j
  BY <1>5, <1>6
<1> USE DEF t
<1> QED
  BY <1>3, <1>5, <1>7

\* What is read of slots in flight is as many measurements, each once.
LEMMA ReadIsInFlight ==
    ASSUME NEW c \in Collectors, Accounted(c), NEW slots \in SUBSET Flying(c)
    PROVE  LET r == Read(c, slots) IN
           /\ r \in Seq(Nat)
           /\ \A i \in DOMAIN r : \E q \in slots : r[i] = c.pending[q]
           /\ \A i, j \in DOMAIN r : r[i] = r[j] => i = j
<1> DEFINE kept == {q \in slots : c.pending[q] \notin c.cancelled}
           n == Cardinality(kept)
           o == InOrder(kept)
           r == Read(c, slots)
<1>1. kept \in SUBSET Slots /\ kept \subseteq slots /\ kept \subseteq Flying(c)
  BY DEF Flying
<1>2. n \in Nat /\ o \in [1..n -> kept] /\ \A i, j \in 1..n : o[i] = o[j] => i = j
  BY <1>1, InOrderIsListing
<1>3. r = [i \in 1..n |-> c.pending[o[i]]]
  BY DEF Read
<1>4. c.pending \in [Slots -> Nat]
  BY CollectorFields
<1> HIDE DEF kept, n, o, r
<1>5. DOMAIN r = 1..n /\ \A i \in 1..n : r[i] = c.pending[o[i]] /\ o[i] \in kept
  BY <1>2, <1>3
<1>6. \A i \in 1..n : r[i] \in Nat
  BY <1>1, <1>4, <1>5
<1>7. r \in Seq(Nat)
  BY <1>2, <1>3, <1>5, <1>6, IsASeq
<1>8. \A i, j \in DOMAIN r : r[i] = r[j] => i = j
  BY <1>1, <1>2, <1>5 DEF Accounted
<1>9. \A i \in DOMAIN r : \E q \in slots : r[i] = c.pending[q]
  BY <1>1, <1>5
<1> QED
  BY <1>7, <1>8, <1>9 DEF r

\* Reading slots in flight moves each measurement to the collected ones and samples it
\* at most once.
LEMMA PollKeeps ==
    ASSUME NEW c \in Collectors, Accounted(c), NEW ready \in SUBSET Flying(c),
           NEW spoiled \in SUBSET ready
    PROVE  Poll(c, ready, spoiled) \in Collectors /\ Accounted(Poll(c, ready, spoiled))
<1> DEFINE r == Read(c, ready \ spoiled)
           grown == c.samples \o r
           over == IF Len(grown) > SampleWindow THEN Len(grown) - SampleWindow ELSE 0
           s == SubSeq(grown, over + 1, Len(grown))
           pending == [q \in Slots |-> IF q \in ready THEN Idle ELSE c.pending[q]]
           cancelled == c.cancelled \ {c.pending[q] : q \in ready}
           collected == c.collected \cup {c.pending[q] : q \in ready}
           d == [c EXCEPT !.pending = pending, !.samples = s, !.cancelled = cancelled,
                          !.collected = collected]
<1>1. /\ c.pending \in [Slots -> Nat] /\ c.active = Idle /\ c.cancelled \in SUBSET Nat
      /\ c.samples \in Seq(Nat) /\ c.begun \in Nat /\ c.collected \in SUBSET Nat
  BY CollectorFields
<1>2. /\ r \in Seq(Nat)
      /\ \A i \in DOMAIN r : \E q \in ready : r[i] = c.pending[q]
      /\ \A i, j \in DOMAIN r : r[i] = r[j] => i = j
  <2>1. ready \ spoiled \in SUBSET Flying(c)
    OBVIOUS
  <2> HIDE DEF r
  <2>2. /\ r \in Seq(Nat)
        /\ \A i \in DOMAIN r : \E q \in ready \ spoiled : r[i] = c.pending[q]
        /\ \A i, j \in DOMAIN r : r[i] = r[j] => i = j
    BY <2>1, ReadIsInFlight DEF r
  <2> QED
    BY <2>2
<1> HIDE DEF r
<1>3. /\ grown \in Seq(Nat)
      /\ \A i \in DOMAIN grown : grown[i] \in collected
      /\ \A i, j \in DOMAIN grown : grown[i] = grown[j] => i = j
  <2>1. /\ Len(c.samples) \in Nat /\ Len(r) \in Nat
        /\ DOMAIN c.samples = 1..Len(c.samples) /\ DOMAIN r = 1..Len(r)
    BY <1>1, <1>2
  <2>2. /\ grown \in Seq(Nat) /\ Len(grown) = Len(c.samples) + Len(r)
        /\ \A i \in 1..(Len(c.samples) + Len(r)) :
               grown[i] = IF i <= Len(c.samples) THEN c.samples[i] ELSE r[i - Len(c.samples)]
    BY <1>1, <1>2, ConcatProperties
  <2>3. DOMAIN grown = 1..(Len(c.samples) + Len(r))
    BY <2>1, <2>2
  <2> HIDE DEF grown
  <2>4. \A i \in DOMAIN r : r[i] \in {c.pending[q] : q \in ready} /\ r[i] \notin c.collected
    BY <1>2 DEF Accounted
  <2>5. \A i \in DOMAIN c.samples : c.samples[i] \in c.collected
    BY DEF Accounted
  <2>6. ASSUME NEW i \in DOMAIN grown
        PROVE  \/ i \in DOMAIN c.samples /\ grown[i] = c.samples[i]
               \/ i - Len(c.samples) \in DOMAIN r /\ grown[i] = r[i - Len(c.samples)]
    <3> DEFINE a == Len(c.samples)
               b == Len(r)
    <3>1. a \in Nat /\ b \in Nat /\ DOMAIN c.samples = 1..a /\ DOMAIN r = 1..b
          /\ i \in 1..(a + b)
      BY <2>1, <2>3
    <3>2. grown[i] = IF i <= a THEN c.samples[i] ELSE r[i - a]
      BY <2>2, <3>1
    <3> HIDE DEF a, b
    <3>3. CASE i <= a
      BY <3>1, <3>2, <3>3
    <3>4. CASE ~(i <= a)
      <4>1. i - a \in 1..b
        BY <3>1, <3>4
      <4> QED
        BY <3>1, <3>2, <3>4, <4>1 DEF a
    <3> QED
      BY <3>3, <3>4
  <2>7. \A i \in DOMAIN grown : grown[i] \in collected
    BY <2>4, <2>5, <2>6
  <2>8. ASSUME NEW i \in DOMAIN grown, NEW j \in DOMAIN grown, grown[i] = grown[j]
        PROVE  i = j
    <3>1. i \in Int /\ j \in Int
      BY <2>1, <2>3
    <3>2. CASE i \in DOMAIN c.samples /\ grown[i] = c.samples[i]
      <4>1. j \in DOMAIN c.samples /\ grown[j] = c.samples[j]
        BY <2>4, <2>5, <2>6, <2>8, <3>2
      <4> QED
        BY <2>8, <3>2, <4>1 DEF Accounted
    <3>3. CASE i - Len(c.samples) \in DOMAIN r /\ grown[i] = r[i - Len(c.samples)]
      <4>1. j - Len(c.samples) \in DOMAIN r /\ grown[j] = r[j - Len(c.samples)]
        BY <2>4, <2>5, <2>6, <2>8, <3>3
      <4>2. i - Len(c.samples) = j - Len(c.samples)
        BY <1>2, <2>8, <3>3, <4>1
      <4> QED
        BY <2>1, <3>1, <4>2
    <3> QED
      BY <2>6, <3>2, <3>3
  <2> QED
    BY <2>2, <2>7, <2>8
<1> HIDE DEF grown
<1>4. over \in Nat /\ over <= Len(grown)
  BY <1>3, GpuTimingAssumption DEF GpuTimingAssumption
<1> HIDE DEF over
<1>5. /\ s \in Seq(Nat)
      /\ \A i \in DOMAIN s : s[i] \in collected
      /\ \A i, j \in DOMAIN s : s[i] = s[j] => i = j
  <2> HIDE DEF s, collected
  <2>1. /\ s \in Seq(Nat)
        /\ \A i \in DOMAIN s : \E j \in DOMAIN grown : s[i] = grown[j]
        /\ \A i, j \in DOMAIN s : s[i] = s[j] => i = j
    BY <1>3, <1>4, TailOfSamples DEF s
  <2> QED
    BY <1>3, <2>1
<1>6. pending \in [Slots -> Nat] /\ cancelled \in SUBSET Nat /\ collected \in SUBSET Nat
  BY <1>1 DEF Flying, Idle
<1>7. /\ \A q \in Slots : pending[q] # Idle <=> q \in Flying(c) \ ready
      /\ \A q \in Flying(c) \ ready : pending[q] = c.pending[q]
  BY <1>1 DEF Flying
<1>8. {c.pending[q] : q \in Flying(c) \ ready} \cup collected = 1..c.begun
  BY <1>1 DEF Accounted
<1>9. \A q \in Flying(c) \ ready : c.pending[q] \notin collected
  BY <1>1 DEF Accounted, Flying
<1> HIDE DEF s, pending, cancelled, collected
<1>10. /\ d \in Collectors /\ d.pending = pending /\ d.samples = s /\ d.collected = collected
       /\ d.begun = c.begun
  BY <1>5, <1>6 DEF Collectors
<1>11. d = Poll(c, ready, spoiled)
  BY DEF Poll, d, s, over, grown, r, pending, cancelled, collected
<1> HIDE DEF d
<1>12. Flying(d) = Flying(c) \ ready
  BY <1>7, <1>10 DEF Flying
<1>13. {d.pending[q] : q \in Flying(d)} = {c.pending[q] : q \in Flying(c) \ ready}
  BY <1>7, <1>10, <1>12
<1>14. Accounted(d)
  <2>1. \A q, p \in Flying(d) : d.pending[q] = d.pending[p] => q = p
    BY <1>7, <1>10, <1>12 DEF Accounted
  <2>2. \A q \in Flying(d) : d.pending[q] \notin d.collected
    BY <1>7, <1>9, <1>10, <1>12
  <2>3. {d.pending[q] : q \in Flying(d)} \cup d.collected = 1..d.begun
    BY <1>8, <1>10, <1>13
  <2> QED
    BY <1>5, <1>10, <2>1, <2>2, <2>3 DEF Accounted
<1> QED
  BY <1>10, <1>11, <1>14

\* Nothing is begun in a new collector.
LEMMA NewIsAccounted == NewCollector \in Collectors /\ Accounted(NewCollector)
<1> DEFINE c == NewCollector
<1>1. /\ c \in Collectors /\ c.pending = [q \in Slots |-> Idle] /\ c.samples = <<>>
      /\ c.begun = 0 /\ c.collected = {}
  BY DEF NewCollector, Collectors, Idle
<1> HIDE DEF c
<1>2. Flying(c) = {}
  BY <1>1 DEF Flying
<1>3. DOMAIN c.samples = {}
  BY <1>1
<1>4. {c.pending[q] : q \in Flying(c)} \cup c.collected = 1..c.begun
  BY <1>1, <1>2
<1> QED
  BY <1>1, <1>2, <1>3, <1>4 DEF Accounted, c

\* A measurement takes a slot that is free, or is not begun.
LEMMA MeasureKeeps ==
    ASSUME NEW c \in Collectors, Accounted(c)
    PROVE  End(Begin(c)) \in Collectors /\ Accounted(End(Begin(c)))
<1> DEFINE free == {q \in Slots : c.pending[q] = Idle}
<1>1. /\ c.pending \in [Slots -> Nat] /\ c.active = Idle /\ c.cancelled \in SUBSET Nat
      /\ c.samples \in Seq(Nat) /\ c.begun \in Nat /\ c.collected \in SUBSET Nat
  BY CollectorFields
<1>2. CASE free = {}
  <2>1. Begin(c) = c
    BY <1>2 DEF Begin
  <2>2. End(c) = c
    BY <1>1 DEF End
  <2> QED
    BY <2>1, <2>2
<1>3. CASE free # {}
  <2> DEFINE q == CHOOSE q \in free : \A p \in free : q <= p
             n == c.begun + 1
             b == [c EXCEPT !.active = q, !.begun = n]
  <2>1. q \in free
    <3>1. free \in SUBSET Nat
      BY DEF Slots
    <3> HIDE DEF free
    <3> QED
      BY <1>3, <3>1, LeastExists
  <2>2. Begin(c) = b
    BY <1>1, <1>3 DEF Begin
  <2> HIDE DEF q
  <2>3. q \in Slots /\ c.pending[q] = Idle /\ q # Idle
    BY <2>1 DEF Slots, Idle
  <2>4. n \in Nat /\ n # Idle /\ \A m \in 1..c.begun : m # n
    BY <1>1 DEF Idle
  <2> DEFINE pending == [c.pending EXCEPT ![q] = n]
             d == [c EXCEPT !.active = Idle, !.begun = n, !.pending = pending]
  <2>5. pending \in [Slots -> Nat]
    BY <1>1, <2>4
  <2>6. End(b) = d
    <3>1. b.active = q /\ b.begun = n /\ b.pending = c.pending
      BY <1>1 DEF Collectors
    <3>2. End(b) = [b EXCEPT !.pending[b.active] = b.begun, !.active = Idle]
      BY <2>3, <3>1 DEF End
    <3>3. [b EXCEPT !.pending[q] = n, !.active = Idle] = d
      BY DEF Collectors
    <3> HIDE DEF b, d
    <3> QED
      BY <3>1, <3>2, <3>3
  <2>7. \A r \in Slots : pending[r] = IF r = q THEN n ELSE c.pending[r]
    BY <1>1
  <2> HIDE DEF pending, n, b
  <2>8. /\ d \in Collectors /\ d.pending = pending /\ d.samples = c.samples
        /\ d.begun = n /\ d.collected = c.collected
    BY <2>4, <2>5 DEF Collectors, Idle
  <2> HIDE DEF d
  <2>9. Flying(d) = Flying(c) \cup {q} /\ q \notin Flying(c)
    BY <2>3, <2>4, <2>7, <2>8 DEF Flying
  <2>10. \A r \in Flying(c) : d.pending[r] = c.pending[r] /\ c.pending[r] \in 1..c.begun
    BY <2>7, <2>8, <2>9 DEF Accounted, Flying
  <2>11. d.pending[q] = n
    BY <2>3, <2>7, <2>8
  <2>12. \A r, p \in Flying(d) : d.pending[r] = d.pending[p] => r = p
    BY <2>4, <2>9, <2>10, <2>11 DEF Accounted
  <2>13. \A r \in Flying(d) : d.pending[r] \notin d.collected
    BY <2>4, <2>8, <2>9, <2>10, <2>11 DEF Accounted
  <2>14. {d.pending[r] : r \in Flying(d)} \cup d.collected = 1..d.begun
    <3>1. {d.pending[r] : r \in Flying(d)} = {c.pending[r] : r \in Flying(c)} \cup {n}
      BY <2>9, <2>10, <2>11
    <3>2. 1..n = (1..c.begun) \cup {n}
      BY <1>1 DEF n
    <3> QED
      BY <2>8, <3>1, <3>2 DEF Accounted
  <2>15. Accounted(d)
    BY <2>8, <2>12, <2>13, <2>14 DEF Accounted
  <2> QED
    BY <2>2, <2>6, <2>8, <2>15
<1> QED
  BY <1>2, <1>3

\* The slots that can be read are in flight.
LEMMA ReadyIsFlying ==
    ASSUME NEW c, NEW ready \in ReadySets(c)
    PROVE  ready \in SUBSET Flying(c)
BY DEF ReadySets, Flying

\* Between the steps of the model nothing is active.
LEMMA CancelNothing ==
    ASSUME NEW c \in Collectors
    PROVE  Cancel(c) = c
BY CollectorFields DEF Cancel

\* What the collector has accounted for is what the property says.
LEMMA AccountedIsProperty ==
    ASSUME timing \in Collectors, Accounted(timing)
    PROVE  MeasurementsAccounted
<1> DEFINE flying == Flying(timing)
           values == {timing.pending[q] : q \in flying}
           f == [q \in flying |-> timing.pending[q]]
<1>1. IsFiniteSet(flying)
  BY ListingExists DEF Flying
<1>2. \A q, p \in flying : timing.pending[q] = timing.pending[p] => q = p
  BY DEF Accounted
<1>3. f \in Bijection(flying, values)
  <2> HIDE DEF flying
  <2> QED
    BY <1>2 DEF Bijection, Injection, Surjection, IsInjective
<1>4. Cardinality(values) = Cardinality(flying)
  <2> HIDE DEF flying, values, f
  <2> QED
    BY <1>1, <1>3, FS_Bijection DEF ExistsBijection
<1>5. timing.active = Idle
  BY CollectorFields
<1>6. values \cup timing.collected = 1..timing.begun /\ values \cap timing.collected = {}
  BY DEF Accounted
<1>7. ToSet(timing.samples) \subseteq timing.collected /\ IsInjective(timing.samples)
  BY DEF Accounted, ToSet, IsInjective
<1>8. flying = {q \in Slots : timing.pending[q] # Idle}
  BY DEF Flying
<1> HIDE DEF flying
<1> QED
  BY <1>4, <1>5, <1>6, <1>7, <1>8 DEF MeasurementsAccounted

--------------------------------------------------------------------------------
(****************************************************************************)
(* The operations of the interpolator.                                        *)
(****************************************************************************)

\* The fields of an interpolator.
LEMMA InterpolatorFields ==
    ASSUME NEW mi \in Interpolators
    PROVE  /\ mi.size \in SizeOrNone /\ mi.ready \in BOOLEAN
           /\ mi.prior_enabled \in BOOLEAN /\ mi.prior_available \in BOOLEAN
           /\ mi.mask \in Nat /\ mi.auto \in BOOLEAN /\ mi.index \in 0..1
           /\ mi.pending \in BOOLEAN /\ mi.detector \in Detectors
           /\ mi.field \in FieldOrNone /\ mi.prepared \in Nat
BY DEF Interpolators

\* The updates the operations are made of.
LEMMA WithFlags ==
    ASSUME NEW mi \in Interpolators, NEW r \in BOOLEAN, NEW a \in BOOLEAN
    PROVE  LET x == [mi EXCEPT !.ready = r, !.prior_available = a]
           IN  /\ x \in Interpolators
               /\ x.ready = r /\ x.prior_available = a
               /\ x.size = mi.size /\ x.mask = mi.mask /\ x.auto = mi.auto
               /\ x.index = mi.index /\ x.detector = mi.detector
               /\ x.field = mi.field /\ x.prepared = mi.prepared
BY DEF Interpolators

\* The flag that the field may be drawn.
LEMMA WithReady ==
    ASSUME NEW mi \in Interpolators, NEW r \in BOOLEAN
    PROVE  LET x == [mi EXCEPT !.ready = r]
           IN  /\ x \in Interpolators
               /\ x.ready = r /\ x.prior_available = mi.prior_available
               /\ x.size = mi.size /\ x.mask = mi.mask /\ x.auto = mi.auto
               /\ x.index = mi.index /\ x.detector = mi.detector
               /\ x.field = mi.field /\ x.prepared = mi.prepared
BY DEF Interpolators

\* A mask and that flag.
LEMMA WithMask ==
    ASSUME NEW mi \in Interpolators, NEW m \in Nat, NEW r \in BOOLEAN
    PROVE  LET x == [mi EXCEPT !.mask = m, !.ready = r]
           IN  /\ x \in Interpolators
               /\ x.ready = r /\ x.prior_available = mi.prior_available
               /\ x.size = mi.size /\ x.mask = m /\ x.auto = mi.auto
               /\ x.index = mi.index /\ x.detector = mi.detector
               /\ x.field = mi.field /\ x.prepared = mi.prepared
BY DEF Interpolators

\* The setting of the prior.
LEMMA WithPriorEnabled ==
    ASSUME NEW mi \in Interpolators, NEW e \in BOOLEAN
    PROVE  LET x == [mi EXCEPT !.prior_enabled = e]
           IN  /\ x \in Interpolators
               /\ x.ready = mi.ready /\ x.prior_available = mi.prior_available
               /\ x.size = mi.size /\ x.mask = mi.mask /\ x.auto = mi.auto
               /\ x.index = mi.index /\ x.detector = mi.detector
               /\ x.field = mi.field /\ x.prepared = mi.prepared
BY DEF Interpolators

\* The texture of the detector that is read.
LEMMA WithIndex ==
    ASSUME NEW mi \in Interpolators, NEW i \in 0..1, NEW p \in BOOLEAN
    PROVE  LET x == [mi EXCEPT !.index = i, !.pending = p]
           IN  /\ x \in Interpolators
               /\ x.ready = mi.ready /\ x.prior_available = mi.prior_available
               /\ x.size = mi.size /\ x.mask = mi.mask /\ x.auto = mi.auto
               /\ x.index = i /\ x.detector = mi.detector
               /\ x.field = mi.field /\ x.prepared = mi.prepared
BY DEF Interpolators

\* The textures of the detector.
LEMMA WithDetector ==
    ASSUME NEW mi \in Interpolators, NEW d \in Detectors, NEW p \in BOOLEAN
    PROVE  LET x == [mi EXCEPT !.detector = d, !.pending = p]
           IN  /\ x \in Interpolators
               /\ x.ready = mi.ready /\ x.prior_available = mi.prior_available
               /\ x.size = mi.size /\ x.mask = mi.mask /\ x.auto = mi.auto
               /\ x.index = mi.index /\ x.detector = d
               /\ x.field = mi.field /\ x.prepared = mi.prepared
BY DEF Interpolators

\* A field and whether it may be drawn and may seed.
LEMMA WithField ==
    ASSUME NEW mi \in Interpolators, NEW f \in FieldOrNone, NEW a \in BOOLEAN,
           NEW r \in BOOLEAN, NEW n \in Nat
    PROVE  LET x == [mi EXCEPT !.field = f, !.prior_available = a, !.ready = r, !.prepared = n]
           IN  /\ x \in Interpolators
               /\ x.ready = r /\ x.prior_available = a
               /\ x.size = mi.size /\ x.mask = mi.mask /\ x.auto = mi.auto
               /\ x.index = mi.index /\ x.detector = mi.detector
               /\ x.field = f /\ x.prepared = n
BY DEF Interpolators

\* A field says what it was estimated from.
LEMMA FieldIsTyped ==
    ASSUME NEW mi \in Interpolators, NEW pair \in Nat \X Nat,
           NEW prior \in (Nat \X Nat) \cup {NoPair}
    PROVE  LET f == Field(pair, prior, mi)
           IN  /\ f \in Fields
               /\ f.pair = pair /\ f.prior = prior /\ f.mask = mi.mask /\ f.auto = mi.auto
               /\ f.detector = mi.detector[mi.index]
<1>1. \A m \in Nat, a \in BOOLEAN, d \in Nat :
          LET f == [pair |-> pair, prior |-> prior, mask |-> m, auto |-> a, detector |-> d]
          IN  /\ f \in Fields
              /\ f.pair = pair /\ f.prior = prior /\ f.mask = m /\ f.auto = a
              /\ f.detector = d
  BY DEF Fields
<1>2. mi.mask \in Nat /\ mi.auto \in BOOLEAN /\ mi.detector[mi.index] \in Nat
  BY InterpolatorFields DEF Detectors
<1> QED
  BY <1>1, <1>2, Zenon DEF Field

\* An operation that prepares nothing: a field that may seed a search afterwards
\* was there before.
Calm(mi, x) ==
    x.prior_available => mi.prior_available /\ x.size = mi.size /\ x.field = mi.field

ClearedDetector == [i \in 0..1 |-> Cleared]

\* A cleared detector.
LEMMA ClearedIsDetector == ClearedDetector \in Detectors /\ \A i \in 0..1 : ClearedDetector[i] = 0
BY DEF ClearedDetector, Cleared, Detectors

\* Ending the pair and clearing the detector keep what an interpolator says.
LEMMA SoundWhenEnded ==
    ASSUME NEW mi \in Interpolators, Sound(mi), NEW x \in Interpolators,
           ~x.ready, x.prepared = mi.prepared,
           x.detector \in {mi.detector, ClearedDetector},
           x.field \in {mi.field, NoPair},
           x.prior_available => mi.prior_available /\ x.field = mi.field
    PROVE  Sound(x)
<1>1. mi.prepared \in Nat /\ mi.detector \in Detectors
  BY InterpolatorFields
<1>2. \A i \in 0..1 : x.detector[i] <= x.prepared
  BY <1>1, ClearedIsDetector DEF Sound
<1>3. x.prior_available => x.field \in Fields
  BY Zenon DEF Sound
<1>4. x.field # NoPair /\ x.field.prior # NoPair => x.field.prior[2] = x.field.pair[1]
  BY Zenon DEF Sound
<1> QED
  BY <1>2, <1>3, <1>4, Zenon DEF Sound

\* Reset leaves a field that may neither be drawn nor seed a search.
LEMMA ResetKeeps ==
    ASSUME NEW mi \in Interpolators, Sound(mi)
    PROVE  /\ Reset(mi) \in Interpolators /\ Sound(Reset(mi))
           /\ Calm(mi, Reset(mi)) /\ ~Reset(mi).prior_available
<1> DEFINE x == Reset(mi)
<1>1. FALSE \in BOOLEAN
  OBVIOUS
<1>2. /\ x \in Interpolators /\ x.ready = FALSE /\ x.prior_available = FALSE
      /\ x.detector = mi.detector /\ x.field = mi.field /\ x.prepared = mi.prepared
  BY <1>1, WithFlags, Zenon DEF Reset
<1> HIDE DEF x
<1>3. ~x.ready /\ ~x.prior_available
  BY <1>2, Zenon
<1>4. Sound(x)
  BY <1>2, <1>3, SoundWhenEnded, Zenon
<1>5. Calm(mi, x)
  BY <1>3, Zenon DEF Calm
<1> QED
  BY <1>2, <1>3, <1>4, <1>5 DEF x

\* Another mask ends the pair.
LEMMA SetUiMaskKeeps ==
    ASSUME NEW mi \in Interpolators, Sound(mi)
    PROVE  LET x == SetUiMask(mi, mi.mask + 1)
           IN  x \in Interpolators /\ Sound(x) /\ Calm(mi, x)
<1> DEFINE x == SetUiMask(mi, mi.mask + 1)
<1>1. FALSE \in BOOLEAN /\ mi.mask + 1 \in Nat
  <2>1. mi.mask \in Nat
    BY InterpolatorFields
  <2> QED
    BY <2>1
<1>2. /\ x \in Interpolators /\ x.ready = FALSE /\ x.prior_available = mi.prior_available
      /\ x.size = mi.size
      /\ x.detector = mi.detector /\ x.field = mi.field /\ x.prepared = mi.prepared
  BY <1>1, WithMask, Zenon DEF SetUiMask
<1> HIDE DEF x
<1>3. ~x.ready /\ (x.prior_available => mi.prior_available)
  BY <1>2, Zenon
<1>4. Sound(x)
  BY <1>2, <1>3, SoundWhenEnded, Zenon
<1>5. Calm(mi, x)
  BY <1>2, Zenon DEF Calm
<1> QED
  BY <1>2, <1>4, <1>5 DEF x

\* Switching the detector clears it and ends the pair.
LEMMA SetAutoKeeps ==
    ASSUME NEW mi \in Interpolators, Sound(mi), NEW enabled \in BOOLEAN
    PROVE  LET x == SetAutoUiMaskEnabled(mi, enabled)
           IN  x \in Interpolators /\ Sound(x) /\ Calm(mi, x)
<1>1. CASE mi.auto = enabled
  <2>1. SetAutoUiMaskEnabled(mi, enabled) = mi
    BY <1>1, Zenon DEF SetAutoUiMaskEnabled
  <2>2. Calm(mi, mi)
    BY Zenon DEF Calm
  <2> QED
    BY <2>1, <2>2
<1>2. CASE mi.auto # enabled
  <2> DEFINE x == SetAutoUiMaskEnabled(mi, enabled)
  <2>1. x = [mi EXCEPT !.auto = enabled, !.detector = ClearedDetector,
                       !.pending = FALSE, !.ready = FALSE]
    BY <1>2, Zenon DEF SetAutoUiMaskEnabled, ClearedDetector
  <2>2. \A f \in BOOLEAN :
            LET y == [mi EXCEPT !.auto = enabled, !.detector = ClearedDetector,
                                !.pending = f, !.ready = f]
            IN  /\ y \in Interpolators /\ y.ready = f /\ y.prior_available = mi.prior_available
                /\ y.size = mi.size /\ y.detector = ClearedDetector /\ y.field = mi.field
                /\ y.prepared = mi.prepared
    BY ClearedIsDetector DEF Interpolators
  <2>3. /\ x \in Interpolators /\ x.ready = FALSE /\ x.prior_available = mi.prior_available
        /\ x.size = mi.size
        /\ x.detector = ClearedDetector /\ x.field = mi.field /\ x.prepared = mi.prepared
    <3>1. FALSE \in BOOLEAN
      OBVIOUS
    <3> HIDE DEF x
    <3> QED
      BY <2>1, <2>2, <3>1, Zenon
  <2> HIDE DEF x
  <2>4. ~x.ready /\ (x.prior_available => mi.prior_available)
    BY <2>3, Zenon
  <2>5. Sound(x)
    BY <2>3, <2>4, SoundWhenEnded, Zenon
  <2>6. Calm(mi, x)
    BY <2>3, Zenon DEF Calm
  <2> QED
    BY <2>3, <2>5, <2>6 DEF x
<1> QED
  BY <1>1, <1>2

\* New surfaces hold nothing.
LEMMA CreateKeeps ==
    ASSUME NEW mi \in Interpolators, Sound(mi), NEW size \in SizeOrNone
    PROVE  LET x == CreateResources(mi, size)
           IN  /\ x \in Interpolators /\ Sound(x) /\ Calm(mi, x)
               /\ x.size = size /\ ~x.prior_available
<1> DEFINE x == CreateResources(mi, size)
<1>1. x = [mi EXCEPT !.size = size, !.index = 0, !.pending = FALSE, !.detector = ClearedDetector,
                     !.field = NoPair, !.ready = FALSE, !.prior_available = FALSE]
  BY Zenon DEF CreateResources, ClearedDetector
<1>2. \A f \in BOOLEAN :
          LET y == [mi EXCEPT !.size = size, !.index = 0, !.pending = f,
                              !.detector = ClearedDetector, !.field = NoPair, !.ready = f,
                              !.prior_available = f]
          IN  /\ y \in Interpolators /\ y.ready = f /\ y.prior_available = f
              /\ y.size = size /\ y.detector = ClearedDetector /\ y.field = NoPair
              /\ y.prepared = mi.prepared
  <2>1. NoPair \in FieldOrNone /\ 0 \in 0..1
    BY DEF FieldOrNone
  <2> QED
    BY <2>1, ClearedIsDetector DEF Interpolators
<1>3. /\ x \in Interpolators /\ x.ready = FALSE /\ x.prior_available = FALSE
      /\ x.size = size
      /\ x.detector = ClearedDetector /\ x.field = NoPair /\ x.prepared = mi.prepared
  <2>1. FALSE \in BOOLEAN
    OBVIOUS
  <2> HIDE DEF x
  <2> QED
    BY <1>1, <1>2, <2>1, Zenon
<1> HIDE DEF x
<1>4. ~x.ready /\ ~x.prior_available
  BY <1>3, Zenon
<1>5. Sound(x)
  BY <1>3, <1>4, SoundWhenEnded, Zenon
<1>6. Calm(mi, x)
  BY <1>4, Zenon DEF Calm
<1> QED
  BY <1>3, <1>4, <1>5, <1>6 DEF x

\* A surface that could not be created leaves no field to draw.  The prior is not
\* withdrawn by the failure itself: it was of another size and already gone.
LEMMA FailKeeps ==
    ASSUME NEW mi \in Interpolators, Sound(mi), NEW size \in SizeOrNone,
           ~mi.prior_available
    PROVE  LET x == FailToCreate(mi, size)
           IN  x \in Interpolators /\ Sound(x) /\ Calm(mi, x)
<1> DEFINE x == FailToCreate(mi, size)
<1>1. \A f \in BOOLEAN :
          LET y == [mi EXCEPT !.size = size, !.ready = f, !.field = NoPair]
          IN  /\ y \in Interpolators /\ y.ready = f /\ y.prior_available = mi.prior_available
              /\ y.detector = mi.detector /\ y.field = NoPair /\ y.prepared = mi.prepared
  <2>1. NoPair \in FieldOrNone
    BY DEF FieldOrNone
  <2> QED
    BY <2>1 DEF Interpolators
<1>2. /\ x \in Interpolators /\ x.ready = FALSE /\ x.prior_available = mi.prior_available
      /\ x.detector = mi.detector /\ x.field = NoPair /\ x.prepared = mi.prepared
  <2>1. FALSE \in BOOLEAN
    OBVIOUS
  <2> QED
    BY <1>1, <2>1, Zenon DEF FailToCreate
<1> HIDE DEF x
<1>3. ~x.ready /\ ~x.prior_available
  BY <1>2, Zenon
<1>4. Sound(x)
  BY <1>2, <1>3, SoundWhenEnded, Zenon
<1>5. Calm(mi, x)
  BY <1>3, Zenon DEF Calm
<1> QED
  BY <1>2, <1>4, <1>5 DEF x

\* The setting of the prior says nothing of the field.
LEMMA SetPriorKeeps ==
    ASSUME NEW mi \in Interpolators, Sound(mi), NEW enabled \in BOOLEAN
    PROVE  LET x == SetTemporalPriorEnabled(mi, enabled)
           IN  x \in Interpolators /\ Sound(x) /\ Calm(mi, x)
<1> DEFINE x == SetTemporalPriorEnabled(mi, enabled)
<1>1. /\ x \in Interpolators /\ x.ready = mi.ready /\ x.prior_available = mi.prior_available
      /\ x.size = mi.size /\ x.mask = mi.mask /\ x.auto = mi.auto /\ x.index = mi.index
      /\ x.detector = mi.detector /\ x.field = mi.field /\ x.prepared = mi.prepared
  BY WithPriorEnabled, Zenon DEF SetTemporalPriorEnabled
<1> HIDE DEF x
<1>2. Sound(x)
  BY <1>1, Zenon DEF Sound
<1>3. Calm(mi, x)
  BY <1>1, Zenon DEF Calm
<1> QED
  BY <1>1, <1>2, <1>3 DEF x

\* Another mode ends the pair.
LEMMA SetModeKeeps ==
    ASSUME NEW mi \in Interpolators, Sound(mi)
    PROVE  LET x == SetPerformanceMode(mi)
           IN  x \in Interpolators /\ Sound(x) /\ Calm(mi, x)
<1> DEFINE x == SetPerformanceMode(mi)
<1>1. FALSE \in BOOLEAN
  OBVIOUS
<1>2. /\ x \in Interpolators /\ x.ready = FALSE /\ x.prior_available = mi.prior_available
      /\ x.size = mi.size
      /\ x.detector = mi.detector /\ x.field = mi.field /\ x.prepared = mi.prepared
  BY <1>1, WithReady, Zenon DEF SetPerformanceMode
<1> HIDE DEF x
<1>3. ~x.ready /\ (x.prior_available => mi.prior_available)
  BY <1>2, Zenon
<1>4. Sound(x)
  BY <1>2, <1>3, SoundWhenEnded, Zenon
<1>5. Calm(mi, x)
  BY <1>2, Zenon DEF Calm
<1> QED
  BY <1>2, <1>4, <1>5 DEF x

\* Another scale rebuilds the surfaces.
LEMMA SetScaleKeeps ==
    ASSUME NEW mi \in Interpolators, Sound(mi)
    PROVE  LET x == SetFlowScale(mi)
           IN  x \in Interpolators /\ Sound(x) /\ Calm(mi, x)
<1>1. CASE mi.size = NoPair
  <2>1. SetFlowScale(mi) = mi
    BY <1>1, Zenon DEF SetFlowScale
  <2>2. Calm(mi, mi)
    BY Zenon DEF Calm
  <2> QED
    BY <2>1, <2>2
<1>2. CASE mi.size # NoPair
  <2>1. SetFlowScale(mi) = CreateResources(mi, mi.size) /\ mi.size \in SizeOrNone
    BY <1>2, InterpolatorFields, Zenon DEF SetFlowScale
  <2> QED
    BY <2>1, CreateKeeps
<1> QED
  BY <1>1, <1>2

\* Surfaces of the right size stay, others are rebuilt.
LEMMA ResizedKeeps ==
    ASSUME NEW mi \in Interpolators, Sound(mi), NEW size \in SizeOrNone
    PROVE  LET x == Resized(mi, size)
           IN  x \in Interpolators /\ Sound(x) /\ Calm(mi, x) /\ x.size = size
<1>1. CASE mi.size = size
  <2>1. Resized(mi, size) = mi
    BY <1>1, Zenon DEF Resized
  <2>2. Calm(mi, mi)
    BY Zenon DEF Calm
  <2> QED
    BY <1>1, <2>1, <2>2
<1>2. CASE mi.size # size
  <2>1. Resized(mi, size) = CreateResources(mi, size)
    BY <1>2, Zenon DEF Resized
  <2> QED
    BY <2>1, CreateKeeps
<1> QED
  BY <1>1, <1>2

\* The state to read is one of the two, and nothing else changes.
LEMMA PublishedEffect ==
    ASSUME NEW mi \in Interpolators
    PROVE  LET x == Published(mi)
           IN  /\ x \in Interpolators
               /\ x.size = mi.size /\ x.mask = mi.mask /\ x.auto = mi.auto
               /\ x.detector = mi.detector /\ x.prepared = mi.prepared
<1>1. CASE mi.pending
  <2> DEFINE x == [mi EXCEPT !.index = 1 - mi.index, !.pending = FALSE]
  <2>1. FALSE \in BOOLEAN /\ 1 - mi.index \in 0..1
    BY InterpolatorFields
  <2>2. /\ x \in Interpolators
        /\ x.size = mi.size /\ x.mask = mi.mask /\ x.auto = mi.auto
        /\ x.detector = mi.detector /\ x.prepared = mi.prepared
    BY <2>1, WithIndex, Zenon
  <2>3. Published(mi) = x
    BY <1>1 DEF Published
  <2> QED
    BY <2>2, <2>3
<1>2. CASE ~mi.pending
  <2>1. Published(mi) = mi
    BY <1>2, Zenon DEF Published
  <2> QED
    BY <2>1
<1> QED
  BY <1>1, <1>2

\* The detector writes the texture that is not read.
LEMMA DetectedEffect ==
    ASSUME NEW mi \in Interpolators
    PROVE  LET x == Detected(mi)
           IN  /\ x \in Interpolators
               /\ x.ready = mi.ready /\ x.prior_available = mi.prior_available
               /\ x.size = mi.size /\ x.mask = mi.mask /\ x.auto = mi.auto
               /\ x.field = mi.field /\ x.prepared = mi.prepared
               /\ x.index = mi.index /\ x.detector[mi.index] = mi.detector[mi.index]
               /\ \A i \in 0..1 : x.detector[i] \in {mi.detector[i], mi.prepared}
<1>1. CASE mi.auto
  <2> DEFINE d == [mi.detector EXCEPT ![1 - mi.index] = mi.prepared]
             x == [mi EXCEPT !.detector = d, !.pending = TRUE]
  <2>1. mi.index \in 0..1 /\ mi.detector \in [0..1 -> Nat] /\ mi.prepared \in Nat
    BY InterpolatorFields DEF Detectors
  <2>2. d \in [0..1 -> Nat] /\ d[mi.index] = mi.detector[mi.index]
        /\ \A i \in 0..1 : d[i] \in {mi.detector[i], mi.prepared}
    BY <2>1
  <2>3. Detected(mi) = x
    BY <1>1 DEF Detected
  <2> HIDE DEF d
  <2>4. TRUE \in BOOLEAN /\ d \in Detectors
    BY <2>2 DEF Detectors
  <2>5. /\ x \in Interpolators
        /\ x.ready = mi.ready /\ x.prior_available = mi.prior_available
        /\ x.size = mi.size /\ x.mask = mi.mask /\ x.auto = mi.auto
        /\ x.index = mi.index /\ x.detector = d
        /\ x.field = mi.field /\ x.prepared = mi.prepared
    BY <2>4, WithDetector, Zenon
  <2> QED
    BY <2>2, <2>3, <2>5, Zenon
<1>2. CASE ~mi.auto
  <2>1. Detected(mi) = mi
    BY <1>2, Zenon DEF Detected
  <2> QED
    BY <2>1
<1> QED
  BY <1>1, <1>2

\* What a preparation leaves: a field of the pair, sound, that may be drawn and may
\* seed the next search.
LEMMA PrepareEffect ==
    ASSUME NEW mi \in Interpolators, Sound(mi), NEW pair \in Nat \X Nat,
           NEW size \in SizeOrNone, NEW continues \in BOOLEAN,
           continues /\ mi.prior_available => mi.field.pair[2] = pair[1]
    PROVE  LET x == PreparePair(mi, pair, size, continues)
           IN  /\ x \in Interpolators /\ Sound(x)
               /\ x.size = size /\ x.field.pair = pair
<1> DEFINE fit == Resized(mi, size)
           shown == Published(fit)
           prior == UsablePrior(fit, continues)
           f == Field(pair, prior, shown)
           n == shown.prepared + 1
           y == [shown EXCEPT !.field = f, !.prior_available = TRUE, !.ready = TRUE,
                              !.prepared = n]
           x == Detected(y)
<1>1. fit \in Interpolators /\ Sound(fit) /\ Calm(mi, fit) /\ fit.size = size
  BY ResizedKeeps
<1> HIDE DEF fit
<1>2. /\ shown \in Interpolators
      /\ shown.size = size /\ shown.mask = fit.mask /\ shown.auto = fit.auto
      /\ shown.detector = fit.detector /\ shown.prepared = fit.prepared
  BY <1>1, PublishedEffect
<1> HIDE DEF shown
<1>3. \/ prior = NoPair
      \/ fit.prior_available /\ continues /\ prior = fit.field.pair
  BY Zenon DEF UsablePrior
<1>4. prior \in (Nat \X Nat) \cup {NoPair} /\ (prior # NoPair => prior[2] = pair[1])
  <2>1. CASE prior = NoPair
    BY <2>1
  <2>2. CASE fit.prior_available /\ continues /\ prior = fit.field.pair
    <3>1. fit.field \in Fields /\ fit.field = mi.field /\ mi.prior_available
      BY <1>1, <2>2, Zenon DEF Calm, Sound
    <3>2. mi.field.pair[2] = pair[1]
      BY <2>2, <3>1
    <3>3. fit.field.pair \in Nat \X Nat
      BY <3>1 DEF Fields
    <3> QED
      BY <2>2, <3>1, <3>2, <3>3
  <2> QED
    BY <1>3, <2>1, <2>2
<1> HIDE DEF prior
<1>5. /\ f \in Fields /\ f.pair = pair /\ f.prior = prior
      /\ f.mask = shown.mask /\ f.auto = shown.auto
      /\ f.detector = shown.detector[shown.index]
  BY <1>2, <1>4, FieldIsTyped
<1>6. f \in FieldOrNone
  BY <1>5 DEF FieldOrNone
<1> HIDE DEF f
<1>7. shown.prepared \in Nat /\ shown.index \in 0..1 /\ shown.detector \in [0..1 -> Nat]
      /\ \A i \in 0..1 : shown.detector[i] <= shown.prepared
  BY <1>1, <1>2, InterpolatorFields DEF Sound, Detectors
<1>8. n \in Nat
  BY <1>7
<1> HIDE DEF n
<1>9. /\ y \in Interpolators /\ y.ready = TRUE /\ y.prior_available = TRUE
      /\ y.size = shown.size /\ y.mask = shown.mask /\ y.auto = shown.auto
      /\ y.index = shown.index /\ y.detector = shown.detector
      /\ y.field = f /\ y.prepared = n
  <2>1. \A b \in BOOLEAN :
            LET z == [shown EXCEPT !.field = f, !.prior_available = b, !.ready = b, !.prepared = n]
            IN  /\ z \in Interpolators /\ z.ready = b /\ z.prior_available = b
                /\ z.size = shown.size /\ z.mask = shown.mask /\ z.auto = shown.auto
                /\ z.index = shown.index /\ z.detector = shown.detector
                /\ z.field = f /\ z.prepared = n
    BY <1>2, <1>6, <1>8 DEF Interpolators
  <2>2. TRUE \in BOOLEAN
    OBVIOUS
  <2> QED
    BY <2>1, <2>2, Zenon
<1> HIDE DEF y
<1>10. /\ x \in Interpolators
       /\ x.ready = y.ready /\ x.prior_available = y.prior_available
       /\ x.size = y.size /\ x.mask = y.mask /\ x.auto = y.auto
       /\ x.field = y.field /\ x.prepared = y.prepared
       /\ x.index = y.index /\ x.detector[y.index] = y.detector[y.index]
       /\ \A i \in 0..1 : x.detector[i] \in {y.detector[i], y.prepared}
  BY <1>9, DetectedEffect
<1> HIDE DEF x
<1>11. /\ x.mask = f.mask /\ x.auto = f.auto /\ x.field = f /\ x.prepared = n
       /\ x.detector[x.index] = f.detector
  BY <1>5, <1>9, <1>10
<1>12. \A i \in 0..1 : x.detector[i] <= x.prepared
  BY <1>7, <1>9, <1>10 DEF n
<1>13. f.detector < n
  BY <1>5, <1>7 DEF n
<1>14. x.prior_available = TRUE
  BY <1>9, <1>10
<1>15. f.prior # NoPair => f.prior[2] = f.pair[1]
  BY <1>4, <1>5
<1>16. Sound(x)
  <2>1. x.ready => /\ x.field.mask = x.mask /\ x.field.auto = x.auto
                   /\ x.field.detector = x.detector[x.index]
                   /\ x.field.detector < x.prepared
    BY <1>11, <1>13
  <2>2. x.ready => x.prior_available
    BY <1>14, Zenon
  <2>3. x.prior_available => x.field \in Fields
    BY <1>5, <1>11, Zenon
  <2>4. x.field # NoPair /\ x.field.prior # NoPair => x.field.prior[2] = x.field.pair[1]
    BY <1>11, <1>15, Zenon
  <2> QED
    BY <1>12, <2>1, <2>2, <2>3, <2>4, Zenon DEF Sound
<1>17. x.size = size /\ x.field.pair = pair
  BY <1>2, <1>5, <1>9, <1>10
<1>18. PreparePair(mi, pair, size, continues) = x
  BY Zenon DEF PreparePair, x, y, n, f, prior, shown, fit
<1> QED
  BY <1>10, <1>16, <1>17, <1>18

--------------------------------------------------------------------------------
(****************************************************************************)
(* The frames: a texture for every frame.                                     *)
(****************************************************************************)

\* What the type invariant says of the history and of the recycled textures.
LEMMA HistoryFacts ==
    ASSUME PairTypeOK
    PROVE  /\ Len(history) \in Nat /\ DOMAIN history = 1..Len(history)
           /\ \A i \in DOMAIN history :
                  /\ history[i] \in Entry /\ history[i].texture \in Textures
                  /\ history[i].seq \in Nat \ {0}
           /\ Len(recycled) \in Nat /\ DOMAIN recycled = 1..Len(recycled)
           /\ \A i \in DOMAIN recycled : recycled[i] \in Textures
           /\ MaxHistory \in Nat /\ MaxHistory >= 2
<1>1. history \in Seq(Entry) /\ recycled \in Seq(Textures)
  BY DEF PairTypeOK
<1>2. \A i \in DOMAIN history : history[i] \in Entry
  BY <1>1
<1>3. MaxHistory \in Nat /\ MaxHistory >= 2
  BY MotionPairAssumption DEF MotionPairAssumption
<1> QED
  BY <1>1, <1>2, <1>3 DEF Entry

\* When no recycled texture may be reused, the history and the bound pair use no
\* more than the device has, less one.
LEMMA FreshTexture ==
    ASSUME PairTypeOK, BoundHolds, Reusable = {}
    PROVE  NewTexture(InUse) \in Textures /\ NewTexture(InUse) \notin InUse
<1>1. PICK a \in Textures, b \in Textures : bound.textures \subseteq {a, b}
  <2>1. CASE bound = NotBound
    <3>1. bound.textures = {}
      BY <2>1 DEF NotBound
    <3>2. Textures # {}
      <4>1. SUFFICES ASSUME Textures = {} PROVE FALSE
        OBVIOUS
      <4>2. Cardinality(Textures) = 0
        BY <4>1, FS_EmptySet
      <4> QED
        BY <4>2, MotionPairAssumption DEF MotionPairAssumption
    <3> QED
      BY <3>1, <3>2
  <2>2. CASE bound # NotBound
    BY <2>2 DEF BoundHolds
  <2> QED
    BY <2>1, <2>2
<1> DEFINE n == Len(history)
           U == HistoryTextures \cup {a, b}
           f == [i \in 1..(n + 2) |-> IF i <= n THEN history[i].texture
                                      ELSE IF i = n + 1 THEN a ELSE b]
<1>2. n \in Nat /\ n <= MaxHistory /\ MaxHistory \in Nat
  BY HistoryFacts DEF PairTypeOK
<1>3. HistoryTextures = {history[i].texture : i \in 1..n}
  BY HistoryFacts DEF HistoryTextures, ToSet
<1>4. f \in Surjection(1..(n + 2), U)
  <2>1. f \in [1..(n + 2) -> U]
    BY <1>2, <1>3
  <2>2. ASSUME NEW t \in U
        PROVE  \E i \in 1..(n + 2) : f[i] = t
    <3>1. CASE t = a
      <4>1. n + 1 \in 1..(n + 2) /\ f[n + 1] = a
        BY <1>2
      <4> QED
        BY <3>1, <4>1
    <3>2. CASE t = b
      <4>1. n + 2 \in 1..(n + 2) /\ f[n + 2] = b
        BY <1>2
      <4> QED
        BY <3>2, <4>1
    <3>3. CASE t \in HistoryTextures
      <4>1. PICK i \in 1..n : t = history[i].texture
        BY <1>3, <3>3
      <4>2. i \in 1..(n + 2) /\ f[i] = t
        BY <1>2, <4>1
      <4> QED
        BY <4>2
    <3> QED
      BY <3>1, <3>2, <3>3
  <2> QED
    BY <2>1, <2>2 DEF Surjection
<1> HIDE DEF f, U
<1>5. IsFiniteSet(U) /\ Cardinality(U) <= n + 2
  <2>1. n + 2 \in Nat
    BY <1>2
  <2>2. ExistsSurjection(1..(n + 2), U)
    BY <1>4 DEF ExistsSurjection
  <2> QED
    BY <2>1, <2>2, FS_NatSurjection, FS_SurjCardinalityBound
<1>6. InUse \subseteq U
  BY <1>1 DEF InUse, U, Reusable, ToSet
<1>7. ~(Textures \subseteq InUse)
  <2>1. SUFFICES ASSUME Textures \subseteq U PROVE FALSE
    BY <1>6
  <2>2. Cardinality(Textures) <= Cardinality(U)
    BY <1>5, <2>1, FS_Subset
  <2>3. Cardinality(U) \in Nat /\ Cardinality(Textures) \in Nat
        /\ Cardinality(Textures) > MaxHistory + 2
    BY <1>5, FS_CardinalityType, MotionPairAssumption DEF MotionPairAssumption
  <2> QED
    BY <1>2, <1>5, <2>2, <2>3
<1> QED
  BY <1>7 DEF NewTexture

\* Removing an element of a sequence without repetition leaves the others.
LEMMA RemoveAtEffect ==
    ASSUME NEW T, NEW s \in Seq(T), NEW i \in DOMAIN s,
           \A j, k \in DOMAIN s : s[j] = s[k] => j = k
    PROVE  LET r == RemoveAt(s, i) IN
           /\ r \in Seq(T)
           /\ \A j \in DOMAIN r : r[j] # s[i] /\ \E k \in DOMAIN s : r[j] = s[k]
           /\ \A j, k \in DOMAIN r : r[j] = r[k] => j = k
<1> DEFINE n == Len(s)
           left == SubSeq(s, 1, i - 1)
           right == SubSeq(s, i + 1, n)
           r == left \o right
           g(j) == IF j < i THEN j ELSE j + 1
<1>1. n \in Nat /\ DOMAIN s = 1..n /\ i \in 1..n /\ \A j \in 1..n : s[j] \in T
  OBVIOUS
<1>2. /\ left \in Seq(T) /\ Len(left) = i - 1
      /\ \A j \in 1..(i - 1) : left[j] = s[j]
  <2>1. /\ left \in Seq(T) /\ Len(left) = IF 1 <= i - 1 THEN i - 1 - 1 + 1 ELSE 0
        /\ \A j \in 1..(i - 1 - 1 + 1) : left[j] = s[1 + j - 1]
    BY <1>1, SubSeqProperties
  <2> HIDE DEF left, n
  <2>2. Len(left) = i - 1
    <3>1. Len(left) = IF 1 <= i - 1 THEN i - 1 - 1 + 1 ELSE 0
      BY <2>1
    <3> QED
      BY <1>1, <3>1
  <2>3. ASSUME NEW j \in 1..(i - 1)
        PROVE  left[j] = s[j]
    <3>1. j \in 1..(i - 1 - 1 + 1) /\ 1 + j - 1 = j
      BY <1>1
    <3> QED
      BY <2>1, <3>1
  <2> QED
    BY <2>1, <2>2, <2>3
<1>3. /\ right \in Seq(T) /\ Len(right) = n - i
      /\ \A j \in 1..(n - i) : right[j] = s[i + j]
  <2>1. /\ right \in Seq(T) /\ Len(right) = IF i + 1 <= n THEN n - (i + 1) + 1 ELSE 0
        /\ \A j \in 1..(n - (i + 1) + 1) : right[j] = s[(i + 1) + j - 1]
    BY <1>1, SubSeqProperties
  <2> HIDE DEF right, n
  <2>2. Len(right) = n - i
    <3>1. Len(right) = IF i + 1 <= n THEN n - (i + 1) + 1 ELSE 0
      BY <2>1
    <3> QED
      BY <1>1, <3>1
  <2>3. ASSUME NEW j \in 1..(n - i)
        PROVE  right[j] = s[i + j]
    <3>1. j \in 1..(n - (i + 1) + 1) /\ (i + 1) + j - 1 = i + j
      BY <1>1
    <3>2. right[j] = s[(i + 1) + j - 1]
      BY <2>1, <3>1
    <3> QED
      BY <3>1, <3>2
  <2> QED
    BY <2>1, <2>2, <2>3
<1> HIDE DEF left, right, n
<1>4. /\ r \in Seq(T) /\ Len(r) = (i - 1) + (n - i)
      /\ \A j \in 1..((i - 1) + (n - i)) :
             r[j] = IF j <= i - 1 THEN left[j] ELSE right[j - (i - 1)]
  <2>1. /\ r \in Seq(T) /\ Len(r) = Len(left) + Len(right)
        /\ \A j \in 1..(Len(left) + Len(right)) :
               r[j] = IF j <= Len(left) THEN left[j] ELSE right[j - Len(left)]
    BY <1>2, <1>3, ConcatProperties
  <2> HIDE DEF r
  <2> QED
    BY <1>2, <1>3, <2>1
<1> HIDE DEF r
<1>5. Len(r) = n - 1 /\ DOMAIN r = 1..(n - 1)
  BY <1>1, <1>4
<1>6. ASSUME NEW j \in DOMAIN r
      PROVE  g(j) \in DOMAIN s /\ g(j) # i /\ r[j] = s[g(j)]
  <2>1. j \in 1..(n - 1) /\ j \in 1..((i - 1) + (n - i))
    BY <1>1, <1>5
  <2>2. CASE j < i
    <3>1. j \in 1..(i - 1) /\ r[j] = left[j]
      BY <1>1, <1>4, <2>1, <2>2
    <3> QED
      BY <1>1, <1>2, <2>1, <2>2, <3>1
  <2>3. CASE ~(j < i)
    <3>1. j - (i - 1) \in 1..(n - i) /\ i + (j - (i - 1)) = j + 1
      BY <1>1, <2>1, <2>3
    <3>2. r[j] = right[j - (i - 1)]
      BY <1>1, <1>4, <2>1, <2>3
    <3>3. right[j - (i - 1)] = s[i + (j - (i - 1))]
      BY <1>3, <3>1
    <3>4. r[j] = s[j + 1]
      BY <3>1, <3>2, <3>3
    <3> QED
      BY <1>1, <2>1, <2>3, <3>4
  <2> QED
    BY <2>2, <2>3
<1>7. \A j, k \in DOMAIN r : g(j) = g(k) => j = k
  BY <1>1, <1>5
<1> HIDE DEF g
<1>8. RemoveAt(s, i) = r
  BY DEF RemoveAt, r, left, right, n
<1> QED
  BY <1>4, <1>6, <1>7, <1>8

\* A frame of the size of the history gets a texture that holds no frame that is
\* still wanted, and the rest of the recycled textures stay apart.
FrameTexture == IF Reusable # {} THEN recycled[Min(Reusable)] ELSE NewTexture(InUse)
LeftRecycled == IF Reusable # {} THEN RemoveAt(recycled, Min(Reusable)) ELSE recycled

\* Neither the history, the bound pair nor what stays recycled wants it.
LEMMA FrameTextureIsFree ==
    ASSUME PairTypeOK, HistoryHolds, BoundHolds
    PROVE  /\ FrameTexture \in Textures /\ FrameTexture \notin bound.textures
           /\ \A i \in DOMAIN history : history[i].texture # FrameTexture
           /\ LeftRecycled \in Seq(Textures)
           /\ \A j \in DOMAIN LeftRecycled : LeftRecycled[j] # FrameTexture
           /\ \A j, k \in DOMAIN LeftRecycled : LeftRecycled[j] = LeftRecycled[k] => j = k
           /\ \A i \in DOMAIN history, j \in DOMAIN LeftRecycled :
                  history[i].texture # LeftRecycled[j]
<1>1. CASE Reusable # {}
  <2>1. Reusable \in SUBSET Nat /\ Reusable \subseteq DOMAIN recycled
    BY HistoryFacts DEF Reusable
  <2>2. Min(Reusable) \in Reusable
    <3>1. \E least \in Reusable : \A j \in Reusable : least <= j
      BY <1>1, <2>1, LeastExists
    <3> QED
      BY <3>1 DEF Min
  <2> DEFINE m == Min(Reusable)
  <2>3. m \in DOMAIN recycled /\ recycled[m] \in Textures /\ recycled[m] \notin bound.textures
    BY <2>1, <2>2, HistoryFacts DEF Reusable
  <2>4. FrameTexture = recycled[m] /\ LeftRecycled = RemoveAt(recycled, m)
    BY <1>1 DEF FrameTexture, LeftRecycled
  <2> HIDE DEF m
  <2>5. /\ recycled \in Seq(Textures)
        /\ \A j, k \in DOMAIN recycled : recycled[j] = recycled[k] => j = k
    BY DEF PairTypeOK, HistoryHolds
  <2>6. /\ LeftRecycled \in Seq(Textures)
        /\ \A j \in DOMAIN LeftRecycled :
               /\ LeftRecycled[j] # recycled[m]
               /\ \E k \in DOMAIN recycled : LeftRecycled[j] = recycled[k]
        /\ \A j, k \in DOMAIN LeftRecycled : LeftRecycled[j] = LeftRecycled[k] => j = k
    BY <2>3, <2>4, <2>5, RemoveAtEffect
  <2>7. \A i \in DOMAIN history, j \in DOMAIN recycled : history[i].texture # recycled[j]
    BY DEF HistoryHolds
  <2> QED
    BY <2>3, <2>4, <2>6, <2>7
<1>2. CASE Reusable = {}
  <2>1. NewTexture(InUse) \in Textures /\ NewTexture(InUse) \notin InUse
    BY <1>2, FreshTexture
  <2>2. FrameTexture = NewTexture(InUse) /\ LeftRecycled = recycled
    BY <1>2 DEF FrameTexture, LeftRecycled
  <2>3. \A i \in DOMAIN history : history[i].texture \in InUse
    BY DEF InUse, HistoryTextures, ToSet
  <2>4. \A j \in DOMAIN recycled : recycled[j] \in InUse
    BY DEF InUse, ToSet
  <2>5. bound.textures \subseteq InUse
    BY DEF InUse
  <2> QED
    BY <2>1, <2>2, <2>3, <2>4, <2>5 DEF PairTypeOK, HistoryHolds
<1> QED
  BY <1>1, <1>2

\* The bound textures keep their frames when another one is written.
LEMMA BoundStays ==
    ASSUME PairTypeOK, BoundHolds, NEW t \in Textures \ bound.textures, NEW frame \in Nat,
           content' = [content EXCEPT ![t] = frame], bound' = bound
    PROVE  BoundHolds'
<1>1. CASE bound = NotBound
  BY <1>1 DEF BoundHolds, NotBound
<1>2. CASE bound # NotBound
  <2>1. PICK a \in Textures, b \in Textures :
            /\ bound.textures = {a, b}
            /\ content[a] = bound.previous /\ content[b] = bound.current
            /\ bound.previous # 0 /\ bound.current # 0
            /\ bound.previous = bound.current => a = b
    BY <1>2 DEF BoundHolds
  <2>2. content'[a] = content[a] /\ content'[b] = content[b]
    BY <2>1 DEF PairTypeOK
  <2> QED
    BY <2>1, <2>2 DEF BoundHolds
<1> QED
  BY <1>1, <1>2

\* A frame stored: the oldest of a full history is recycled, which the bound pair may
\* still be using.
LEMMA StoreSameSizeKeeps ==
    ASSUME PairTypeOK, HistoryHolds, BoundHolds, StoreSameSize, stored' = stored + 1,
           motion_enabled' = motion_enabled, settings' = settings
    PROVE  PairTypeOK' /\ HistoryHolds' /\ BoundHolds'
<1> DEFINE n == Len(history)
           t == FrameTexture
           e == [seq |-> stored + 1, texture |-> t]
           longer == Append(history, e)
<1>1. /\ content' = [content EXCEPT ![t] = stored + 1]
      /\ history' = IF Len(longer) > MaxHistory THEN Tail(longer) ELSE longer
      /\ recycled' = IF Len(longer) > MaxHistory
                     THEN Append(LeftRecycled, Head(longer).texture)
                     ELSE LeftRecycled
  BY DEF StoreSameSize, FrameTexture, LeftRecycled
<1>2. /\ source_size' = source_size /\ bound' = bound /\ has_pair' = has_pair
      /\ motion_ready' = motion_ready /\ interpolator' = interpolator
      /\ failures' = failures
  BY DEF StoreSameSize, bound_vars, motion_vars
<1>3. /\ t \in Textures \ bound.textures
      /\ \A i \in DOMAIN history : history[i].texture # t
      /\ LeftRecycled \in Seq(Textures)
      /\ \A j \in DOMAIN LeftRecycled : LeftRecycled[j] # t
      /\ \A j, k \in DOMAIN LeftRecycled : LeftRecycled[j] = LeftRecycled[k] => j = k
      /\ \A i \in DOMAIN history, j \in DOMAIN LeftRecycled :
             history[i].texture # LeftRecycled[j]
  BY FrameTextureIsFree
<1>4. /\ stored \in Nat /\ stored + 1 \in Nat \ {0} /\ content \in [Textures -> Nat]
      /\ history \in Seq(Entry) /\ n \in Nat /\ n <= MaxHistory /\ MaxHistory \in Nat
      /\ MaxHistory >= 2
  BY HistoryFacts DEF PairTypeOK
<1>5. content' \in [Textures -> Nat] /\ content'[t] = stored + 1
      /\ \A s \in Textures : s # t => content'[s] = content[s]
  BY <1>1, <1>3, <1>4
<1>6. BoundHolds'
  BY <1>1, <1>2, <1>3, <1>4, BoundStays
<1> HIDE DEF t
<1>7. e \in Entry /\ e.seq = stored + 1 /\ e.texture = t
  BY <1>3, <1>4 DEF Entry
<1> HIDE DEF e
<1>8. /\ longer \in Seq(Entry) /\ Len(longer) = n + 1
      /\ \A i \in 1..n : longer[i] = history[i]
      /\ longer[n + 1] = e
  BY <1>4, <1>7
<1> HIDE DEF longer
<1>9. ASSUME NEW i \in 1..(n + 1)
      PROVE  /\ longer[i] \in Entry /\ longer[i].texture \in Textures
             /\ content'[longer[i].texture] = longer[i].seq
             /\ \A j \in 1..(n + 1) : longer[i].texture = longer[j].texture => i = j
             /\ \A j \in DOMAIN LeftRecycled : longer[i].texture # LeftRecycled[j]
  <2>1. DOMAIN history = 1..n /\ \A j \in 1..n : history[j].texture \in Textures
    BY HistoryFacts
  <2>2. /\ \A j \in 1..n : content[history[j].texture] = history[j].seq
        /\ \A j, k \in 1..n : history[j].texture = history[k].texture => j = k
    BY <2>1 DEF HistoryHolds
  <2>3. longer[i] \in Entry /\ longer[i].texture \in Textures
    <3>1. longer \in Seq(Entry) /\ i \in 1..Len(longer)
      BY <1>8
    <3>2. longer[i] \in Entry
      BY <3>1
    <3> QED
      BY <3>2 DEF Entry
  <2>4. CASE i \in 1..n
    <3>1. longer[i] = history[i] /\ history[i].texture # t
      BY <1>3, <1>8, <2>1, <2>4
    <3>2. content'[longer[i].texture] = longer[i].seq
      BY <1>5, <2>1, <2>2, <2>4, <3>1
    <3>3. ASSUME NEW j \in 1..(n + 1), longer[i].texture = longer[j].texture
          PROVE  i = j
      <4>1. CASE j = n + 1
        BY <1>7, <1>8, <3>1, <3>3, <4>1
      <4>2. CASE j \in 1..n
        BY <1>8, <2>2, <2>4, <3>1, <3>3, <4>2
      <4> QED
        BY <1>4, <4>1, <4>2
    <3>4. \A j \in DOMAIN LeftRecycled : longer[i].texture # LeftRecycled[j]
      BY <1>3, <2>1, <2>4, <3>1
    <3> QED
      BY <2>3, <3>2, <3>3, <3>4
  <2>5. CASE i = n + 1
    <3>1. longer[i] = e
      BY <1>8, <2>5
    <3>2. content'[longer[i].texture] = longer[i].seq
      BY <1>5, <1>7, <3>1
    <3>3. ASSUME NEW j \in 1..(n + 1), longer[i].texture = longer[j].texture
          PROVE  i = j
      <4>1. CASE j \in 1..n
        BY <1>3, <1>7, <1>8, <2>1, <3>1, <3>3, <4>1
      <4> QED
        BY <1>4, <2>5, <4>1
    <3>4. \A j \in DOMAIN LeftRecycled : longer[i].texture # LeftRecycled[j]
      BY <1>3, <1>7, <3>1
    <3> QED
      BY <2>3, <3>2, <3>3, <3>4
  <2> QED
    BY <1>4, <2>4, <2>5
<1>10. CASE ~(Len(longer) > MaxHistory)
  <2>1. history' = longer /\ recycled' = LeftRecycled
    BY <1>1, <1>10
  <2>2. DOMAIN longer = 1..(n + 1) /\ Len(longer) <= MaxHistory
    BY <1>4, <1>8, <1>10
  <2>3. PairTypeOK'
    BY <1>2, <1>3, <1>4, <1>5, <1>8, <2>1, <2>2 DEF PairTypeOK
  <2>4. HistoryHolds'
    BY <1>3, <1>9, <2>1, <2>2 DEF HistoryHolds
  <2> QED
    BY <1>6, <2>3, <2>4
<1>11. CASE Len(longer) > MaxHistory
  <2>1. history' = Tail(longer) /\ recycled' = Append(LeftRecycled, Head(longer).texture)
    BY <1>1, <1>11
  <2>2. Head(longer) = longer[1] /\ 1 \in 1..(n + 1)
    BY <1>4, <1>8
  <2>3. /\ Tail(longer) \in Seq(Entry) /\ Len(Tail(longer)) = n
        /\ \A i \in 1..n : Tail(longer)[i] = longer[i + 1]
    BY <1>4, <1>8
  <2> DEFINE k == Len(LeftRecycled)
  <2>4. /\ k \in Nat /\ DOMAIN LeftRecycled = 1..k
        /\ recycled' \in Seq(Textures) /\ Len(recycled') = k + 1
        /\ \A j \in 1..k : recycled'[j] = LeftRecycled[j]
        /\ recycled'[k + 1] = longer[1].texture
    BY <1>3, <1>9, <2>1, <2>2
  <2> HIDE DEF k
  <2>5. history' \in Seq(Entry) /\ Len(history') = n /\ DOMAIN history' = 1..n
        /\ \A i \in 1..n : history'[i] = longer[i + 1] /\ i + 1 \in 1..(n + 1) /\ i + 1 # 1
    BY <1>4, <2>1, <2>3
  <2>6. DOMAIN recycled' = 1..(k + 1)
    BY <2>4
  <2>7. PairTypeOK'
    BY <1>2, <1>4, <1>5, <2>4, <2>5 DEF PairTypeOK
  <2>8. \A i \in DOMAIN history' : content'[history'[i].texture] = history'[i].seq
    BY <1>9, <2>5
  <2>9. \A i, j \in DOMAIN history' : history'[i].texture = history'[j].texture => i = j
    <3>1. TAKE i \in DOMAIN history', j \in DOMAIN history'
    <3>2. i \in 1..n /\ j \in 1..n
      BY <2>5
    <3>3. HAVE history'[i].texture = history'[j].texture
    <3>4. longer[i + 1].texture = longer[j + 1].texture
      BY <2>5, <3>2, <3>3
    <3>5. i + 1 = j + 1
      BY <1>9, <2>5, <3>2, <3>4
    <3> QED
      BY <1>4, <3>2, <3>5
  <2>10. \A i, j \in DOMAIN recycled' : recycled'[i] = recycled'[j] => i = j
    <3>1. TAKE i \in DOMAIN recycled', j \in DOMAIN recycled'
    <3>2. \A l \in 1..k : recycled'[l] # longer[1].texture
      BY <1>9, <2>2, <2>4
    <3>3. i \in 1..k \/ i = k + 1
      BY <2>4, <2>6
    <3>4. j \in 1..k \/ j = k + 1
      BY <2>4, <2>6
    <3> QED
      BY <1>3, <2>4, <3>2, <3>3, <3>4
  <2>11. \A i \in DOMAIN history', j \in DOMAIN recycled' : history'[i].texture # recycled'[j]
    <3>1. TAKE i \in DOMAIN history', j \in DOMAIN recycled'
    <3>2. i \in 1..n /\ history'[i] = longer[i + 1] /\ i + 1 \in 1..(n + 1) /\ i + 1 # 1
      BY <2>5
    <3>3. CASE j = k + 1
      BY <1>9, <2>2, <2>4, <3>2, <3>3
    <3>4. CASE j \in 1..k
      BY <1>9, <2>4, <3>2, <3>4
    <3> QED
      BY <2>4, <2>6, <3>3, <3>4
  <2>12. HistoryHolds'
    BY <2>8, <2>9, <2>10, <2>11 DEF HistoryHolds
  <2> QED
    BY <1>6, <2>7, <2>12
<1> QED
  BY <1>10, <1>11

--------------------------------------------------------------------------------
(****************************************************************************)
(* The steps.                                                                 *)
(****************************************************************************)

\* The interpolator's part of the invariant, and how a step that only ends the
\* pair keeps it.
Estimate == interpolator \in Interpolators /\ Sound(interpolator)

\* An operation that prepares nothing leaves the field of the bound pair.
LEMMA FieldStaysBound ==
    ASSUME FieldIsBound, NEW x, Calm(interpolator, x), interpolator' = x,
           motion_enabled' = motion_enabled, source_size' = source_size,
           bound' = bound, has_pair' = has_pair
    PROVE  FieldIsBound'
BY DEF FieldIsBound, Calm

\* A field that may not seed a search is of no pair.
LEMMA EndedFieldIsBound ==
    ASSUME ~interpolator'.prior_available
    PROVE  FieldIsBound'
BY DEF FieldIsBound

\* A frame of another size starts a history and ends the pair.
LEMMA StoreNewSizeKeeps ==
    ASSUME PairInv, NEW size \in Sizes, StoreNewSize(size), stored' = stored + 1,
           motion_enabled' = motion_enabled, settings' = settings
    PROVE  PairInv'
<1> DEFINE t == NewTexture({})
           e == [seq |-> stored + 1, texture |-> t]
<1>1. /\ source_size' = size /\ history' = <<e>> /\ recycled' = <<>>
      /\ content' = [content EXCEPT ![t] = stored + 1]
      /\ bound' = NotBound /\ has_pair' = FALSE /\ motion_ready' = FALSE
      /\ interpolator' = Reset(interpolator)
      /\ timing' = timing /\ failures' = failures
  BY DEF StoreNewSize
<1>2. /\ stored \in Nat /\ stored + 1 \in Nat \ {0} /\ content \in [Textures -> Nat]
      /\ MaxHistory \in Nat /\ MaxHistory >= 2
      /\ motion_enabled \in BOOLEAN /\ settings \in Nat /\ failures \in Nat
      /\ interpolator \in Interpolators /\ Sound(interpolator)
  BY HistoryFacts DEF PairInv, PairTypeOK
<1>3. t \in Textures
  <2>1. Textures # {}
    <3>1. SUFFICES ASSUME Textures = {} PROVE FALSE
      OBVIOUS
    <3>2. Cardinality(Textures) = 0
      BY <3>1, FS_EmptySet
    <3> QED
      BY <3>2, MotionPairAssumption DEF MotionPairAssumption
  <2> QED
    BY <2>1 DEF NewTexture
<1>4. content' \in [Textures -> Nat] /\ content'[t] = stored + 1
  BY <1>1, <1>2, <1>3
<1> HIDE DEF t
<1>5. e \in Entry /\ e.seq = stored + 1 /\ e.texture = t
  BY <1>2, <1>3 DEF Entry
<1> HIDE DEF e
<1>6. /\ history' \in Seq(Entry) /\ Len(history') = 1 /\ DOMAIN history' = {1} /\ history'[1] = e
      /\ recycled' \in Seq(Textures) /\ DOMAIN recycled' = {}
  BY <1>1, <1>5
<1>7. HistoryHolds'
  BY <1>4, <1>5, <1>6 DEF HistoryHolds
<1>8. BoundHolds'
  BY <1>1 DEF BoundHolds
<1>9. interpolator' \in Interpolators /\ Sound(interpolator)' /\ ~interpolator'.prior_available
  BY <1>1, <1>2, ResetKeeps
<1>10. FieldIsBound'
  BY <1>9, EndedFieldIsBound
<1>11. NotBound \in [previous : Nat, current : Nat, textures : SUBSET Textures]
  BY DEF NotBound
<1>12. PairTypeOK'
  <2>1. Len(history') <= MaxHistory
    BY <1>2, <1>6
  <2>2. source_size' \in SizeOrNone
    BY <1>1 DEF SizeOrNone
  <2>3. has_pair' \in BOOLEAN /\ motion_enabled' \in BOOLEAN /\ motion_ready' \in BOOLEAN
    BY <1>1, <1>2, Zenon
  <2>4. stored' \in Nat /\ settings' \in Nat /\ failures' \in Nat
    BY <1>1, <1>2
  <2>5. bound' \in [previous : Nat, current : Nat, textures : SUBSET Textures]
    BY <1>1, <1>11, Zenon
  <2> QED
    BY <1>4, <1>6, <1>9, <2>1, <2>2, <2>3, <2>4, <2>5, Zenon DEF PairTypeOK
<1>13. timing' \in Collectors /\ Accounted(timing)'
  BY <1>1 DEF PairInv, Accounted, Flying
<1> QED
  BY <1>7, <1>8, <1>9, <1>10, <1>12, <1>13 DEF PairInv

\* What a preparation leaves: the first disjunct of Prepare, with the pair that
\* is bound, and the second, a surface that could not be created.
LEMMA PrepareKeeps ==
    ASSUME PairInv, NEW mi \in Interpolators, Sound(mi), Calm(interpolator, mi),
           NEW pair \in Nat \X Nat, NEW continues \in BOOLEAN,
           continues /\ mi.prior_available => mi.field.pair[2] = pair[1],
           motion_enabled, Prepare(mi, pair, continues)
    PROVE  /\ interpolator' \in Interpolators /\ Sound(interpolator)'
           /\ interpolator'.prior_available =>
                  interpolator'.size = source_size /\ interpolator'.field.pair = pair
           /\ motion_ready' \in BOOLEAN /\ failures' \in Nat
           /\ timing' \in Collectors /\ Accounted(timing)'
<1>1. timing \in Collectors /\ Accounted(timing) /\ failures \in Nat /\ source_size \in SizeOrNone
  BY DEF PairInv, PairTypeOK
<1>2. CASE /\ interpolator' = PreparePair(mi, pair, source_size, continues)
           /\ motion_ready' = TRUE
           /\ \E ready \in ReadySets(timing) : timing' = End(Begin(Poll(timing, ready, {})))
           /\ UNCHANGED failures
  <2>1. PICK ready \in ReadySets(timing) : timing' = End(Begin(Poll(timing, ready, {})))
    BY <1>2
  <2>2. ready \in SUBSET Flying(timing) /\ {} \in SUBSET ready
    BY ReadyIsFlying
  <2> DEFINE c == Poll(timing, ready, {})
  <2>3. c \in Collectors /\ Accounted(c)
    BY <1>1, <2>2, PollKeeps
  <2> HIDE DEF c
  <2>4. End(Begin(c)) \in Collectors /\ Accounted(End(Begin(c)))
    BY <2>3, MeasureKeeps
  <2>5. timing' = End(Begin(c))
    BY <2>1 DEF c
  <2>6. timing' \in Collectors /\ Accounted(timing')
    BY <2>4, <2>5
  <2>7. Accounted(timing)'
    BY <2>6 DEF Accounted, Flying
  <2> DEFINE x == PreparePair(mi, pair, source_size, continues)
  <2>8. x \in Interpolators /\ Sound(x) /\ x.size = source_size /\ x.field.pair = pair
    BY <1>1, PrepareEffect
  <2>9. interpolator' = x
    BY <1>2
  <2> HIDE DEF x
  <2>10. Sound(interpolator)'
    BY <2>8, <2>9 DEF Sound
  <2>11. motion_ready' \in BOOLEAN /\ failures' \in Nat
    BY <1>1, <1>2
  <2> QED
    BY <2>6, <2>7, <2>8, <2>9, <2>10, <2>11
<1>3. CASE /\ mi.size # source_size
           /\ interpolator' = FailToCreate(mi, source_size)
           /\ motion_ready' = FALSE
           /\ timing' = Cancel(timing)
           /\ failures' = failures + 1
  <2>1. ~mi.prior_available
    BY <1>3 DEF Calm, PairInv, FieldIsBound
  <2> DEFINE x == FailToCreate(mi, source_size)
  <2>2. x \in Interpolators /\ Sound(x) /\ Calm(mi, x)
    BY <1>1, <2>1, FailKeeps
  <2>3. interpolator' = x
    BY <1>3
  <2> HIDE DEF x
  <2>4. interpolator' \in Interpolators /\ Sound(interpolator)' /\ ~interpolator'.prior_available
    BY <2>1, <2>2, <2>3 DEF Calm, Sound
  <2>5. timing' = timing
    BY <1>1, <1>3, CancelNothing
  <2>6. timing' \in Collectors /\ Accounted(timing)'
    BY <1>1, <2>5 DEF Accounted, Flying
  <2>7. failures' = failures + 1 /\ motion_ready' = FALSE
    BY <1>3, Zenon
  <2>8. failures' \in Nat
    <3>1. failures \in Nat /\ failures' = failures + 1
      BY <1>1, <2>7, Zenon
    <3> QED
      BY <3>1
  <2>9. motion_ready' \in BOOLEAN
    BY <2>7, Zenon
  <2> QED
    BY <2>4, <2>6, <2>8, <2>9, Zenon
<1> QED
  BY <1>2, <1>3 DEF Prepare

\* Two frames of the history are bound.
LEMMA BindKeeps ==
    ASSUME PairTypeOK, HistoryHolds, NEW f \in ToSet(history), NEW g \in ToSet(history),
           f.seq = g.seq => f = g, Bind(f, g), content' = content
    PROVE  /\ BoundHolds'
           /\ bound' \in [previous : Nat, current : Nat, textures : SUBSET Textures]
           /\ bound'.previous = f.seq /\ bound'.current = g.seq
<1>1. PICK i \in DOMAIN history, j \in DOMAIN history : f = history[i] /\ g = history[j]
  BY DEF ToSet
<1>2. /\ f.texture \in Textures /\ g.texture \in Textures
      /\ f.seq \in Nat \ {0} /\ g.seq \in Nat \ {0}
  BY <1>1, HistoryFacts
<1>3. content[f.texture] = f.seq /\ content[g.texture] = g.seq
  BY <1>1 DEF HistoryHolds
<1>4. /\ bound'.previous = f.seq /\ bound'.current = g.seq
      /\ bound'.textures = {f.texture, g.texture}
      /\ bound' \in [previous : Nat, current : Nat, textures : SUBSET Textures]
  BY <1>2 DEF Bind
<1>5. BoundHolds'
  BY <1>2, <1>3, <1>4 DEF BoundHolds
<1> QED
  BY <1>4, <1>5

\* A bound pair.
Bounds == [previous : Nat, current : Nat, textures : SUBSET Textures]

\* A step that stores no frame keeps the history's part of the invariant.
LEMMA PairStays ==
    ASSUME PairInv, UNCHANGED frame_vars, BoundHolds', bound' \in Bounds,
           has_pair' \in BOOLEAN, motion_enabled' \in BOOLEAN, motion_ready' \in BOOLEAN,
           interpolator' \in Interpolators, Sound(interpolator)', FieldIsBound',
           settings' \in Nat, failures' \in Nat, timing' \in Collectors, Accounted(timing)'
    PROVE  PairInv'
<1>1. /\ source_size' = source_size /\ history' = history /\ recycled' = recycled
      /\ content' = content /\ stored' = stored
  BY DEF frame_vars
<1>2. PairTypeOK'
  BY <1>1, Zenon DEF PairInv, PairTypeOK, Bounds
<1>3. HistoryHolds'
  BY <1>1 DEF PairInv, HistoryHolds
<1> QED
  BY <1>2, <1>3 DEF PairInv

\* What the invariant says of variables that a step may leave alone.
LEMMA PairFacts ==
    ASSUME PairInv
    PROVE  /\ BoundHolds /\ bound \in Bounds /\ has_pair \in BOOLEAN
           /\ motion_enabled \in BOOLEAN /\ motion_ready \in BOOLEAN
           /\ interpolator \in Interpolators /\ Sound(interpolator) /\ FieldIsBound
           /\ Calm(interpolator, interpolator)
           /\ settings \in Nat /\ failures \in Nat /\ timing \in Collectors /\ Accounted(timing)
<1>1. Calm(interpolator, interpolator)
  BY DEF Calm
<1> QED
  BY <1>1, Zenon DEF PairInv, PairTypeOK, Bounds

\* The bound pair stays as it is.
LEMMA BoundUnchanged ==
    ASSUME BoundHolds, bound' = bound, content' = content
    PROVE  BoundHolds'
BY DEF BoundHolds

\* The collector stays as it is.
LEMMA TimingUnchanged ==
    ASSUME timing \in Collectors, Accounted(timing), timing' = timing
    PROVE  timing' \in Collectors /\ Accounted(timing)'
BY DEF Accounted, Flying

\* A pair that starts where the last one ended may be seeded by its field, and with
\* motion off no field is left that could.
LEMMA SelectFramePairKeeps ==
    ASSUME PairInv, NEW current \in 2..stored, SelectFramePair(current)
    PROVE  PairInv'
<1>1. stored \in Nat /\ current \in Nat /\ current - 1 \in Nat /\ current - 1 # current
  BY DEF PairInv, PairTypeOK
<1>2. PICK f \in FindHistoryFrame(current - 1), g \in FindHistoryFrame(current) :
        /\ Bind(f, g)
        /\ has_pair' = TRUE
        /\ IF motion_enabled
           THEN Prepare(interpolator, <<current - 1, current>>, Continues(current - 1))
           ELSE motion_ready' = FALSE /\ UNCHANGED <<interpolator, timing, failures>>
  BY DEF SelectFramePair
<1>3. f \in ToSet(history) /\ f.seq = current - 1 /\ g \in ToSet(history) /\ g.seq = current
  BY DEF FindHistoryFrame
<1>4. UNCHANGED frame_vars /\ motion_enabled' = motion_enabled /\ settings' = settings
  BY DEF SelectFramePair
<1>5. content' = content /\ source_size' = source_size
  BY <1>4 DEF frame_vars
<1>6. /\ BoundHolds' /\ bound' \in Bounds
      /\ bound'.previous = current - 1 /\ bound'.current = current
  BY <1>1, <1>2, <1>3, <1>5, BindKeeps DEF PairInv, Bounds
<1>7. has_pair' \in BOOLEAN /\ motion_enabled' \in BOOLEAN /\ settings' \in Nat
  BY <1>2, <1>4, PairFacts, Zenon
<1>8. CASE motion_enabled
  <2> DEFINE pair == <<current - 1, current>>
             continues == Continues(current - 1)
  <2>1. Prepare(interpolator, pair, continues)
    BY <1>2, <1>8
  <2>2. pair \in Nat \X Nat /\ pair[1] = current - 1 /\ continues \in BOOLEAN
    BY <1>1 DEF Continues
  <2>3. continues /\ interpolator.prior_available => interpolator.field.pair[2] = pair[1]
    BY <2>2, PairFacts DEF Continues, FieldIsBound
  <2> HIDE DEF pair, continues
  <2>4. /\ interpolator' \in Interpolators /\ Sound(interpolator)'
        /\ interpolator'.prior_available =>
               interpolator'.size = source_size /\ interpolator'.field.pair = pair
        /\ motion_ready' \in BOOLEAN /\ failures' \in Nat
        /\ timing' \in Collectors /\ Accounted(timing)'
    BY <1>8, <2>1, <2>2, <2>3, PairFacts, PrepareKeeps
  <2>5. pair = <<bound'.previous, bound'.current>>
    BY <1>6 DEF pair
  <2>6. FieldIsBound'
    BY <1>4, <1>5, <1>8, <2>4, <2>5 DEF FieldIsBound
  <2> QED
    BY <1>4, <1>6, <1>7, <2>4, <2>6, PairStays
<1>9. CASE ~motion_enabled
  <2>1. motion_ready' = FALSE /\ interpolator' = interpolator /\ timing' = timing
        /\ failures' = failures
    BY <1>2, <1>9
  <2>2. ~interpolator'.prior_available
    BY <1>9, <2>1, PairFacts DEF FieldIsBound
  <2>3. FieldIsBound'
    BY <2>2, EndedFieldIsBound
  <2>4. /\ interpolator' \in Interpolators /\ Sound(interpolator)'
        /\ timing' \in Collectors /\ Accounted(timing)'
    BY <2>1, PairFacts, TimingUnchanged DEF Sound
  <2>5. motion_ready' \in BOOLEAN /\ failures' \in Nat
    BY <2>1, PairFacts, Zenon
  <2> QED
    BY <1>4, <1>6, <1>7, <2>3, <2>4, <2>5, PairStays
<1> QED
  BY <1>8, <1>9

\* A real frame leaves no pair that a later one could continue.
LEMMA SelectRealFrameKeeps ==
    ASSUME PairInv, NEW current \in 1..stored, SelectRealFrame(current)
    PROVE  PairInv'
<1>1. PICK f \in FindHistoryFrame(current) : Bind(f, f)
  BY DEF SelectRealFrame
<1>2. f \in ToSet(history)
  BY DEF FindHistoryFrame
<1>3. /\ UNCHANGED frame_vars /\ has_pair' = FALSE /\ motion_ready' = FALSE
      /\ interpolator' = interpolator /\ timing' = timing /\ failures' = failures
      /\ motion_enabled' = motion_enabled /\ settings' = settings
  BY DEF SelectRealFrame
<1>4. content' = content /\ source_size' = source_size
  BY <1>3 DEF frame_vars
<1>5. BoundHolds' /\ bound' \in Bounds
  BY <1>1, <1>2, <1>4, BindKeeps DEF PairInv, Bounds
<1>6. FieldIsBound'
  BY <1>3, <1>4, PairFacts DEF FieldIsBound
<1>7. /\ interpolator' \in Interpolators /\ Sound(interpolator)'
      /\ timing' \in Collectors /\ Accounted(timing)'
  BY <1>3, PairFacts, TimingUnchanged DEF Sound
<1>8. /\ has_pair' \in BOOLEAN /\ motion_enabled' \in BOOLEAN /\ motion_ready' \in BOOLEAN
      /\ settings' \in Nat /\ failures' \in Nat
  BY <1>3, PairFacts, Zenon
<1> QED
  BY <1>3, <1>5, <1>6, <1>7, <1>8, PairStays

\* A step on the interpolator alone, with the frames and the bound pair as they
\* were.
LEMMA SettingKeeps ==
    ASSUME PairInv, UNCHANGED <<frame_vars, bound_vars, timing, failures>>,
           NEW x \in Interpolators, Sound(x), interpolator' = x,
           \/ Calm(interpolator, x) /\ motion_enabled' = motion_enabled
           \/ ~x.prior_available,
           motion_enabled' \in BOOLEAN, motion_ready' \in BOOLEAN, settings' \in Nat
    PROVE  PairInv'
<1>1. /\ UNCHANGED frame_vars /\ content' = content /\ source_size' = source_size
      /\ bound' = bound /\ has_pair' = has_pair /\ timing' = timing /\ failures' = failures
  BY DEF frame_vars, bound_vars
<1>2. BoundHolds' /\ bound' \in Bounds /\ has_pair' \in BOOLEAN /\ failures' \in Nat
  BY <1>1, PairFacts, BoundUnchanged, Zenon
<1>3. FieldIsBound'
  BY <1>1, PairFacts, FieldStaysBound, EndedFieldIsBound
<1>4. Sound(interpolator)'
  BY DEF Sound
<1>5. timing' \in Collectors /\ Accounted(timing)'
  BY <1>1, PairFacts, TimingUnchanged
<1> QED
  BY <1>1, <1>2, <1>3, <1>4, <1>5, PairStays

\* A setter is counted.
LEMMA SetterCounts ==
    ASSUME PairInv, Setter
    PROVE  settings' \in Nat
BY PairFacts DEF Setter

\* Switching motion on or off withdraws the field.
LEMMA SetMotionEnabledKeeps ==
    ASSUME PairInv, NEW enabled \in BOOLEAN, SetMotionEnabled(enabled)
    PROVE  PairInv'
<1> DEFINE x == Reset(interpolator)
<1>1. /\ UNCHANGED <<frame_vars, bound_vars, timing, failures>>
      /\ motion_enabled' = enabled /\ motion_ready' = FALSE /\ interpolator' = x /\ Setter
  BY DEF SetMotionEnabled
<1>2. x \in Interpolators /\ Sound(x) /\ ~x.prior_available
  BY PairFacts, ResetKeeps
<1>3. motion_enabled' \in BOOLEAN /\ motion_ready' \in BOOLEAN
  BY <1>1, Zenon
<1>4. settings' \in Nat
  BY <1>1, SetterCounts
<1> HIDE DEF x
<1> QED
  BY <1>1, <1>2, <1>3, <1>4, SettingKeeps

\* A mask re-prepares the bound pair, seeded by nothing.
LEMMA SetMaskKeeps ==
    ASSUME PairInv, NEW uploaded \in BOOLEAN, SetMask(uploaded)
    PROVE  PairInv'
<1> DEFINE mi == IF uploaded THEN SetUiMask(interpolator, interpolator.mask + 1)
                 ELSE interpolator
<1>1. /\ UNCHANGED <<frame_vars, bound_vars, motion_enabled>> /\ Setter
      /\ IF has_pair /\ motion_enabled
         THEN Prepare(mi, <<bound.previous, bound.current>>, FALSE)
         ELSE /\ interpolator' = mi
              /\ motion_ready' = FALSE
              /\ UNCHANGED <<timing, failures>>
  BY DEF SetMask
<1>2. mi \in Interpolators /\ Sound(mi) /\ Calm(interpolator, mi)
  BY PairFacts, SetUiMaskKeeps
<1>3. settings' \in Nat
  BY <1>1, SetterCounts
<1> HIDE DEF mi
<1>4. CASE has_pair /\ motion_enabled
  <2> DEFINE pair == <<bound.previous, bound.current>>
  <2>1. pair \in Nat \X Nat
    BY PairFacts DEF Bounds
  <2>2. Prepare(mi, pair, FALSE)
    BY <1>1, <1>4
  <2>3. /\ UNCHANGED frame_vars /\ content' = content /\ source_size' = source_size
        /\ bound' = bound /\ has_pair' = has_pair /\ motion_enabled' = motion_enabled
    BY <1>1 DEF frame_vars, bound_vars
  <2>4. pair = <<bound'.previous, bound'.current>>
    BY <2>3
  <2> HIDE DEF pair
  <2>5. /\ interpolator' \in Interpolators /\ Sound(interpolator)'
        /\ interpolator'.prior_available =>
               interpolator'.size = source_size /\ interpolator'.field.pair = pair
        /\ motion_ready' \in BOOLEAN /\ failures' \in Nat
        /\ timing' \in Collectors /\ Accounted(timing)'
    <3>1. FALSE \in BOOLEAN
      OBVIOUS
    <3> QED
      BY <1>2, <1>4, <2>1, <2>2, <3>1, PrepareKeeps, Zenon
  <2>6. FieldIsBound'
    BY <1>4, <2>3, <2>4, <2>5 DEF FieldIsBound
  <2>7. BoundHolds' /\ bound' \in Bounds /\ has_pair' \in BOOLEAN /\ motion_enabled' \in BOOLEAN
    BY <2>3, PairFacts, BoundUnchanged, Zenon
  <2> QED
    BY <1>3, <2>3, <2>5, <2>6, <2>7, PairStays
<1>5. CASE ~(has_pair /\ motion_enabled)
  <2>1. /\ interpolator' = mi /\ motion_ready' = FALSE
        /\ UNCHANGED <<frame_vars, bound_vars, timing, failures>>
        /\ motion_enabled' = motion_enabled
    BY <1>1, <1>5
  <2>2. motion_enabled' \in BOOLEAN /\ motion_ready' \in BOOLEAN
    BY <2>1, PairFacts, Zenon
  <2> QED
    BY <1>2, <1>3, <2>1, <2>2, SettingKeeps
<1> QED
  BY <1>4, <1>5

\* The settings that end the pair.
LEMMA ChangeMotionKeeps ==
    ASSUME PairInv, ChangeMotion
    PROVE  PairInv'
<1>1. /\ UNCHANGED <<frame_vars, bound_vars, timing, failures>>
      /\ motion_enabled' = motion_enabled /\ motion_ready' = FALSE /\ Setter
      /\ interpolator' \in {SetAutoUiMaskEnabled(interpolator, ~interpolator.auto),
                            SetPerformanceMode(interpolator),
                            SetFlowScale(interpolator)}
  BY DEF ChangeMotion
<1>2. PICK x : /\ interpolator' = x
               /\ x \in Interpolators /\ Sound(x) /\ Calm(interpolator, x)
  <2>1. (~interpolator.auto) \in BOOLEAN
    OBVIOUS
  <2>2. LET x == SetAutoUiMaskEnabled(interpolator, ~interpolator.auto)
        IN  x \in Interpolators /\ Sound(x) /\ Calm(interpolator, x)
    BY <2>1, PairFacts, SetAutoKeeps
  <2>3. LET x == SetPerformanceMode(interpolator)
        IN  x \in Interpolators /\ Sound(x) /\ Calm(interpolator, x)
    BY PairFacts, SetModeKeeps
  <2>4. LET x == SetFlowScale(interpolator)
        IN  x \in Interpolators /\ Sound(x) /\ Calm(interpolator, x)
    BY PairFacts, SetScaleKeeps
  <2> QED
    BY <1>1, <2>2, <2>3, <2>4
<1>3. motion_enabled' \in BOOLEAN /\ motion_ready' \in BOOLEAN
  BY <1>1, PairFacts, Zenon
<1>4. settings' \in Nat
  BY <1>1, SetterCounts
<1> QED
  BY <1>1, <1>2, <1>3, <1>4, SettingKeeps

\* The setting of the prior keeps the pair.
LEMMA SetPriorKeepsPair ==
    ASSUME PairInv, SetPrior
    PROVE  PairInv'
<1> DEFINE x == SetTemporalPriorEnabled(interpolator, ~interpolator.prior_enabled)
<1>1. /\ UNCHANGED <<frame_vars, bound_vars, timing, failures>>
      /\ motion_enabled' = motion_enabled /\ motion_ready' = motion_ready /\ Setter
      /\ interpolator' = x
  BY DEF SetPrior
<1>2. x \in Interpolators /\ Sound(x) /\ Calm(interpolator, x)
  <2>1. (~interpolator.prior_enabled) \in BOOLEAN
    OBVIOUS
  <2> QED
    BY <2>1, PairFacts, SetPriorKeeps
<1>3. motion_enabled' \in BOOLEAN /\ motion_ready' \in BOOLEAN
  BY <1>1, PairFacts, Zenon
<1>4. settings' \in Nat
  BY <1>1, SetterCounts
<1> HIDE DEF x
<1> QED
  BY <1>1, <1>2, <1>3, <1>4, SettingKeeps

\* A frame of either kind.
LEMMA StoreCapturedFrameKeeps ==
    ASSUME PairInv, NEW size \in Sizes, StoreCapturedFrame(size)
    PROVE  PairInv'
<1>1. stored' = stored + 1 /\ motion_enabled' = motion_enabled /\ settings' = settings
  BY DEF StoreCapturedFrame
<1>2. CASE size = source_size
  <2>1. StoreSameSize
    BY <1>2 DEF StoreCapturedFrame
  <2>2. PairTypeOK' /\ HistoryHolds' /\ BoundHolds'
    BY <1>1, <2>1, StoreSameSizeKeeps DEF PairInv
  <2>3. /\ source_size' = source_size /\ bound' = bound /\ has_pair' = has_pair
        /\ interpolator' = interpolator /\ timing' = timing
    BY <2>1 DEF StoreSameSize, bound_vars, motion_vars
  <2>4. Sound(interpolator)' /\ FieldIsBound'
    BY <1>1, <2>3, PairFacts DEF Sound, FieldIsBound
  <2>5. timing' \in Collectors /\ Accounted(timing)'
    BY <2>3, PairFacts, TimingUnchanged
  <2> QED
    BY <2>2, <2>4, <2>5 DEF PairInv
<1>3. CASE size # source_size
  <2>1. StoreNewSize(size)
    BY <1>3 DEF StoreCapturedFrame
  <2> QED
    BY <1>1, <2>1, StoreNewSizeKeeps
<1> QED
  BY <1>2, <1>3

\* Reading the timings changes only the collector.
LEMMA PollGpuTimingsKeeps ==
    ASSUME PairInv, PollGpuTimings
    PROVE  PairInv'
<1>0. PICK ready \in ReadySets(timing) :
          \E spoiled \in SUBSET ready : timing' = Poll(timing, ready, spoiled)
  BY DEF PollGpuTimings
<1>1. PICK spoiled \in SUBSET ready : timing' = Poll(timing, ready, spoiled)
  BY <1>0
<1>2. ready \in SUBSET Flying(timing)
  BY ReadyIsFlying
<1> DEFINE c == Poll(timing, ready, spoiled)
<1>3. c \in Collectors /\ Accounted(c)
  BY <1>2, PairFacts, PollKeeps
<1>4. timing' = c
  BY <1>1
<1> HIDE DEF c
<1>5. timing' \in Collectors /\ Accounted(timing)'
  BY <1>3, <1>4 DEF Accounted, Flying
<1>6. /\ UNCHANGED frame_vars /\ content' = content /\ source_size' = source_size
      /\ bound' = bound /\ has_pair' = has_pair /\ motion_ready' = motion_ready
      /\ interpolator' = interpolator /\ failures' = failures
      /\ motion_enabled' = motion_enabled /\ settings' = settings
  BY DEF PollGpuTimings, frame_vars, bound_vars
<1>7. /\ bound' \in Bounds /\ has_pair' \in BOOLEAN /\ motion_enabled' \in BOOLEAN
      /\ motion_ready' \in BOOLEAN /\ interpolator' \in Interpolators
      /\ settings' \in Nat /\ failures' \in Nat
  BY <1>6, PairFacts, Zenon
<1>8. BoundHolds' /\ Sound(interpolator)' /\ FieldIsBound'
  BY <1>6, PairFacts, BoundUnchanged DEF Sound, FieldIsBound
<1> QED
  BY <1>5, <1>6, <1>7, <1>8, PairStays

\* Before the first frame nothing is bound, estimated or measured.
LEMMA PairInit == Init => PairInv
<1> SUFFICES ASSUME Init PROVE PairInv
  OBVIOUS
<1>1. NotBound \in Bounds
  BY DEF NotBound, Bounds
<1>2. NoPair \in SizeOrNone /\ NoPair \in FieldOrNone
  BY DEF SizeOrNone, FieldOrNone
<1>3. PICK auto \in BOOLEAN : interpolator = [NewInterpolator EXCEPT !.auto = auto]
  BY DEF Init
<1>4. ASSUME NEW d \in Detectors
      PROVE  \A a \in BOOLEAN, t \in BOOLEAN, f \in BOOLEAN :
                 [size |-> NoPair, ready |-> f, prior_enabled |-> t, prior_available |-> f,
                  mask |-> 0, auto |-> a, index |-> 0, pending |-> f, detector |-> d,
                  field |-> NoPair, prepared |-> 0] \in Interpolators
  BY <1>2 DEF Interpolators
<1>5. /\ interpolator = [size |-> NoPair, ready |-> FALSE, prior_enabled |-> TRUE,
                         prior_available |-> FALSE, mask |-> 0, auto |-> auto, index |-> 0,
                         pending |-> FALSE, detector |-> ClearedDetector,
                         field |-> NoPair, prepared |-> 0]
  BY <1>3 DEF NewInterpolator, ClearedDetector
<1>6. interpolator \in Interpolators
  <2>1. TRUE \in BOOLEAN /\ FALSE \in BOOLEAN
    OBVIOUS
  <2> QED
    BY <1>4, <1>5, <2>1, ClearedIsDetector, Zenon
<1>7. /\ ~interpolator.ready /\ ~interpolator.prior_available
      /\ interpolator.prepared = 0 /\ interpolator.field = NoPair
      /\ interpolator.detector = ClearedDetector
  BY <1>5
<1>8. Sound(interpolator)
  <2>1. \A i \in 0..1 : interpolator.detector[i] <= interpolator.prepared
    BY <1>7, ClearedIsDetector
  <2> QED
    BY <1>7, <2>1 DEF Sound
<1>9. FieldIsBound
  BY <1>7 DEF FieldIsBound
<1>10. PairTypeOK
  <2>1. /\ history = <<>> /\ recycled = <<>> /\ content = [t \in Textures |-> 0]
        /\ stored = 0 /\ settings = 0 /\ failures = 0
        /\ MaxHistory \in Nat
    BY MotionPairAssumption DEF Init, MotionPairAssumption
  <2>2. /\ history \in Seq(Entry) /\ Len(history) <= MaxHistory /\ recycled \in Seq(Textures)
        /\ content \in [Textures -> Nat]
        /\ stored \in Nat /\ settings \in Nat /\ failures \in Nat
    BY <2>1
  <2>3. has_pair \in BOOLEAN /\ motion_enabled \in BOOLEAN /\ motion_ready \in BOOLEAN
    BY Zenon DEF Init
  <2>4. source_size \in SizeOrNone /\ bound \in Bounds
    BY <1>1, <1>2 DEF Init
  <2> QED
    BY <1>6, <2>2, <2>3, <2>4, Zenon DEF PairTypeOK, Bounds
<1>11. HistoryHolds /\ BoundHolds
  BY DEF Init, HistoryHolds, BoundHolds
<1>12. timing \in Collectors /\ Accounted(timing)
  BY NewIsAccounted DEF Init
<1> QED
  BY <1>6, <1>8, <1>9, <1>10, <1>11, <1>12 DEF PairInv

\* Every step keeps the invariant.
LEMMA PairStep == PairInv /\ [Next]_vars => PairInv'
<1> SUFFICES ASSUME PairInv, [Next]_vars PROVE PairInv'
  OBVIOUS
<1>1. CASE \E size \in Sizes : StoreCapturedFrame(size)
  BY <1>1, StoreCapturedFrameKeeps
<1>2. CASE \E seq \in 2..stored : SelectFramePair(seq)
  BY <1>2, SelectFramePairKeeps
<1>3. CASE \E seq \in 1..stored : SelectRealFrame(seq)
  BY <1>3, SelectRealFrameKeeps
<1>4. CASE \E enabled \in BOOLEAN : SetMotionEnabled(enabled)
  BY <1>4, SetMotionEnabledKeeps
<1>5. CASE \E uploaded \in BOOLEAN : SetMask(uploaded)
  BY <1>5, SetMaskKeeps
<1>6. CASE ChangeMotion
  BY <1>6, ChangeMotionKeeps
<1>7. CASE SetPrior
  BY <1>7, SetPriorKeepsPair
<1>8. CASE PollGpuTimings
  BY <1>8, PollGpuTimingsKeeps
<1>9. CASE UNCHANGED vars
  <2>1. /\ UNCHANGED frame_vars /\ content' = content /\ source_size' = source_size
        /\ bound' = bound /\ has_pair' = has_pair /\ motion_ready' = motion_ready
        /\ interpolator' = interpolator /\ failures' = failures /\ timing' = timing
        /\ motion_enabled' = motion_enabled /\ settings' = settings
    BY <1>9 DEF vars, frame_vars, bound_vars, motion_vars
  <2>2. /\ bound' \in Bounds /\ has_pair' \in BOOLEAN /\ motion_enabled' \in BOOLEAN
        /\ motion_ready' \in BOOLEAN /\ interpolator' \in Interpolators
        /\ settings' \in Nat /\ failures' \in Nat
    BY <2>1, PairFacts, Zenon
  <2>3. BoundHolds' /\ Sound(interpolator)' /\ FieldIsBound'
    BY <2>1, PairFacts, BoundUnchanged DEF Sound, FieldIsBound
  <2>4. timing' \in Collectors /\ Accounted(timing)'
    BY <2>1, PairFacts, TimingUnchanged
  <2> QED
    BY <2>1, <2>2, <2>3, <2>4, PairStays
<1> QED
  BY <1>1, <1>2, <1>3, <1>4, <1>5, <1>6, <1>7, <1>8, <1>9 DEF Next

--------------------------------------------------------------------------------
(****************************************************************************)
(* The theorems about the pairs.                                              *)
(****************************************************************************)

\* The inductive invariant of the renderer's pairs holds in every reachable state.
THEOREM PairInvariantHolds == Spec => []PairInv
<1> QED
  BY PairInit, PairStep, PTL DEF Spec

\* The type invariant of the frames, the bound pair and the interpolator.
THEOREM PairTypeCorrect == Spec => []PairTypeOK
<1>1. PairInv => PairTypeOK
  BY DEF PairInv
<1> QED
  BY <1>1, PairInvariantHolds, PTL

\* A bound texture holds the frame it was bound for, also after that frame left the
\* history and its texture was recycled (StoreCapturedFrame).
THEOREM BoundFramesAreKept == Spec => []BoundFramesKept
<1>1. PairInv => BoundFramesKept
  <2> SUFFICES ASSUME PairInv PROVE BoundFramesKept
    OBVIOUS
  <2>1. BoundHolds
    BY DEF PairInv
  <2>2. CASE bound = NotBound
    <3>1. bound.textures = {} /\ bound.previous = 0 /\ bound.current = 0
      BY <2>2 DEF NotBound
    <3>2. {bound.previous, bound.current} \ {0} = {}
      BY <3>1
    <3>3. Cardinality(bound.textures) = Cardinality({bound.previous, bound.current} \ {0})
      BY <3>1, <3>2
    <3> QED
      BY <3>1, <3>3 DEF BoundFramesKept
  <2>3. CASE bound # NotBound
    <3>1. PICK a \in Textures, b \in Textures :
              /\ bound.textures = {a, b}
              /\ content[a] = bound.previous /\ content[b] = bound.current
              /\ bound.previous # 0 /\ bound.current # 0
              /\ bound.previous = bound.current => a = b
      BY <2>1, <2>3 DEF BoundHolds
    <3>2. {bound.previous, bound.current} \ {0} = {bound.previous, bound.current}
      BY <3>1
    <3>3. \A x, y : x # y => Cardinality({x, y}) = 2
      <4>1. TAKE x, y
      <4>2. HAVE x # y
      <4>3. IsFiniteSet({x}) /\ Cardinality({x}) = 1
        BY FS_Singleton
      <4>4. Cardinality({x} \cup {y}) = Cardinality({x}) + 1
        BY <4>2, <4>3, FS_AddElement
      <4>5. {x} \cup {y} = {x, y}
        OBVIOUS
      <4> QED
        BY <4>3, <4>4, <4>5
    <3>4. \A x : Cardinality({x, x}) = 1
      <4>1. TAKE x
      <4>2. {x, x} = {x}
        OBVIOUS
      <4> QED
        BY <4>2, FS_Singleton
    <3>5. Cardinality({a, b}) = Cardinality({bound.previous, bound.current})
      <4>1. CASE a = b
        BY <3>1, <3>4, <4>1
      <4>2. CASE a # b
        <5>1. bound.previous # bound.current
          BY <3>1, <4>2
        <5> QED
          BY <3>3, <4>2, <5>1
      <4> QED
        BY <4>1, <4>2
    <3>6. Cardinality(bound.textures) = Cardinality({bound.previous, bound.current} \ {0})
      BY <3>1, <3>2, <3>5
    <3>7. {content[t] : t \in bound.textures} \subseteq {bound.previous, bound.current}
      BY <3>1
    <3> QED
      BY <3>1, <3>6, <3>7 DEF BoundFramesKept
  <2> QED
    BY <2>2, <2>3
<1> QED
  BY <1>1, PairInvariantHolds, PTL

\* A search is seeded only by the field of the pair that ended on the pair's first
\* frame (PreparePair).
THEOREM PriorAlwaysContinues == Spec => []PriorContinues
<1>1. PairInv => PriorContinues
  BY DEF PairInv, Sound, PriorContinues
<1> QED
  BY <1>1, PairInvariantHolds, PTL

\* What is drawn was estimated from the bound frames, under the mask and the detector
\* setting that hold (Render).
THEOREM DrawnFieldIsOfTheBoundPair == Spec => []DrawnFieldIsCurrent
<1>1. PairInv => DrawnFieldIsCurrent
  BY DEF PairInv, Sound, FieldIsBound, MotionDrawn, DrawnFieldIsCurrent
<1> QED
  BY <1>1, PairInvariantHolds, PTL

\* The fusion reads the detector state its flow was estimated under, and that of an
\* earlier pair (PreparePair).
THEOREM FusionReadsTheFlowsState == Spec => []DetectorStateAgrees
<1>1. PairInv => DetectorStateAgrees
  BY DEF PairInv, Sound, MotionDrawn, DetectorStateAgrees
<1> QED
  BY <1>1, PairInvariantHolds, PTL

\* No measurement is lost or sampled twice, in whatever order the slots are read
\* (GpuTimestampCollector).
THEOREM MeasurementsAreAccounted == Spec => []MeasurementsAccounted
<1>1. PairInv => MeasurementsAccounted
  BY AccountedIsProperty DEF PairInv
<1> QED
  BY <1>1, PairInvariantHolds, PTL

--------------------------------------------------------------------------------
(****************************************************************************)
(* The cells of the overlay detector.                                         *)
(****************************************************************************)

\* Why the mask is earned.  A cell that has just moved holds what a fall
\* left of its score, and nothing was dilated into it; a cell that held
\* still holds its score or that of a cell near it on the surface read.
Earning ==
    \A c \in Cells :
        /\ moved[c] > 0 => fresh[c].dilated = fresh[c].score
        /\ moved[c] > 0 => fresh[c].score <= Saturate(Full - Fall)
        /\ moved[c] = 2 => fresh[c].score <= Saturate(Full - 2 * Fall)
        /\ \/ fresh[c].dilated = fresh[c].score
           \/ \E n \in Near[c] : fresh[c].dilated = published[n].score

DetectorInv == TypeOK /\ Earning

\* The score stays between its ends.
LEMMA SaturateBounds ==
    ASSUME NEW x \in Int
    PROVE  Saturate(x) \in 0..Full
BY DetectorAssumption, SMT DEF Saturate

\* Saturation keeps the order.
LEMMA SaturateMonotone ==
    ASSUME NEW x \in Int, NEW y \in Int, x <= y
    PROVE  Saturate(x) <= Saturate(y)
BY DetectorAssumption, SMT DEF Saturate

\* A cell that moves falls.
LEMMA MovedFalls ==
    ASSUME NEW x \in Int, NEW evidence
    PROVE  Score(x, FALSE, evidence) = Saturate(x - Fall)
<1>1. ~(FALSE /\ evidence > Threshold)
  OBVIOUS
<1>2. Score(x, FALSE, evidence) = Saturate(x + (-Fall))
  BY <1>1, Zenon DEF Score
<1>3. x + (-Fall) = x - Fall
  BY DetectorAssumption, SMT
<1> QED
  BY <1>2, <1>3, Zenon

\* A score is between its ends, whatever was seen.
LEMMA ScoreBounds ==
    ASSUME NEW x \in Int, NEW still \in BOOLEAN, NEW evidence
    PROVE  Score(x, still, evidence) \in 0..Full
<1>1. (IF still /\ evidence > Threshold THEN Rise ELSE -Fall) \in Int
  BY DetectorAssumption, SMT
<1> QED
  BY <1>1, SaturateBounds, SMT DEF Score

\* The dilation takes the score of some cell near this one: a greatest
\* score exists, for what lacks to a full one has a least.
LEMMA BestIsNear ==
    ASSUME NEW surface \in [Cells -> Sample], NEW c \in Cells
    PROVE  \E n \in Near[c] : NeighbourBest(surface, c) = surface[n].score
<1> DEFINE Lacks == {Full - surface[n].score : n \in Near[c]}
<1>1. /\ c \in Near[c] /\ Near[c] \subseteq Cells /\ Full \in Nat
      /\ \A n \in Near[c] : surface[n].score \in 0..Full
  BY DetectorAssumption DEF Sample
<1>2. Lacks \subseteq Nat /\ Lacks # {}
  BY <1>1
<1>3. PICK least \in Lacks : \A l \in Lacks : ~(<<l, least>> \in NatOrder)
  <2> HIDE DEF Lacks
  <2> QED
    BY <1>2, NatOrderWellFounded, WFMin
<1>4. PICK m \in Near[c] : least = Full - surface[m].score
  BY <1>3
<1>5. ASSUME NEW n \in Near[c]
      PROVE  surface[n].score <= surface[m].score
  <2>1. Full - surface[n].score \in Lacks
    OBVIOUS
  <2>2. ~(<<Full - surface[n].score, least>> \in NatOrder)
    BY <2>1, <1>3, Zenon
  <2>3. Full - surface[n].score \in Nat /\ least \in Nat
    BY <1>2, <2>1
  <2>4. ~(Full - surface[n].score < least)
    BY <2>2, <2>3 DEF NatOrder
  <2> QED
    BY <1>1, <1>4, <2>3, <2>4
<1>6. \E best \in {surface[n].score : n \in Near[c]} :
          \A n \in Near[c] : surface[n].score <= best
  BY <1>5
<1>7. NeighbourBest(surface, c) \in {surface[n].score : n \in Near[c]}
  BY <1>6, Zenon DEF NeighbourBest
<1> QED
  BY <1>7

\* What one cell of a dispatch may write, given the surface it read.
FitsCell(cell, surface, c, still) ==
    /\ cell \in Sample
    /\ ~still => /\ cell.dilated = cell.score
                 /\ cell.score = Saturate(surface[c].score - Fall)
    /\ \/ cell.dilated = cell.score
       \/ \E n \in Near[c] : cell.dilated = surface[n].score

\* One cell of a dispatch: what is written is well typed; a cell that moved
\* takes nothing from its neighbours and falls; one that was still holds
\* its score or one that was read near it.
LEMMA UpdatedCell ==
    ASSUME NEW surface \in [Cells -> Sample], NEW c \in Cells,
           NEW still \in BOOLEAN, NEW seen \in Nat
    PROVE  FitsCell(Updated(surface, c, still, seen), surface, c, still)
<1> DEFINE evidence == Evidence(seen, surface[c].evidence)
           score == Score(surface[c].score, still, evidence)
           best == NeighbourBest(surface, c)
           cell == Updated(surface, c, still, seen)
<1>1. surface[c].score \in 0..Full /\ surface[c].evidence \in Nat /\ Full \in Nat
  BY DetectorAssumption DEF Sample
<1>2. evidence \in Nat
  <2>1. (4 * surface[c].evidence) \div 5 \in Nat
    BY <1>1, SMT
  <2> QED
    BY <2>1, SMT DEF Evidence, Greater
<1>3. score \in 0..Full
  BY <1>1, ScoreBounds
<1>4. PICK n \in Near[c] : best = surface[n].score
  BY BestIsNear
<1>5. best \in 0..Full
  BY <1>4, DetectorAssumption DEF Sample
<1>6. cell = [score |-> score,
              dilated |-> IF still THEN Greater(score, best) ELSE score,
              evidence |-> evidence]
  BY DEF Updated
<1>7. Greater(score, best) \in {score, best}
  BY Zenon DEF Greater
<1>8. cell \in Sample
  <2> HIDE DEF evidence, score, best, cell
  <2> QED
    BY <1>2, <1>3, <1>5, <1>6, <1>7 DEF Sample
<1>9. ~still => score = Saturate(surface[c].score - Fall)
  <2> SUFFICES ASSUME ~still PROVE score = Saturate(surface[c].score - Fall)
    OBVIOUS
  <2>1. still = FALSE
    OBVIOUS
  <2>2. surface[c].score \in Int
    BY <1>1
  <2>3. Score(surface[c].score, FALSE, evidence) = Saturate(surface[c].score - Fall)
    BY <2>2, MovedFalls, Zenon
  <2> QED
    BY <2>1, <2>3, Zenon
<1> HIDE DEF evidence, score, best, cell
<1>10. \/ cell.dilated = cell.score
       \/ cell.dilated = surface[n].score
  BY <1>4, <1>6, <1>7
<1>11. ~still => cell.dilated = cell.score /\ cell.score = Saturate(surface[c].score - Fall)
  BY <1>6, <1>9
<1> QED
  <2>1. FitsCell(cell, surface, c, still)
    BY <1>8, <1>10, <1>11, Zenon DEF FitsCell
  <2> QED
    BY <2>1 DEF cell

\* Nothing is masked before the first pair.
LEMMA ClearedIsEarned == DetectorInit => DetectorInv
<1> SUFFICES ASSUME DetectorInit PROVE DetectorInv
  OBVIOUS
<1>1. Full \in Nat
  BY DetectorAssumption
<1>2. ClearedSurface \in [Cells -> Sample]
  BY <1>1 DEF ClearedSurface, Sample
<1>3. TypeOK
  BY <1>2 DEF DetectorInit, TypeOK
<1>4. Earning
  BY DEF DetectorInit, Earning, ClearedSurface
<1> QED
  BY <1>3, <1>4 DEF DetectorInv

\* A pair: the surface that was written is read, and written anew.
LEMMA DetectPairPreserves ==
    ASSUME DetectorInv, NEW still \in [Cells -> BOOLEAN], NEW seen \in Scenes,
           DetectPair(still, seen)
    PROVE  DetectorInv'
<1>1. /\ fresh \in [Cells -> Sample] /\ moved \in [Cells -> 0..2]
      /\ quiet \in Nat /\ pairs \in Nat
  BY DEF DetectorInv, TypeOK
<1>2. /\ published' = fresh
      /\ fresh' = [c \in Cells |-> Updated(fresh, c, still[c], seen[c])]
      /\ moved' = [c \in Cells |-> IF still[c] THEN 0
                                   ELSE IF moved[c] = 0 THEN 1 ELSE 2]
      /\ quiet' = IF \E c \in Cells : seen[c] > Threshold THEN 0 ELSE quiet + 1
      /\ pairs' = pairs + 1
  BY DEF DetectPair
<1>3. \A c \in Cells : still[c] \in BOOLEAN /\ seen[c] \in Nat
  BY DetectorAssumption
<1>4. ASSUME NEW c \in Cells
      PROVE  /\ fresh'[c] \in Sample
             /\ ~still[c] => /\ fresh'[c].dilated = fresh'[c].score
                             /\ fresh'[c].score = Saturate(fresh[c].score - Fall)
             /\ \/ fresh'[c].dilated = fresh'[c].score
                \/ \E n \in Near[c] : fresh'[c].dilated = fresh[n].score
  <2>1. fresh'[c] = Updated(fresh, c, still[c], seen[c])
    BY <1>2
  <2>2. still[c] \in BOOLEAN /\ seen[c] \in Nat
    BY <1>3
  <2>3. FitsCell(Updated(fresh, c, still[c], seen[c]), fresh, c, still[c])
    BY <1>1, <2>2, UpdatedCell, Zenon
  <2>4. FitsCell(fresh'[c], fresh, c, still[c])
    BY <2>1, <2>3, Zenon
  <2> QED
    BY <2>4, Zenon DEF FitsCell
<1>5. TypeOK'
  <2>1. fresh' \in [Cells -> Sample]
    BY <1>2, <1>4
  <2>2. moved' \in [Cells -> 0..2]
    BY <1>1, <1>2
  <2> QED
    BY <1>1, <1>2, <2>1, <2>2 DEF TypeOK
<1>6. ASSUME NEW c \in Cells
      PROVE  /\ moved'[c] > 0 => fresh'[c].dilated = fresh'[c].score
             /\ moved'[c] > 0 => fresh'[c].score <= Saturate(Full - Fall)
             /\ moved'[c] = 2 => fresh'[c].score <= Saturate(Full - 2 * Fall)
             /\ \/ fresh'[c].dilated = fresh'[c].score
                \/ \E n \in Near[c] : fresh'[c].dilated = published'[n].score
  <2>1. /\ moved'[c] > 0 <=> ~still[c]
        /\ moved'[c] = 2 => ~still[c] /\ moved[c] > 0
    BY <1>1, <1>2
  <2>2. fresh[c].score \in 0..Full /\ Full \in Nat /\ Fall \in Nat
    BY <1>1, DetectorAssumption DEF Sample
  <2>3. Saturate(fresh[c].score - Fall) <= Saturate(Full - Fall)
    BY <2>2, SaturateMonotone
  <2>4. ASSUME moved[c] > 0
        PROVE  Saturate(fresh[c].score - Fall) <= Saturate(Full - 2 * Fall)
    <3>1. fresh[c].score <= Saturate(Full - Fall)
      BY <2>4 DEF DetectorInv, Earning
    <3> QED
      BY <2>2, <3>1, SMT DEF Saturate
  <2> QED
    BY <1>2, <1>4, <2>1, <2>3, <2>4
<1>7. Earning'
  BY <1>6 DEF Earning
<1> QED
  BY <1>5, <1>7 DEF DetectorInv

\* Clearing: every score is zero.
LEMMA ClearPreserves ==
    ASSUME DetectorInv, ClearUiPersistence
    PROVE  DetectorInv'
<1>1. Full \in Nat /\ Fall \in Nat
  BY DetectorAssumption
<1>2. ClearedSurface \in [Cells -> Sample]
  BY <1>1 DEF ClearedSurface, Sample
<1>3. TypeOK'
  BY <1>2 DEF DetectorInv, TypeOK, ClearUiPersistence
<1>4. /\ 0 <= Saturate(Full - Fall)
      /\ 0 <= Saturate(Full - 2 * Fall)
  BY <1>1, SMT DEF Saturate
<1>5. Earning'
  BY <1>4 DEF Earning, ClearUiPersistence, ClearedSurface
<1> QED
  BY <1>3, <1>5 DEF DetectorInv

\* The inductive invariant: every reachable state is well typed, and every
\* score and dilation comes from where Earning says.
THEOREM DetectorInvariantHolds == DetectorSpec => []DetectorInv
<1>1. DetectorInv /\ [DetectorNext]_detector_vars => DetectorInv'
  <2> SUFFICES ASSUME DetectorInv, [DetectorNext]_detector_vars PROVE DetectorInv'
    OBVIOUS
  <2>1. CASE \E still \in [Cells -> BOOLEAN], seen \in Scenes : DetectPair(still, seen)
    BY <2>1, DetectPairPreserves
  <2>2. CASE ClearUiPersistence
    BY <2>2, ClearPreserves
  <2>3. CASE UNCHANGED detector_vars
    BY <2>3 DEF DetectorInv, TypeOK, Earning, detector_vars
  <2> QED
    BY <2>1, <2>2, <2>3 DEF DetectorNext
<1> QED
  BY <1>1, ClearedIsEarned, PTL DEF DetectorSpec

\* A cell that moved in two pairs running is below the mask: two falls
\* clear a full score, and nothing is dilated into a cell that moves.  A
\* dilated score is the raw score of a cell near by.
LEMMA InvariantEarns == DetectorInv => MaskIsEarned
<1> SUFFICES ASSUME DetectorInv, NEW c \in Cells, Masked(c)
             PROVE  /\ moved[c] < 2
                    /\ \E n \in Near[c] :
                          fresh[n].score > MaskLow \/ published[n].score > MaskLow
  BY DEF MaskIsEarned
<1>1. /\ fresh[c].dilated > MaskLow
      /\ fresh[c].score \in 0..Full /\ fresh[c].dilated \in 0..Full
      /\ moved[c] \in 0..2 /\ c \in Near[c]
      /\ Full \in Nat /\ Fall \in Nat /\ MaskLow \in Nat
      /\ 2 * Fall >= Full - MaskLow
  BY DetectorAssumption DEF Masked, DetectorInv, TypeOK, Sample
<1>2. moved[c] < 2
  <2> SUFFICES ASSUME moved[c] = 2 PROVE FALSE
    BY <1>1
  <2>1. fresh[c].dilated <= Saturate(Full - 2 * Fall)
    BY DEF DetectorInv, Earning
  <2>2. Saturate(Full - 2 * Fall) <= MaskLow
    BY <1>1, SMT DEF Saturate
  <2>3. Saturate(Full - 2 * Fall) \in Int
    BY <1>1, SaturateBounds
  <2> QED
    BY <1>1, <2>1, <2>2, <2>3
<1>3. \/ fresh[c].dilated = fresh[c].score
      \/ \E n \in Near[c] : fresh[c].dilated = published[n].score
  BY DEF DetectorInv, Earning
<1> QED
  BY <1>1, <1>2, <1>3

\* Type correctness of the detector, for every grid and every motion.
THEOREM DetectorTypeCorrect == DetectorSpec => []TypeOK
BY DetectorInvariantHolds, PTL DEF DetectorInv

\* The mask lies only where it was earned, for every grid and every motion
\* (motion_interpolator.cpp, UpdateUiPersistence): a moving region is
\* released within two pairs, and the dilation reaches one cell.
THEOREM MaskStaysEarned == DetectorSpec => []MaskIsEarned
BY DetectorInvariantHolds, InvariantEarns, PTL

--------------------------------------------------------------------------------
(****************************************************************************)
(* How long the detector remembers a motion.  MemoryOf is defined by          *)
(* recursion; that there is such a function is shown by joining the tables of *)
(* it up to every number, of which there is one each: a least number without  *)
(* a table, or with two that differ, does not exist.                          *)
(****************************************************************************)

\* One pair later.
Fade(m) == (4 * m) \div 5

LEMMA FadeIsLess ==
    ASSUME NEW m \in Nat
    PROVE  Fade(m) \in Nat /\ Fade(m) <= m /\ (m > Threshold => Fade(m) < m)
BY DetectorAssumption, SMT DEF Fade

\* A table holds what the recursion asks for, up to a number.
Tabled(g, n) ==
    /\ g \in [0 .. n -> Nat]
    /\ \A m \in 0 .. n : g[m] = IF m <= Threshold THEN 0 ELSE 1 + g[Fade(m)]

LEMMA TableExtends ==
    ASSUME NEW n \in Nat, NEW g, Tabled(g, n)
    PROVE  \E h : Tabled(h, n + 1)
<1> DEFINE value == IF n + 1 <= Threshold THEN 0 ELSE 1 + g[Fade(n + 1)]
           h == [m \in 0 .. n + 1 |-> IF m = n + 1 THEN value ELSE g[m]]
<1>1. Threshold \in Nat /\ g \in [0 .. n -> Nat]
  BY DetectorAssumption DEF Tabled
<1>2. n + 1 > Threshold => Fade(n + 1) \in 0 .. n
  <2>1. n + 1 \in Nat
    OBVIOUS
  <2>2. Fade(n + 1) \in Nat /\ (n + 1 > Threshold => Fade(n + 1) < n + 1)
    BY <2>1, FadeIsLess
  <2> QED
    BY <2>2
<1>3. value \in Nat
  BY <1>1, <1>2
<1>4. h \in [0 .. n + 1 -> Nat]
  BY <1>1, <1>3
<1>5. ASSUME NEW m \in 0 .. n
      PROVE  h[m] = g[m] /\ (m > Threshold => h[Fade(m)] = g[Fade(m)])
  <2>1. Fade(m) \in Nat /\ Fade(m) <= m
    BY FadeIsLess
  <2> QED
    BY <2>1
<1>6. ASSUME NEW m \in 0 .. n + 1
      PROVE  h[m] = IF m <= Threshold THEN 0 ELSE 1 + h[Fade(m)]
  <2>1. CASE m = n + 1
    <3>1. n + 1 > Threshold => h[Fade(n + 1)] = g[Fade(n + 1)]
      BY <1>2
    <3>2. h[n + 1] = value
      OBVIOUS
    <3> HIDE DEF h
    <3> QED
      BY <1>1, <2>1, <3>1, <3>2
  <2>2. CASE m # n + 1
    <3>1. m \in 0 .. n
      BY <2>2
    <3>2. h[m] = g[m] /\ (m > Threshold => h[Fade(m)] = g[Fade(m)])
      BY <1>5, <3>1
    <3>3. g[m] = IF m <= Threshold THEN 0 ELSE 1 + g[Fade(m)]
      BY <3>1 DEF Tabled
    <3> HIDE DEF h
    <3> QED
      BY <1>1, <3>1, <3>2, <3>3
  <2> QED
    BY <2>1, <2>2
<1> HIDE DEF h
<1>7. Tabled(h, n + 1)
  BY <1>4, <1>6 DEF Tabled
<1> QED
  BY <1>7

LEMMA TableExists ==
    ASSUME NEW n \in Nat
    PROVE  \E g : Tabled(g, n)
<1> DEFINE Without == {k \in Nat : ~\E g : Tabled(g, k)}
<1> SUFFICES ASSUME Without # {}
             PROVE  FALSE
  OBVIOUS
<1>1. PICK k \in Without : \A j \in Without : k <= j
  <2> HIDE DEF Without
  <2>1. Without \in SUBSET Nat
    BY DEF Without
  <2> QED
    BY <2>1, LeastExists
<1>2. CASE k = 0
  <2> DEFINE g == [m \in 0 .. 0 |-> 0]
  <2>1. \A m \in 0 .. 0 : m <= Threshold
    BY DetectorAssumption
  <2>2. Tabled(g, 0)
    BY <2>1 DEF Tabled
  <2> HIDE DEF g
  <2> QED
    BY <1>2, <2>2
<1>3. CASE k # 0
  <2>1. k - 1 \in Nat /\ ~(k <= k - 1)
    BY <1>3
  <2>2. PICK g : Tabled(g, k - 1)
    BY <1>1, <2>1
  <2>3. \E h : Tabled(h, (k - 1) + 1)
    BY <2>1, <2>2, TableExtends
  <2>4. (k - 1) + 1 = k
    BY <1>3
  <2> QED
    BY <2>3, <2>4
<1> QED
  BY <1>2, <1>3

LEMMA TablesAgree ==
    ASSUME NEW a \in Nat, NEW b \in Nat, a <= b, NEW g, NEW h, Tabled(g, a), Tabled(h, b),
           NEW m \in 0 .. a
    PROVE  g[m] = h[m]
<1> DEFINE Differ == {k \in 0 .. a : g[k] # h[k]}
<1> SUFFICES ASSUME Differ # {}
             PROVE  FALSE
  OBVIOUS
<1>1. PICK k \in Differ : \A j \in Differ : k <= j
  <2>1. Differ \in SUBSET Nat
    OBVIOUS
  <2> HIDE DEF Differ
  <2> QED
    BY <2>1, LeastExists
<1>2. k \in 0 .. a /\ k \in 0 .. b /\ k \in Nat
  OBVIOUS
<1>3. /\ g[k] = IF k <= Threshold THEN 0 ELSE 1 + g[Fade(k)]
      /\ h[k] = IF k <= Threshold THEN 0 ELSE 1 + h[Fade(k)]
  BY <1>2 DEF Tabled
<1>4. k > Threshold
  BY <1>2, <1>3, DetectorAssumption
<1>5. Fade(k) \in 0 .. a /\ ~(k <= Fade(k))
  BY <1>2, <1>4, FadeIsLess
<1>6. g[Fade(k)] = h[Fade(k)]
  BY <1>1, <1>5
<1>7. g[k] = h[k]
  BY <1>3, <1>6
<1> QED
  BY <1>7

\* The recursion has a solution, and MemoryOf is one.
LEMMA MemoryIsDefined ==
    /\ MemoryOf \in [Nat -> Nat]
    /\ \A m \in Nat : MemoryOf[m] = IF m <= Threshold THEN 0 ELSE 1 + MemoryOf[Fade(m)]
<1> DEFINE table == [n \in Nat |-> CHOOSE g : Tabled(g, n)]
           F == [m \in Nat |-> table[m][m]]
           R(f) == f = [m \in Nat |-> IF m <= Threshold THEN 0 ELSE 1 + f[(4 * m) \div 5]]
<1>1. \A n \in Nat : Tabled(table[n], n)
  <2> TAKE n \in Nat
  <2>1. Tabled(CHOOSE g : Tabled(g, n), n)
    BY TableExists, Zenon
  <2> QED
    BY <2>1
<1> HIDE DEF table
<1>2. F \in [Nat -> Nat]
  <2>1. ASSUME NEW m \in Nat
        PROVE  table[m][m] \in Nat
    <3>1. table[m] \in [0 .. m -> Nat] /\ m \in 0 .. m
      BY <1>1 DEF Tabled
    <3> QED
      BY <3>1
  <2> QED
    BY <2>1
<1>3. ASSUME NEW m \in Nat
      PROVE  F[m] = IF m <= Threshold THEN 0 ELSE 1 + F[Fade(m)]
  <2>1. Fade(m) \in Nat /\ Fade(m) <= m /\ m \in 0 .. m /\ Fade(m) \in 0 .. Fade(m)
    BY FadeIsLess
  <2>2. table[m][m] = IF m <= Threshold THEN 0 ELSE 1 + table[m][Fade(m)]
    BY <1>1, <2>1 DEF Tabled
  <2>3. table[Fade(m)][Fade(m)] = table[m][Fade(m)]
    BY <1>1, <2>1, TablesAgree
  <2>4. F[m] = table[m][m] /\ F[Fade(m)] = table[Fade(m)][Fade(m)]
    BY <2>1
  <2> QED
    BY <2>2, <2>3, <2>4
<1>4. R(F)
  <2> HIDE DEF F
  <2> QED
    BY <1>2, <1>3 DEF Fade
<1> HIDE DEF F
<1>5. MemoryOf = CHOOSE f : R(f)
  BY DEF MemoryOf
<1>6. R(MemoryOf)
  <2> HIDE DEF R
  <2> QED
    BY <1>4, <1>5, Zenon
<1>7. /\ MemoryOf = [m \in Nat |-> MemoryOf[m]]
      /\ \A m \in Nat : MemoryOf[m] = IF m <= Threshold THEN 0 ELSE 1 + MemoryOf[Fade(m)]
  BY <1>6 DEF Fade
<1>8. \A m \in Nat : MemoryOf[m] \in Nat
  <2> DEFINE Bad == {m \in Nat : MemoryOf[m] \notin Nat}
  <2> SUFFICES ASSUME Bad # {}
               PROVE  FALSE
    OBVIOUS
  <2>1. PICK m \in Bad : \A j \in Bad : m <= j
    <3>1. Bad \in SUBSET Nat
      OBVIOUS
    <3> HIDE DEF Bad
    <3> QED
      BY <3>1, LeastExists
  <2>2. m \in Nat /\ m > Threshold
    <3>1. m \in Nat /\ MemoryOf[m] \notin Nat
      OBVIOUS
    <3>2. MemoryOf[m] = IF m <= Threshold THEN 0 ELSE 1 + MemoryOf[Fade(m)]
      BY <1>7, <3>1, Zenon
    <3>3. m <= Threshold => MemoryOf[m] = 0
      BY <3>2, Zenon
    <3>4. Threshold \in Nat
      BY DetectorAssumption
    <3> QED
      BY <3>1, <3>3, <3>4
  <2>3. Fade(m) \in Nat /\ ~(m <= Fade(m))
    BY <2>2, FadeIsLess
  <2>4. MemoryOf[Fade(m)] \in Nat
    BY <2>1, <2>3
  <2> QED
    BY <1>7, <2>2, <2>4
<1> QED
  BY <1>7, <1>8

\* A motion is not remembered for longer than it is strong.
LEMMA MemoryIsBounded ==
    ASSUME NEW m \in Nat
    PROVE  MemoryOf[m] <= m
<1> DEFINE Bad == {k \in Nat : ~(MemoryOf[k] <= k)}
<1> SUFFICES ASSUME Bad # {}
             PROVE  FALSE
  OBVIOUS
<1>1. PICK k \in Bad : \A j \in Bad : k <= j
  <2>1. Bad \in SUBSET Nat
    OBVIOUS
  <2> HIDE DEF Bad
  <2> QED
    BY <2>1, LeastExists
<1>2. MemoryOf \in [Nat -> Nat] /\ k \in Nat
  BY MemoryIsDefined
<1>3. k > Threshold /\ MemoryOf[k] = 1 + MemoryOf[Fade(k)]
  <2>1. ~(MemoryOf[k] <= k) /\ Threshold \in Nat
    BY DetectorAssumption
  <2>2. MemoryOf[k] = IF k <= Threshold THEN 0 ELSE 1 + MemoryOf[Fade(k)]
    BY <1>2, MemoryIsDefined, Zenon
  <2>3. ~(k <= Threshold)
    BY <1>2, <2>1, <2>2
  <2> QED
    BY <1>2, <2>1, <2>2, <2>3
<1>4. Fade(k) \in Nat /\ Fade(k) < k
  BY <1>2, <1>3, FadeIsLess
<1>5. MemoryOf[Fade(k)] <= Fade(k)
  BY <1>1, <1>4
<1>6. MemoryOf[Fade(k)] \in Nat
  BY <1>2, <1>4
<1> QED
  BY <1>2, <1>3, <1>4, <1>5, <1>6

\* There is a motion that is remembered longest.
LEMMA LongestMemory ==
    MemoryPairs \in Nat /\ \A m \in Motions : MemoryOf[m] <= MemoryPairs
<1>1. PICK fastest \in Nat : \A m \in Motions : m <= fastest
  BY DetectorAssumption
<1> DEFINE Lacks == {fastest - MemoryOf[m] : m \in Motions}
<1>2. \A m \in Motions : m \in Nat /\ MemoryOf[m] \in Nat /\ MemoryOf[m] <= fastest
  <2> SUFFICES ASSUME NEW m \in Motions
               PROVE  m \in Nat /\ MemoryOf[m] \in Nat /\ MemoryOf[m] <= fastest
    OBVIOUS
  <2>1. m \in Nat /\ m <= fastest
    BY <1>1, DetectorAssumption
  <2>2. MemoryOf[m] \in Nat /\ MemoryOf[m] <= m
    BY <2>1, MemoryIsDefined, MemoryIsBounded
  <2> QED
    BY <2>1, <2>2
<1>3. Lacks \in SUBSET Nat /\ Lacks # {}
  <2>1. \A m \in Motions : fastest - MemoryOf[m] \in Nat
    BY <1>1, <1>2
  <2>2. Motions # {}
    BY DetectorAssumption
  <2>3. Lacks \in SUBSET Nat
    BY <2>1
  <2>4. Lacks # {}
    BY <2>2
  <2> QED
    BY <2>3, <2>4
<1>4. PICK least \in Lacks : \A l \in Lacks : least <= l
  <2> HIDE DEF Lacks
  <2> QED
    BY <1>3, LeastExists
<1>5. PICK m \in Motions : least = fastest - MemoryOf[m]
  BY <1>4
<1>6. \A n \in Motions : MemoryOf[n] <= MemoryOf[m]
  <2> TAKE n \in Motions
  <2>1. least <= fastest - MemoryOf[n]
    BY <1>4
  <2> QED
    BY <1>1, <1>2, <1>5, <2>1
<1>7. \E most \in {MemoryOf[n] : n \in Motions} : \A n \in Motions : MemoryOf[n] <= most
  BY <1>6
<1>8. /\ MemoryPairs \in {MemoryOf[n] : n \in Motions}
      /\ \A n \in Motions : MemoryOf[n] <= MemoryPairs
  BY <1>7, Zenon DEF MemoryPairs
<1> QED
  BY <1>2, <1>8

(****************************************************************************)
(* Why a quiet scene is released.  The memory of every cell shortens by a pair *)
(* in every quiet pair; when it is over the score falls, and two falls and a   *)
(* pair for the dilation are all that is left.                                *)
(****************************************************************************)
Fading ==
    \A c \in Cells :
        /\ \/ MemoryOf[fresh[c].evidence] = 0
           \/ MemoryOf[fresh[c].evidence] + quiet <= MemoryPairs
        /\ quiet >= MemoryPairs => fresh[c].score <= Saturate(Full - Fall)
        /\ quiet >= MemoryPairs + 1 => fresh[c].score <= Saturate(Full - 2 * Fall)
        /\ quiet >= MemoryPairs + 2 => published[c].score <= Saturate(Full - 2 * Fall)

\* What remains of two falls is below the mask.
LEMMA TwoFallsClear ==
    /\ Saturate(Full - Fall) \in Nat /\ Saturate(Full - 2 * Fall) \in Nat
    /\ Saturate(Full - 2 * Fall) <= MaskLow
<1>1. /\ Full \in Nat /\ Fall \in Nat /\ MaskLow \in Nat /\ 2 * Fall >= Full - MaskLow
  BY DetectorAssumption
<1> QED
  BY <1>1, SMT DEF Saturate

\* Without motion around it a cell falls, whether it was still or not.
LEMMA QuietFalls ==
    ASSUME NEW x \in Int, NEW still, NEW evidence \in Nat, evidence <= Threshold
    PROVE  Score(x, still, evidence) = Saturate(x - Fall)
<1>1. ~(still /\ evidence > Threshold)
  BY DetectorAssumption
<1>2. Score(x, still, evidence) = Saturate(x + (-Fall))
  BY <1>1, Zenon DEF Score
<1>3. x + (-Fall) = x - Fall
  BY DetectorAssumption, SMT
<1> QED
  BY <1>2, <1>3, Zenon

\* A motion that counts is remembered, and its memory shortens by a pair.
LEMMA MemoryFades ==
    ASSUME NEW m \in Nat
    PROVE  /\ MemoryOf[m] \in Nat /\ (MemoryOf[m] = 0 <=> m <= Threshold)
           /\ Fade(m) \in Nat /\ MemoryOf[Fade(m)] \in Nat
           /\ MemoryOf[Fade(m)] = 0 \/ MemoryOf[m] = 1 + MemoryOf[Fade(m)]
<1>1. Fade(m) \in Nat /\ Fade(m) <= m /\ Threshold \in Nat
  BY FadeIsLess, DetectorAssumption
<1>2. MemoryOf[m] \in Nat /\ MemoryOf[Fade(m)] \in Nat
  BY <1>1, MemoryIsDefined
<1>3. /\ MemoryOf[m] = IF m <= Threshold THEN 0 ELSE 1 + MemoryOf[Fade(m)]
      /\ MemoryOf[Fade(m)]
           = IF Fade(m) <= Threshold THEN 0 ELSE 1 + MemoryOf[Fade(Fade(m))]
  BY <1>1, MemoryIsDefined
<1> QED
  BY <1>1, <1>2, <1>3

LEMMA DetectPairFades ==
    ASSUME DetectorInv, Fading, NEW still \in [Cells -> BOOLEAN], NEW seen \in Scenes,
           DetectPair(still, seen)
    PROVE  Fading'
<1>1. /\ fresh \in [Cells -> Sample] /\ quiet \in Nat
      /\ published' = fresh
      /\ fresh' = [c \in Cells |-> Updated(fresh, c, still[c], seen[c])]
      /\ quiet' = IF \E c \in Cells : seen[c] > Threshold THEN 0 ELSE quiet + 1
  BY DEF DetectPair, DetectorInv, TypeOK
<1>2. MemoryPairs \in Nat /\ \A m \in Motions : MemoryOf[m] <= MemoryPairs
  BY LongestMemory
<1>3. /\ Full \in Nat /\ Fall \in Nat /\ Threshold \in Nat
      /\ \A c \in Cells : seen[c] \in Motions /\ seen[c] \in Nat
  BY DetectorAssumption
<1>4. MemoryPairs' = MemoryPairs
  BY DEF MemoryPairs, MemoryOf
<1>5. ASSUME NEW c \in Cells
      PROVE  /\ \/ MemoryOf[fresh'[c].evidence] = 0
                \/ MemoryOf[fresh'[c].evidence] + quiet' <= MemoryPairs
             /\ quiet' >= MemoryPairs => fresh'[c].score <= Saturate(Full - Fall)
             /\ quiet' >= MemoryPairs + 1 => fresh'[c].score <= Saturate(Full - 2 * Fall)
             /\ quiet' >= MemoryPairs + 2 => published'[c].score <= Saturate(Full - 2 * Fall)
  <2> DEFINE e == fresh[c].evidence  x == fresh[c].score
             seenE == Evidence(seen[c], e)
             n == fresh'[c]
  <2>1. e \in Nat /\ x \in 0 .. Full
    BY <1>1 DEF Sample
  <2>2. n.evidence = seenE /\ n.score = Score(x, still[c], seenE)
    BY <1>1 DEF Updated
  <2>3. seenE \in {seen[c], Fade(e)}
    BY Zenon DEF Evidence, Greater, Fade
  <2>4. /\ MemoryOf[e] = 0 \/ MemoryOf[e] + quiet <= MemoryPairs
        /\ quiet >= MemoryPairs => x <= Saturate(Full - Fall)
        /\ quiet >= MemoryPairs + 1 => x <= Saturate(Full - 2 * Fall)
    BY DEF Fading
  <2>5. published'[c].score = x
    BY <1>1
  <2> HIDE DEF e, x, seenE, n
  <2>6. /\ MemoryOf[e] \in Nat /\ Fade(e) \in Nat /\ MemoryOf[Fade(e)] \in Nat
        /\ MemoryOf[Fade(e)] = 0 \/ MemoryOf[e] = 1 + MemoryOf[Fade(e)]
    BY <2>1, MemoryFades
  <2>7. /\ MemoryOf[seen[c]] \in Nat /\ MemoryOf[seen[c]] <= MemoryPairs
        /\ (MemoryOf[seen[c]] = 0 <=> seen[c] <= Threshold)
    BY <1>2, <1>3, MemoryFades
  <2>8. /\ quiet' \in Nat
        /\ quiet' = 0 \/ (quiet' = quiet + 1 /\ seen[c] <= Threshold)
        /\ quiet' = 0 => MemoryPairs > 0
    <3>1. CASE \E d \in Cells : seen[d] > Threshold
      <4>1. PICK d \in Cells : seen[d] > Threshold
        BY <3>1
      <4>2. MemoryOf[seen[d]] \in Nat /\ MemoryOf[seen[d]] # 0 /\ MemoryOf[seen[d]] <= MemoryPairs
        BY <1>2, <1>3, <4>1, MemoryFades
      <4> QED
        BY <1>1, <1>2, <3>1, <4>2
    <3>2. CASE ~\E d \in Cells : seen[d] > Threshold
      BY <1>1, <1>3, <3>2
    <3> QED
      BY <3>1, <3>2
  <2>9. MemoryOf[seenE] = 0 \/ MemoryOf[seenE] + quiet' <= MemoryPairs
    <3>1. CASE seenE = seen[c]
      BY <1>2, <2>7, <2>8, <3>1
    <3>2. CASE seenE = Fade(e)
      BY <1>1, <1>2, <2>4, <2>6, <2>8, <3>2
    <3> QED
      BY <2>3, <3>1, <3>2
  <2>10. seenE \in Nat
    BY <1>3, <2>3, <2>6
  <2>11. quiet' >= MemoryPairs => n.score = Saturate(x - Fall)
    <3> SUFFICES ASSUME quiet' >= MemoryPairs
                 PROVE  n.score = Saturate(x - Fall)
      OBVIOUS
    <3>1. MemoryOf[seenE] \in Nat /\ (MemoryOf[seenE] = 0 <=> seenE <= Threshold)
      BY <2>10, MemoryFades
    <3>2. seenE <= Threshold
      BY <1>2, <2>8, <2>9, <3>1
    <3>3. x \in Int
      BY <2>1
    <3>4. Score(x, still[c], seenE) = Saturate(x - Fall)
      BY <2>10, <3>2, <3>3, QuietFalls, Zenon
    <3> QED
      BY <2>2, <3>4
  <2>12. Saturate(x - Fall) <= Saturate(Full - Fall)
    BY <1>3, <2>1, SaturateMonotone
  <2>13. x <= Saturate(Full - Fall) => Saturate(x - Fall) <= Saturate(Full - 2 * Fall)
    BY <1>3, <2>1, SMT DEF Saturate
  <2>14. quiet' >= MemoryPairs + 1 => quiet' >= MemoryPairs /\ quiet >= MemoryPairs
    BY <1>1, <1>2, <2>8
  <2>15. quiet' >= MemoryPairs + 2 => quiet >= MemoryPairs + 1
    BY <1>1, <1>2, <2>8
  <2>16. MemoryOf[n.evidence] = 0 \/ MemoryOf[n.evidence] + quiet' <= MemoryPairs
    BY <2>2, <2>9
  <2>17. /\ quiet' >= MemoryPairs => n.score <= Saturate(Full - Fall)
         /\ quiet' >= MemoryPairs + 1 => n.score <= Saturate(Full - 2 * Fall)
         /\ quiet' >= MemoryPairs + 2 => published'[c].score <= Saturate(Full - 2 * Fall)
    BY <2>4, <2>5, <2>11, <2>12, <2>13, <2>14, <2>15, Zenon
  <2> QED
    BY <2>16, <2>17 DEF n
<1> QED
  BY <1>4, <1>5 DEF Fading

\* Cleared surfaces remember nothing and hold no score.
LEMMA ClearedFades ==
    ASSUME NEW c \in Cells
    PROVE  /\ MemoryOf[ClearedSurface[c].evidence] = 0
           /\ ClearedSurface[c].score <= Saturate(Full - Fall)
           /\ ClearedSurface[c].score <= Saturate(Full - 2 * Fall)
<1>1. ClearedSurface[c].evidence = 0 /\ ClearedSurface[c].score = 0
  BY DEF ClearedSurface
<1>2. MemoryOf[0] = 0
  BY MemoryIsDefined, DetectorAssumption
<1> QED
  BY <1>1, <1>2, TwoFallsClear

\* A quiet scene is released: once the motion that was remembered has decayed, two
\* falls and a dilation clear every cell (UpdateUiPersistence), for every grid,
\* every motion and however long the cell had been armed.
THEOREM QuietSceneIsReleased == DetectorSpec => []QuietIsReleased
<1>1. DetectorInit => Fading
  BY ClearedFades, Zenon DEF DetectorInit, Fading
<1>2. DetectorInv /\ Fading /\ [DetectorNext]_detector_vars => Fading'
  <2> SUFFICES ASSUME DetectorInv, Fading, [DetectorNext]_detector_vars PROVE Fading'
    OBVIOUS
  <2>1. CASE \E still \in [Cells -> BOOLEAN], seen \in Scenes : DetectPair(still, seen)
    BY <2>1, DetectPairFades
  <2>2. CASE ClearUiPersistence
    <3>1. fresh' = ClearedSurface /\ published' = ClearedSurface /\ quiet' = quiet
      BY <2>2 DEF ClearUiPersistence
    <3> QED
      BY <3>1, ClearedFades, Zenon DEF Fading
  <2>3. CASE UNCHANGED detector_vars
    BY <2>3 DEF Fading, detector_vars
  <2> QED
    BY <2>1, <2>2, <2>3 DEF DetectorNext
<1>3. DetectorInv /\ Fading => QuietIsReleased
  <2> SUFFICES ASSUME DetectorInv, Fading, quiet >= MemoryPairs + 2, NEW c \in Cells
               PROVE  ~Masked(c)
    BY DEF QuietIsReleased
  <2>1. MemoryPairs \in Nat /\ quiet \in Nat
    BY LongestMemory DEF DetectorInv, TypeOK
  <2>2. \A n \in Cells : /\ fresh[n].score <= Saturate(Full - 2 * Fall)
                         /\ published[n].score <= Saturate(Full - 2 * Fall)
    BY <2>1 DEF Fading
  <2>3. \/ fresh[c].dilated = fresh[c].score
        \/ \E n \in Near[c] : fresh[c].dilated = published[n].score
    BY DEF DetectorInv, Earning
  <2>4. fresh[c].dilated <= Saturate(Full - 2 * Fall) /\ fresh[c].dilated \in 0 .. Full
    BY <2>2, <2>3, DetectorAssumption DEF DetectorInv, TypeOK, Sample
  <2> QED
    BY <2>4, TwoFallsClear, DetectorAssumption DEF Masked
<1> QED
  BY <1>1, <1>2, <1>3, DetectorInvariantHolds, PTL DEF DetectorSpec

--------------------------------------------------------------------------------
(****************************************************************************)
(* The grid of the estimate and the radius of its search.                     *)
(****************************************************************************)

\* The divisor is one of the three, for every setting and size.
THEOREM DivisorIsKnown ==
    ASSUME NEW scale \in FlowScales, NEW pixels \in Nat
    PROVE  ResolveFlowScaleDivisor(scale, pixels) \in Divisors
<1>1. CASE scale = "automatic"
  BY <1>1 DEF ResolveFlowScaleDivisor, Divisors
<1>2. CASE scale # "automatic"
  BY <1>2 DEF ResolveFlowScaleDivisor, FixedDivisor, FlowScales, Divisors
<1> QED
  BY <1>1, <1>2

\* The reach asked for is positive and below the ceiling.
LEMMA TargetReachBounds ==
    ASSUME NEW period \in Nat, NEW fast \in Switch
    PROVE  /\ TargetReach(period, fast) \in Int
           /\ 1 <= TargetReach(period, fast)
           /\ TargetReach(period, fast) <= 128000
<1>1. CASE fast = "on"
  BY <1>1, SMT DEF TargetReach, ReferenceReachPixels,
                        MaximumReachPixels, Thousand
<1>2. CASE fast = "off"
  BY <1>2, SMT DEF TargetReach, ReferenceReachPixels,
                        MaximumReachPixels, Thousand
<1> QED
  BY <1>1, <1>2, SMT DEF Switch

\* The cost of the coarse pass is bounded: the radius never exceeds the
\* stated worst case, nor the reach the ceiling of 128 pixels, at any
\* divisor, so the cap loses no radius the ceiling allows (flow_scale.h).
THEOREM SearchIsBounded ==
    ASSUME NEW period \in Nat, NEW divisor \in Divisors, NEW fast \in Switch
    PROVE  LET radius == ResolveCoarseSearchRadius(period, divisor, fast) IN
           /\ radius \in 2..16
           /\ CoarseSearchPixels(radius, divisor) <= 128
<1> DEFINE reach == TargetReach(period, fast)
<1>1. reach \in Int /\ 1 <= reach /\ reach <= 128000
  BY TargetReachBounds, SMT
<1> HIDE DEF reach
<1>2. CASE divisor = 4
  <2>1. CellsFor(reach, 4) = (2 * reach + 8000) \div 16000
    BY <1>1, SMT DEF CellsFor, Thousand
  <2>2. CellsFor(reach, 4) \in 0..16
    BY <1>1, <2>1, SMT
  <2>3. ResolveCoarseSearchRadius(period, 4, fast) \in 2..16
    BY <2>2, SMT DEF ResolveCoarseSearchRadius, Clamped, MinimumCoarseRadius,
                     MaximumCoarseRadius, MaximumReachPixels, reach
  <2> QED
    BY <1>2, <2>3, SMT DEF CoarseSearchPixels
<1>3. CASE divisor = 8
  <2>1. CellsFor(reach, 8) = (2 * reach + 16000) \div 32000
    BY <1>1, SMT DEF CellsFor, Thousand
  <2>2. CellsFor(reach, 8) \in 0..8
    BY <1>1, <2>1, SMT
  <2>3. ResolveCoarseSearchRadius(period, 8, fast) \in 2..8
    BY <2>2, SMT DEF ResolveCoarseSearchRadius, Clamped, MinimumCoarseRadius,
                     MaximumCoarseRadius, MaximumReachPixels, reach
  <2> QED
    BY <1>3, <2>3, SMT DEF CoarseSearchPixels
<1>4. CASE divisor = 16
  <2>1. CellsFor(reach, 16) = (2 * reach + 32000) \div 64000
    BY <1>1, SMT DEF CellsFor, Thousand
  <2>2. CellsFor(reach, 16) \in 0..4
    BY <1>1, <2>1, SMT
  <2>3. ResolveCoarseSearchRadius(period, 16, fast) \in 2..4
    BY <2>2, SMT DEF ResolveCoarseSearchRadius, Clamped, MinimumCoarseRadius,
                     MaximumCoarseRadius, MaximumReachPixels, reach
  <2> QED
    BY <1>4, <2>3, SMT DEF CoarseSearchPixels
<1> QED
  BY <1>2, <1>3, <1>4, SMT DEF Divisors

\* The reach is held whatever the divisor: unless the floor of two cells
\* holds the radius up, the search reaches the target to within half a
\* coarse cell, so a finer grid keeps the range (flow_scale.h).
THEOREM ReachIsHeld ==
    ASSUME NEW period \in Nat, NEW divisor \in Divisors, NEW fast \in Switch,
           ResolveCoarseSearchRadius(period, divisor, fast) > MinimumCoarseRadius
    PROVE  LET radius == ResolveCoarseSearchRadius(period, divisor, fast)
               found == CoarseSearchPixels(radius, divisor) * Thousand
               target == TargetReach(period, fast)
           IN  /\ found - target <= divisor * Thousand
               /\ target - found <= divisor * Thousand
<1> DEFINE reach == TargetReach(period, fast)
           radius == ResolveCoarseSearchRadius(period, divisor, fast)
<1>1. reach \in Int /\ 1 <= reach /\ reach <= 128000
  BY TargetReachBounds, SMT
<1>2. /\ radius > 2
      /\ radius = Clamped(CellsFor(reach, divisor), 2, 16)
  BY SMT DEF MinimumCoarseRadius, MaximumCoarseRadius, MaximumReachPixels,
          ResolveCoarseSearchRadius
<1> HIDE DEF reach, radius
<1>3. /\ CoarseSearchPixels(radius, divisor) = radius * divisor * 2
      /\ CoarseSearchPixels(radius, divisor) * Thousand - reach <= divisor * Thousand
      /\ reach - CoarseSearchPixels(radius, divisor) * Thousand <= divisor * Thousand
  <2>1. CASE divisor = 4
    <3>1. CellsFor(reach, 4) = (2 * reach + 8000) \div 16000
      BY <1>1, SMT DEF CellsFor, Thousand
    <3>2. radius = CellsFor(reach, 4) /\ radius \in 3..16
      BY <1>1, <1>2, <2>1, <3>1, SMT DEF Clamped
    <3> QED
      BY <1>1, <2>1, <3>1, <3>2, SMT DEF CoarseSearchPixels, Thousand
  <2>2. CASE divisor = 8
    <3>1. CellsFor(reach, 8) = (2 * reach + 16000) \div 32000
      BY <1>1, SMT DEF CellsFor, Thousand
    <3>2. radius = CellsFor(reach, 8) /\ radius \in 3..16
      BY <1>1, <1>2, <2>2, <3>1, SMT DEF Clamped
    <3> QED
      BY <1>1, <2>2, <3>1, <3>2, SMT DEF CoarseSearchPixels, Thousand
  <2>3. CASE divisor = 16
    <3>1. CellsFor(reach, 16) = (2 * reach + 32000) \div 64000
      BY <1>1, SMT DEF CellsFor, Thousand
    <3>2. radius = CellsFor(reach, 16) /\ radius \in 3..16
      BY <1>1, <1>2, <2>3, <3>1, SMT DEF Clamped
    <3> QED
      BY <1>1, <2>3, <3>1, <3>2, SMT DEF CoarseSearchPixels, Thousand
  <2> QED
    BY <2>1, <2>2, <2>3, SMT DEF Divisors
<1> QED
  BY <1>3, SMT DEF reach, radius

\* A slower source is never searched less far, at any divisor: what is
\* fixed about a scene is its velocity (flow_scale.h).
THEOREM SlowerSearchesFurther ==
    ASSUME NEW period \in Nat \ {0}, NEW slower \in Nat, period <= slower,
           NEW divisor \in Divisors, NEW fast \in Switch
    PROVE  ResolveCoarseSearchRadius(period, divisor, fast)
              <= ResolveCoarseSearchRadius(slower, divisor, fast)
<1> DEFINE near == TargetReach(period, fast)
           far == TargetReach(slower, fast)
<1>1. /\ near \in Int /\ 1 <= near /\ near <= 128000
      /\ far \in Int /\ 1 <= far /\ far <= 128000
  BY TargetReachBounds, SMT
<1>2. near <= far
  <2>1. CASE fast = "on"
    BY <2>1, SMT DEF TargetReach, ReferenceReachPixels,
                        MaximumReachPixels, Thousand
  <2>2. CASE fast = "off"
    BY <2>2, SMT DEF TargetReach, ReferenceReachPixels,
                        MaximumReachPixels, Thousand
  <2> QED
    BY <2>1, <2>2, SMT DEF Switch
<1> HIDE DEF near, far
<1>3. /\ CellsFor(near, divisor) <= CellsFor(far, divisor)
      /\ CellsFor(near, divisor) \in Int /\ CellsFor(far, divisor) \in Int
  <2>1. CASE divisor = 4
    BY <1>1, <1>2, <2>1, SMT DEF CellsFor, Thousand
  <2>2. CASE divisor = 8
    BY <1>1, <1>2, <2>2, SMT DEF CellsFor, Thousand
  <2>3. CASE divisor = 16
    BY <1>1, <1>2, <2>3, SMT DEF CellsFor, Thousand
  <2> QED
    BY <2>1, <2>2, <2>3, SMT DEF Divisors
<1>4. /\ MinimumCoarseRadius = 2 /\ MaximumCoarseRadius = 16
  BY SMT DEF MinimumCoarseRadius, MaximumCoarseRadius, MaximumReachPixels
<1> QED
  BY <1>3, <1>4, SMT DEF ResolveCoarseSearchRadius, Clamped, near, far
================================================================================
