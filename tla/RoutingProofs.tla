--------------------------- MODULE RoutingProofs ---------------------------
(* What the two strategies of Routing return, for every pool, every number  *)
(* of virtual nodes and every ring without a collision.                     *)
EXTENDS Routing, FiniteSetTheorems, WellFoundedInduction, TLAPS

-----------------------------------------------------------------------------
(* Power of Two Choices, and the walk in any ring.                          *)

\* A service P2C may pick is healthy, and unless it is the only healthy one
\* another healthy service has at least as many connections.
LEMMA P2CPick ==
    ASSUME PoolTypeOK, NEW s \in P2C, s \in Services
    PROVE  /\ healthy[s]
           /\ HealthyServices # {s} =>
                \E t \in HealthyServices \ {s} : activeConnections[s] <= activeConnections[t]
<1> DEFINE H == HealthyServices
<1>1. CASE H = {}
  BY <1>1, RoutingAssumption DEF P2C
<1>2. CASE H # {} /\ Cardinality(H) = 1
  <2>1. IsFiniteSet(H)
    BY ServicePoolAssumption, FS_Subset DEF HealthyServices
  <2>2. PICK x : H = {x}
    BY <1>2, <2>1, FS_Singleton
  <2> QED BY <1>2, <2>2 DEF P2C, HealthyServices
<1>3. CASE H # {} /\ Cardinality(H) # 1
  <2>1. PICK a \in H, b \in H : a # b /\ s = LighterOfTwo(a, b)
    BY <1>3 DEF P2C
  <2>2. /\ a \in Services /\ b \in Services /\ healthy[a] /\ healthy[b]
        /\ activeConnections[a] \in Nat /\ activeConnections[b] \in Nat
    BY <2>1 DEF HealthyServices, PoolTypeOK
  <2>3. CASE s = a /\ activeConnections[a] <= activeConnections[b]
    BY <2>1, <2>2, <2>3
  <2>4. CASE s = b /\ activeConnections[b] <= activeConnections[a]
    BY <2>1, <2>2, <2>4
  <2> QED BY <2>1, <2>2, <2>3, <2>4 DEF LighterOfTwo
<1> QED BY <1>1, <1>2, <1>3

\* A set of natural numbers that is not empty has a smallest element.
LEMMA SmallestNat ==
    ASSUME NEW S \in SUBSET Nat, S # {}
    PROVE  \E w \in S : \A x \in S : w <= x
<1>1. PICK w \in S : \A x \in S : ~(<<x, w>> \in OpToRel(<, Nat))
  BY NatLessThanWellFounded, WFMin, Zenon
<1>2. \A x \in S : ~(x < w)
  BY <1>1 DEF OpToRel
<1> QED BY <1>2

\* The walk around the ring ends at a healthy service, or finds none.
LEMMA RingPick ==
    ASSUME NEW hash, NEW h, RingWalk(hash, h) # NoService
    PROVE  healthy[RingWalk(hash, h)]
<1> DEFINE start  == LowerBound(hash, h)
           hit(w) == healthy[RingAt(hash, ProbeIndex(start, w))]
           hits   == {w \in 0..(RingSize - 1) : hit(w)}
           first  == CHOOSE w \in hits : \A x \in hits : w <= x
<1>1. hits # {} /\ RingWalk(hash, h) = RingAt(hash, ProbeIndex(start, first))
  BY DEF RingWalk
<1>2. hits \in SUBSET Nat
  OBVIOUS
<1>3. \E w \in hits : \A x \in hits : w <= x
  <2> HIDE DEF hits
  <2> QED BY <1>1, <1>2, SmallestNat
<1>4. first \in hits
  <2> HIDE DEF hits
  <2> QED BY <1>3
<1>5. hit(first)
  <2> HIDE DEF first
  <2> QED BY <1>4
<1> QED BY <1>1, <1>5

-----------------------------------------------------------------------------
(* The sorted ring.  The constructor refuses a collision, so every entry    *)
(* has an index of its own and every index an entry.                        *)

Ring(hash) == hash \in [Entries -> Nat] /\ ~Collides(hash)

\* The ring is finite.
LEMMA EntriesFinite == IsFiniteSet(Entries) /\ RingSize \in Nat
  BY ServicePoolAssumption, RoutingAssumption, FS_Product, FS_CardinalityType
  DEF Entries, RingSize

\* lower_bound returns an index of the ring or its end.
LEMMA LowerBoundType ==
    ASSUME NEW hash, NEW h PROVE LowerBound(hash, h) \in 0..RingSize
<1> DEFINE below == {x \in Entries : hash[x] < h}
<1>1. below \in SUBSET Entries
  OBVIOUS
<1>2. IsFiniteSet(below) /\ Cardinality(below) <= Cardinality(Entries)
  BY <1>1, EntriesFinite, FS_Subset
<1>3. Cardinality(below) \in Nat
  BY <1>2, FS_CardinalityType
<1> QED BY <1>2, <1>3, EntriesFinite DEF LowerBound, RingSize

\* A larger key never has a smaller lower bound.
LEMMA LowerBoundMonotone ==
    ASSUME NEW hash \in [Entries -> Nat], NEW a \in Nat, NEW b \in Nat, a <= b
    PROVE  LowerBound(hash, a) <= LowerBound(hash, b)
<1> DEFINE A == {x \in Entries : hash[x] < a}
           B == {x \in Entries : hash[x] < b}
<1>1. A \in SUBSET B
  OBVIOUS
<1>2. IsFiniteSet(B)
  BY EntriesFinite, FS_Subset
<1>3. Cardinality(A) <= Cardinality(B)
  BY <1>1, <1>2, FS_Subset
<1> QED BY <1>3 DEF LowerBound

\* An entry between two keys makes their lower bounds differ.
LEMMA LowerBoundStrict ==
    ASSUME NEW hash \in [Entries -> Nat], NEW e \in Entries,
           NEW a \in Nat, NEW b \in Nat, a <= hash[e], hash[e] < b
    PROVE  LowerBound(hash, a) < LowerBound(hash, b)
<1> DEFINE A == {x \in Entries : hash[x] < a}
           B == {x \in Entries : hash[x] < b}
<1>1. A \in SUBSET B /\ e \in B /\ e \notin A
  OBVIOUS
<1>2. IsFiniteSet(B)
  BY EntriesFinite, FS_Subset
<1>3. Cardinality(A) <= Cardinality(B) /\ Cardinality(A) # Cardinality(B)
  <2> HIDE DEF A, B
  <2> QED BY <1>1, <1>2, FS_Subset
<1>4. LowerBound(hash, a) = Cardinality(A) /\ LowerBound(hash, b) = Cardinality(B)
  BY DEF LowerBound
<1> HIDE DEF A, B
<1> QED BY <1>3, <1>4, LowerBoundType

\* An entry's index in the sorted ring is the lower bound of its own hash.
LEMMA RankIsLowerBound ==
    ASSUME NEW hash, NEW e PROVE Rank(hash, e) = LowerBound(hash, hash[e])
  BY DEF Rank, LowerBound

\* The sort and lower_bound agree: an entry is in front of the key's index
\* exactly when its hash is below the key.
LEMMA RankOrder ==
    ASSUME NEW hash \in [Entries -> Nat], NEW e \in Entries, NEW h \in Nat
    PROVE  hash[e] < h <=> Rank(hash, e) < LowerBound(hash, h)
<1>1. hash[e] \in Nat /\ LowerBound(hash, h) \in Nat /\ LowerBound(hash, hash[e]) \in Nat
  BY LowerBoundType, EntriesFinite
<1>2. CASE hash[e] < h
  BY <1>1, <1>2, LowerBoundStrict, RankIsLowerBound
<1>3. CASE ~(hash[e] < h)
  <2>1. h <= hash[e]
    BY <1>1, <1>3
  <2>2. LowerBound(hash, h) <= LowerBound(hash, hash[e])
    BY <1>1, <2>1, LowerBoundMonotone
  <2> QED BY <1>1, <1>3, <2>2, RankIsLowerBound
<1> QED BY <1>2, <1>3

\* Sorting numbers the entries 0 .. ringSize - 1, each index once.
LEMMA RankBijective ==
    ASSUME NEW hash, Ring(hash)
    PROVE  /\ \A e \in Entries : Rank(hash, e) \in 0..(RingSize - 1)
           /\ \A x, y \in Entries : Rank(hash, x) = Rank(hash, y) => x = y
           /\ \A i \in 0..(RingSize - 1) : \E e \in Entries : Rank(hash, e) = i
<1>0. hash \in [Entries -> Nat] /\ RingSize \in Nat
  BY EntriesFinite DEF Ring
<1>1. ASSUME NEW e \in Entries PROVE Rank(hash, e) \in 0..(RingSize - 1)
  <2>1. hash[e] \in Nat
    BY <1>0
  <2>2. Rank(hash, e) < LowerBound(hash, hash[e] + 1)
    BY <1>0, <2>1, RankOrder
  <2> QED BY <1>0, <2>2, LowerBoundType, RankIsLowerBound
<1>2. ASSUME NEW x \in Entries, NEW y \in Entries, Rank(hash, x) = Rank(hash, y)
      PROVE  x = y
  <2>1. hash[x] \in Nat /\ hash[y] \in Nat
    BY <1>0
  <2>2. ~(hash[x] < hash[y])
    BY <1>0, <1>1, <1>2, <2>1, RankOrder, RankIsLowerBound
  <2>3. ~(hash[y] < hash[x])
    BY <1>0, <1>1, <1>2, <2>1, RankOrder, RankIsLowerBound
  <2>4. hash[x] = hash[y]
    BY <2>1, <2>2, <2>3
  <2> QED BY <2>4 DEF Ring, Collides
<1>3. ASSUME NEW i \in 0..(RingSize - 1) PROVE \E e \in Entries : Rank(hash, e) = i
  <2> DEFINE T == 0..(RingSize - 1)
             f == [e \in Entries |-> Rank(hash, e)]
  <2>1. f \in [Entries -> T] /\ \A x, y \in Entries : f[x] = f[y] => x = y
    BY <1>1, <1>2
  <2>2. f \in Injection(Entries, T)
    <3> HIDE DEF f, T
    <3> QED BY <2>1 DEF Injection, IsInjective
  <2>3. IsFiniteSet(T) /\ Cardinality(T) = RingSize
    BY <1>0, FS_Interval
  <2>4. f \in Surjection(Entries, T)
    <3> HIDE DEF f, T
    <3> QED BY <2>2, <2>3, FS_Injection DEF RingSize
  <2>5. \E e \in Entries : f[e] = i
    <3> HIDE DEF f
    <3> QED BY <2>4 DEF Surjection
  <2> QED BY <2>5
<1> QED BY <1>1, <1>2, <1>3

\* An index of the ring holds the service of the one entry with that index.
LEMMA RingAtRank ==
    ASSUME NEW hash, Ring(hash), NEW e \in Entries
    PROVE  RingAt(hash, Rank(hash, e)) = e[1]
<1> DEFINE at == CHOOSE x \in Entries : Rank(hash, x) = Rank(hash, e)
<1>1. at \in Entries /\ Rank(hash, at) = Rank(hash, e)
  OBVIOUS
<1>2. at = e
  <2> HIDE DEF at
  <2> QED BY <1>1, RankBijective
<1> QED BY <1>2 DEF RingAt

-----------------------------------------------------------------------------
(* The walk.                                                                *)

\* The remainder of a number that is at most one turn away.
LEMMA OneTurn ==
    ASSUME NEW n \in Nat \ {0}, NEW a \in Int
    PROVE  /\ 0 <= a /\ a < n => a % n = a
           /\ n <= a /\ a < 2 * n => a % n = a - n
           /\ 0 - n <= a /\ a < 0 => a % n = a + n
  OBVIOUS

\* How many entries the walk for key h has passed when it comes to entry e
Position(hash, h, e) ==
    IF Rank(hash, e) >= LowerBound(hash, h)
    THEN Rank(hash, e) - LowerBound(hash, h)
    ELSE Rank(hash, e) - LowerBound(hash, h) + RingSize

\* The walk's index arithmetic visits every entry exactly once per turn, also
\* when lower_bound is the end of the ring.
LEMMA WalkVisitsAll ==
    ASSUME NEW hash, Ring(hash), NEW h
    PROVE  /\ \A e \in Entries :
                 /\ Position(hash, h, e) \in 0..(RingSize - 1)
                 /\ ProbeIndex(LowerBound(hash, h), Position(hash, h, e)) = Rank(hash, e)
           /\ \A w \in 0..(RingSize - 1) : \E e \in Entries : Position(hash, h, e) = w
<1> DEFINE L == LowerBound(hash, h)
<1>0. L \in 0..RingSize /\ RingSize \in Nat
  BY LowerBoundType, EntriesFinite
<1> HIDE DEF L
<1>1. ASSUME NEW e \in Entries
      PROVE  /\ Position(hash, h, e) \in 0..(RingSize - 1)
             /\ ProbeIndex(L, Position(hash, h, e)) = Rank(hash, e)
  <2>1. Rank(hash, e) \in 0..(RingSize - 1)
    BY RankBijective
  <2>2. RingSize \in Nat \ {0}
    BY <1>0, <2>1
  <2>3. CASE Rank(hash, e) >= L
    <3>1. Position(hash, h, e) = Rank(hash, e) - L
      BY <2>3 DEF Position, L
    <3>2. ProbeIndex(L, Position(hash, h, e)) = Rank(hash, e) % RingSize
      BY <1>0, <2>1, <3>1 DEF ProbeIndex
    <3>3. Rank(hash, e) % RingSize = Rank(hash, e)
      BY <2>1, <2>2, OneTurn
    <3> QED BY <1>0, <2>1, <2>3, <3>1, <3>2, <3>3
  <2>4. CASE ~(Rank(hash, e) >= L)
    <3>1. Position(hash, h, e) = Rank(hash, e) - L + RingSize
      BY <2>4 DEF Position, L
    <3>2. ProbeIndex(L, Position(hash, h, e)) = (Rank(hash, e) + RingSize) % RingSize
      BY <1>0, <2>1, <3>1 DEF ProbeIndex
    <3>3. (Rank(hash, e) + RingSize) % RingSize = Rank(hash, e)
      <4> DEFINE a == Rank(hash, e) + RingSize
      <4>1. a \in Int /\ RingSize <= a /\ a < 2 * RingSize /\ a - RingSize = Rank(hash, e)
        BY <2>1, <2>2
      <4> HIDE DEF a
      <4>2. a % RingSize = Rank(hash, e)
        BY <2>2, <4>1, OneTurn
      <4> QED BY <4>2 DEF a
    <3> QED BY <1>0, <2>1, <2>4, <3>1, <3>2, <3>3
  <2> QED BY <2>3, <2>4
<1>2. ASSUME NEW w \in 0..(RingSize - 1)
      PROVE  \E e \in Entries : Position(hash, h, e) = w
  <2> DEFINE i == IF L + w < RingSize THEN L + w ELSE L + w - RingSize
  <2>1. i \in 0..(RingSize - 1)
    BY <1>0
  <2>2. PICK e \in Entries : Rank(hash, e) = i
    <3> HIDE DEF i
    <3> QED BY <2>1, RankBijective
  <2>3. Position(hash, h, e) = w
    <3>1. CASE L + w < RingSize
      BY <1>0, <2>2, <3>1 DEF Position, L
    <3>2. CASE ~(L + w < RingSize)
      BY <1>0, <2>2, <3>2 DEF Position, L
    <3> QED BY <3>1, <3>2
  <2> QED BY <2>3
<1> QED BY <1>1, <1>2 DEF L

\* The walk returns the healthy entry it comes to first, and a RoutingError
\* exactly when there is none.
LEMMA WalkFindsFirst ==
    ASSUME NEW hash, Ring(hash), NEW h
    PROVE  LET up == {e \in Entries : healthy[e[1]]}
           IN  IF up = {} THEN RingWalk(hash, h) = NoService
               ELSE \E e \in up :
                      /\ RingWalk(hash, h) = e[1]
                      /\ \A x \in up : Position(hash, h, e) <= Position(hash, h, x)
<1> DEFINE up     == {e \in Entries : healthy[e[1]]}
           start  == LowerBound(hash, h)
           hit(w) == healthy[RingAt(hash, ProbeIndex(start, w))]
           hits   == {w \in 0..(RingSize - 1) : hit(w)}
           first  == CHOOSE w \in hits : \A x \in hits : w <= x
           pos(e) == Position(hash, h, e)
<1>1. ASSUME NEW e \in Entries
      PROVE  pos(e) \in 0..(RingSize - 1) /\ RingAt(hash, ProbeIndex(start, pos(e))) = e[1]
  BY WalkVisitsAll, RingAtRank
<1>2. \A w \in 0..(RingSize - 1) : \E e \in Entries : pos(e) = w
  BY WalkVisitsAll
<1>3. ASSUME NEW e \in up PROVE pos(e) \in hits
  <2> HIDE DEF pos
  <2> QED BY <1>1
<1>4. ASSUME NEW w \in hits PROVE \E e \in up : pos(e) = w
  <2>1. PICK e \in Entries : pos(e) = w
    BY <1>2
  <2>2. healthy[RingAt(hash, ProbeIndex(start, w))]
    OBVIOUS
  <2> HIDE DEF pos, start
  <2> QED BY <1>1, <2>1, <2>2
<1>5. RingWalk(hash, h) = IF hits = {} THEN NoService
                          ELSE RingAt(hash, ProbeIndex(start, first))
  BY DEF RingWalk
<1>6. ASSUME hits # {} PROVE first \in hits /\ \A x \in hits : first <= x
  <2>1. hits \in SUBSET Nat
    OBVIOUS
  <2> HIDE DEF hits
  <2>2. \E w \in hits : \A x \in hits : w <= x
    BY <1>6, <2>1, SmallestNat
  <2> QED BY <2>2
<1>7. CASE up = {}
  <2>1. hits = {}
    <3> HIDE DEF up, hits
    <3> QED BY <1>4, <1>7
  <2> HIDE DEF up, hits
  <2>2. RingWalk(hash, h) = NoService
    BY <1>5, <2>1
  <2> QED BY <1>7, <2>2 DEF up
<1>8. CASE up # {}
  <2>1. hits # {}
    <3> HIDE DEF up, hits, pos
    <3> QED BY <1>3, <1>8
  <2>2. first \in hits /\ \A x \in hits : first <= x
    BY <1>6, <2>1
  <2> HIDE DEF first, hits, pos
  <2>3. PICK e \in up : pos(e) = first
    BY <1>4, <2>2
  <2>4. RingWalk(hash, h) = RingAt(hash, ProbeIndex(start, pos(e)))
    BY <1>5, <2>1, <2>3
  <2>5. RingWalk(hash, h) = e[1]
    BY <1>1, <2>4
  <2>6. \A x \in up : pos(e) <= pos(x)
    BY <1>3, <2>2, <2>3
  <2>7. \E y \in up : RingWalk(hash, h) = y[1] /\ \A x \in up : pos(y) <= pos(x)
    BY <2>5, <2>6
  <2> QED BY <1>8, <2>7 DEF pos
<1> QED BY <1>7, <1>8
=============================================================================
