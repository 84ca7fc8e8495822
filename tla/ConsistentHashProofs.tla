------------------------ MODULE ConsistentHashProofs ------------------------
(* Proofs about ConsistentHashStrategy, for every number of services and    *)
(* virtual nodes, every hash space and every outcome of the hash function.  *)
EXTENDS ConsistentHash, RoutingProofs

\* The ring never changes, and it has no collision once it is built.
RingInv ==
    /\ PoolTypeOK
    /\ vnodeHash \in [Entries -> 0..(HashSpace - 1)]
    /\ built => ~Collides(vnodeHash)

\* The constructor tests every pair of neighbours before it returns.
LEMMA RingInitInv == Init => RingInv
<1> SUFFICES ASSUME Init PROVE RingInv
  OBVIOUS
<1>1. PoolTypeOK
  BY ServicePoolAssumption DEF Init, PoolInit, PoolTypeOK
<1> QED BY <1>1 DEF Init, RingInv

\* A health change leaves the ring alone.
LEMMA RingNextInv == RingInv /\ [Next]_vars => RingInv'
<1> SUFFICES ASSUME RingInv, [Next]_vars PROVE RingInv'
  OBVIOUS
<1>1. ASSUME NEW s \in Services, HealthChanges(s) PROVE RingInv'
  <2>1. PoolTypeOK'
    BY <1>1 DEF RingInv, PoolTypeOK, HealthChanges, SetHealthy
  <2>2. UNCHANGED <<vnodeHash, built>>
    BY <1>1 DEF HealthChanges
  <2> QED BY <2>1, <2>2 DEF RingInv, Collides
<1>2. CASE UNCHANGED vars
  BY <1>2 DEF vars, poolVars, RingInv, PoolTypeOK, Collides
<1> QED BY <1>1, <1>2 DEF Next, ConstructorThrew

\* The ring is sound in every state.
LEMMA RingInvariant == Spec => []RingInv
  BY RingInitInv, RingNextInv, PTL DEF Spec

-----------------------------------------------------------------------------
\* Clockwise distance without the remainder: straight on, or once over zero
LEMMA ClockwiseValue ==
    ASSUME RingInv, NEW k \in Keys, NEW e \in Entries
    PROVE  /\ vnodeHash[e] \in Nat /\ k \in Nat
           /\ Clockwise(k, e) \in 0..(HashSpace - 1)
           /\ vnodeHash[e] >= k => Clockwise(k, e) = vnodeHash[e] - k
           /\ vnodeHash[e] < k => Clockwise(k, e) = vnodeHash[e] - k + HashSpace
<1>1. /\ HashSpace \in Nat \ {0}
      /\ vnodeHash[e] \in 0..(HashSpace - 1) /\ k \in 0..(HashSpace - 1)
  BY ConsistentHashAssumption DEF RingInv
<1> DEFINE a == vnodeHash[e] - k
<1>2. /\ a \in Int
      /\ vnodeHash[e] >= k => 0 <= a /\ a < HashSpace
      /\ vnodeHash[e] < k => 0 - HashSpace <= a /\ a < 0
  BY <1>1
<1> HIDE DEF a
<1>3. /\ vnodeHash[e] >= k => a % HashSpace = a
      /\ vnodeHash[e] < k => a % HashSpace = a + HashSpace
  BY <1>1, <1>2, OneTurn
<1>4. Clockwise(k, e) = a % HashSpace
  BY DEF Clockwise, a
<1> QED BY <1>1, <1>2, <1>3, <1>4 DEF a

\* No two virtual nodes are equally far from a key.
LEMMA ClockwiseInjective ==
    ASSUME RingInv, built, NEW k \in Keys, NEW x \in Entries, NEW y \in Entries,
           Clockwise(k, x) = Clockwise(k, y)
    PROVE  x = y
<1>1. HashSpace \in Nat /\ vnodeHash[x] \in 0..(HashSpace - 1) /\ vnodeHash[y] \in 0..(HashSpace - 1)
  BY ConsistentHashAssumption DEF RingInv
<1>2. vnodeHash[x] = vnodeHash[y]
  BY <1>1, ClockwiseValue
<1> QED BY <1>2 DEF RingInv, Collides

\* The walk passes the virtual nodes in the order of their distance.
LEMMA WalkIsClockwise ==
    ASSUME RingInv, built, NEW k \in Keys, NEW e \in Entries, NEW x \in Entries,
           Position(vnodeHash, k, e) <= Position(vnodeHash, k, x)
    PROVE  Clockwise(k, e) <= Clockwise(k, x)
<1> DEFINE L == LowerBound(vnodeHash, k)
           r(y) == Rank(vnodeHash, y)
           g(y) == vnodeHash[y]
<1>1. Ring(vnodeHash)
  <2>1. HashSpace \in Nat /\ 0..(HashSpace - 1) \subseteq Nat
    BY ConsistentHashAssumption
  <2> QED BY <2>1 DEF RingInv, Ring
<1>2. /\ k \in 0..(HashSpace - 1) /\ HashSpace \in Nat
      /\ g(e) \in 0..(HashSpace - 1) /\ g(x) \in 0..(HashSpace - 1)
  BY ConsistentHashAssumption DEF RingInv
<1>3. /\ RingSize \in Nat /\ L \in 0..RingSize
      /\ r(e) \in 0..(RingSize - 1) /\ r(x) \in 0..(RingSize - 1)
  BY <1>1, EntriesFinite, LowerBoundType, RankBijective
<1>4. (g(e) < k <=> r(e) < L) /\ (g(x) < k <=> r(x) < L)
  BY <1>1, <1>2, RankOrder DEF Ring
<1>5. g(x) < g(e) <=> r(x) < r(e)
  BY <1>1, <1>2, RankOrder, RankIsLowerBound DEF Ring
<1>6. /\ Position(vnodeHash, k, e) = IF r(e) >= L THEN r(e) - L ELSE r(e) - L + RingSize
      /\ Position(vnodeHash, k, x) = IF r(x) >= L THEN r(x) - L ELSE r(x) - L + RingSize
  BY DEF Position
<1>7. /\ g(e) >= k => Clockwise(k, e) = g(e) - k
      /\ g(e) < k => Clockwise(k, e) = g(e) - k + HashSpace
      /\ g(x) >= k => Clockwise(k, x) = g(x) - k
      /\ g(x) < k => Clockwise(k, x) = g(x) - k + HashSpace
  BY ClockwiseValue
<1> HIDE DEF L, r, g
<1>8. CASE g(e) >= k /\ g(x) >= k
  BY <1>2, <1>3, <1>4, <1>5, <1>6, <1>7, <1>8
<1>9. CASE g(e) < k /\ g(x) < k
  BY <1>2, <1>3, <1>4, <1>5, <1>6, <1>7, <1>9
<1>10. CASE g(e) >= k /\ g(x) < k
  BY <1>2, <1>7, <1>10
<1>11. CASE g(e) < k /\ g(x) >= k
  BY <1>2, <1>3, <1>4, <1>6, <1>11
<1> QED BY <1>2, <1>8, <1>9, <1>10, <1>11

-----------------------------------------------------------------------------
\* The walk by indices is the walk by distance.
LEMMA WalkSelectsNext == RingInv => SelectsNextClockwise
<1> SUFFICES ASSUME RingInv, built, NEW k \in Keys
             PROVE  LET up == {e \in Entries : healthy[e[1]]}
                    IN  IF up = {} THEN SelectService(k) = NoService
                        ELSE \E e \in up :
                               /\ SelectService(k) = e[1]
                               /\ \A x \in up : Clockwise(k, e) <= Clockwise(k, x)
  BY DEF SelectsNextClockwise
<1> DEFINE up == {e \in Entries : healthy[e[1]]}
<1>1. Ring(vnodeHash)
  <2>1. HashSpace \in Nat /\ 0..(HashSpace - 1) \subseteq Nat
    BY ConsistentHashAssumption
  <2> QED BY <2>1 DEF RingInv, Ring
<1>2. CASE up = {}
  <2>1. RingWalk(vnodeHash, k) = NoService
    BY <1>1, <1>2, WalkFindsFirst
  <2> QED BY <1>2, <2>1 DEF SelectService
<1>3. CASE up # {}
  <2>1. PICK e \in up : /\ RingWalk(vnodeHash, k) = e[1]
                        /\ \A x \in up : Position(vnodeHash, k, e) <= Position(vnodeHash, k, x)
    BY <1>1, <1>3, WalkFindsFirst
  <2>2. ASSUME NEW x \in up PROVE Clockwise(k, e) <= Clockwise(k, x)
    BY <2>1, WalkIsClockwise
  <2> QED BY <1>3, <2>1, <2>2 DEF SelectService
<1> QED BY <1>2, <1>3

\* The sort, the lower bound and the walk modulo the ring size always find
\* the healthy virtual node that comes next clockwise, for any ring.
THEOREM SelectionCorrect == Spec => []SelectsNextClockwise
  BY RingInvariant, WalkSelectsNext, PTL

-----------------------------------------------------------------------------
(* Affinity: what a key selects depends only on which virtual node comes    *)
(* first among the healthy ones.                                            *)

Up == {e \in Entries : healthy[e[1]]}

First(k, e) == e \in Up /\ \A x \in Up : Clockwise(k, e) <= Clockwise(k, x)

SelectedByFirst ==
    built => \A k \in Keys :
        /\ Up = {} => SelectService(k) = NoService
        /\ Up # {} => \E e \in Entries : First(k, e)
        /\ \A e \in Entries : First(k, e) => SelectService(k) = e[1]

\* There is one first virtual node, and its service is selected.
LEMMA FirstSelected == RingInv => SelectedByFirst
<1> SUFFICES ASSUME RingInv, built, NEW k \in Keys
             PROVE  /\ Up = {} => SelectService(k) = NoService
                    /\ Up # {} => \E e \in Entries : First(k, e)
                    /\ \A e \in Entries : First(k, e) => SelectService(k) = e[1]
  BY DEF SelectedByFirst
<1>1. CASE Up = {}
  BY <1>1, WalkSelectsNext DEF SelectsNextClockwise, Up, First
<1>2. CASE Up # {}
  <2>1. PICK y \in Up : SelectService(k) = y[1] /\ \A x \in Up : Clockwise(k, y) <= Clockwise(k, x)
    BY <1>2, WalkSelectsNext DEF SelectsNextClockwise, Up
  <2>2. y \in Entries /\ First(k, y)
    BY <2>1 DEF Up, First
  <2>3. ASSUME NEW e \in Entries, First(k, e) PROVE e = y
    <3>1. Clockwise(k, e) <= Clockwise(k, y) /\ Clockwise(k, y) <= Clockwise(k, e)
      BY <2>1, <2>3 DEF First
    <3>2. Clockwise(k, e) = Clockwise(k, y)
      <4>1. /\ Clockwise(k, e) \in 0..(HashSpace - 1)
            /\ Clockwise(k, y) \in 0..(HashSpace - 1)
        BY <2>2, <2>3, ClockwiseValue
      <4> QED BY <3>1, <4>1, ConsistentHashAssumption
    <3> QED BY <2>2, <2>3, <3>2, ClockwiseInjective
  <2> QED BY <1>2, <2>1, <2>2, <2>3
<1> QED BY <1>1, <1>2

\* When one service fails, only its own keys move; when it comes back, keys
\* only move to it.
THEOREM KeysStay == Spec => MinimalDisruption
<1> DEFINE Stays ==
        \A k \in Keys : \A s \in Services :
          /\ healthy[s] /\ ~healthy'[s] /\ SelectService(k) # s
                => SelectService(k)' = SelectService(k)
          /\ ~healthy[s] /\ healthy'[s] /\ SelectService(k)' # s
                => SelectService(k)' = SelectService(k)
<1>1. RingInv' => SelectedByFirst'
  BY FirstSelected, PTL
<1>2. ASSUME RingInv, RingInv', [Next]_vars PROVE [Stays]_vars
  <2> SUFFICES ASSUME NEW t \in Services, HealthChanges(t),
                      NEW k \in Keys, NEW s \in Services
               PROVE  /\ healthy[s] /\ ~healthy'[s] /\ SelectService(k) # s
                            => SelectService(k)' = SelectService(k)
                      /\ ~healthy[s] /\ healthy'[s] /\ SelectService(k)' # s
                            => SelectService(k)' = SelectService(k)
    BY <1>2 DEF Next, ConstructorThrew
  <2>1. /\ healthy \in [Services -> BOOLEAN]
        /\ healthy' = [healthy EXCEPT ![t] = ~healthy[t]]
        /\ built /\ built' /\ UNCHANGED vnodeHash
    BY <1>2 DEF RingInv, PoolTypeOK, HealthChanges, SetHealthy
  <2>2. SelectedByFirst /\ SelectedByFirst'
    BY <1>1, <1>2, FirstSelected
  <2>3. \A e \in Entries : Clockwise(k, e)' = Clockwise(k, e)
    BY <2>1 DEF Clockwise
  <2>4. ASSUME healthy[s], ~healthy'[s], SelectService(k) # s
        PROVE  SelectService(k)' = SelectService(k)
    <3>1. Up' = {e \in Up : e[1] # s}
      BY <2>1, <2>4 DEF Up, Entries
    <3>2. CASE Up = {}
      BY <2>1, <2>2, <3>1, <3>2 DEF SelectedByFirst
    <3>3. CASE Up # {}
      <4>1. PICK e \in Entries : First(k, e)
        BY <2>1, <2>2, <3>3 DEF SelectedByFirst
      <4>2. SelectService(k) = e[1]
        BY <2>1, <2>2, <4>1 DEF SelectedByFirst
      <4>3. First(k, e)'
        BY <2>3, <2>4, <3>1, <4>1, <4>2 DEF First, Up
      <4> QED BY <2>1, <2>2, <4>2, <4>3 DEF SelectedByFirst
    <3> QED BY <3>2, <3>3
  <2>5. ASSUME ~healthy[s], healthy'[s], SelectService(k)' # s
        PROVE  SelectService(k)' = SelectService(k)
    <3>1. Up = {e \in Up' : e[1] # s}
      BY <2>1, <2>5 DEF Up, Entries
    <3>2. CASE Up' = {}
      BY <2>1, <2>2, <3>1, <3>2 DEF SelectedByFirst
    <3>3. CASE Up' # {}
      <4>1. PICK e \in Entries : First(k, e)'
        BY <2>1, <2>2, <3>3 DEF SelectedByFirst
      <4>2. SelectService(k)' = e[1]
        BY <2>1, <2>2, <4>1 DEF SelectedByFirst
      <4>3. First(k, e)
        BY <2>3, <2>5, <3>1, <4>1, <4>2 DEF First, Up
      <4> QED BY <2>1, <2>2, <4>2, <4>3 DEF SelectedByFirst
    <3> QED BY <3>2, <3>3
  <2> QED BY <2>4, <2>5
<1>3. Spec => [][Next]_vars
  BY DEF Spec
<1> QED BY <1>2, <1>3, RingInvariant, PTL DEF MinimalDisruption
=============================================================================
