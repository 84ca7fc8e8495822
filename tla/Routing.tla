------------------------------ MODULE Routing ------------------------------
(* The two routing strategies of core/routing over the shared pool:        *)
(* P2CStrategy.cpp and ConsistentHashStrategy.cpp.  SelectService() returns *)
(* a service or a RoutingError; both errors make TcpProxy drop the client,  *)
(* so both are NoService here.                                              *)
EXTENDS ServicePool

CONSTANTS NoService,   \* a RoutingError
          VNodes        \* virtual nodes of each service, 0 .. VNODES_PER_SERVICE - 1

ASSUME RoutingAssumption ==
    /\ NoService \notin Services
    /\ IsFiniteSet(VNodes)

HealthyServices == {s \in Services : healthy[s]}

-----------------------------------------------------------------------------
(* Power of Two Choices.                                                    *)

\* Mutant: the comparison is the wrong way round.
HeavierOfTwo(a, b) == IF activeConnections[a] >= activeConnections[b] THEN a ELSE b

\* The lighter of the two, the first one on a tie
LighterOfTwo(a, b) == IF activeConnections[a] <= activeConnections[b] THEN a ELSE b

\* Every answer P2C may give: the random pair is any two different services.
P2C ==
    LET H == HealthyServices
    IN  IF H = {} THEN {NoService}
        ELSE IF Cardinality(H) = 1 THEN H
        ELSE {LighterOfTwo(p[1], p[2]) : p \in {q \in H \X H : q[1] # q[2]}}

-----------------------------------------------------------------------------
(* Consistent hashing.  hash gives the FNV-1a value of every "name#v".      *)

Entries == Services \X VNodes
RingSize == Cardinality(Entries)

\* The check after the sort: two neighbours with one hash value are fatal.
Collides(hash) == \E x, y \in Entries : x # y /\ hash[x] = hash[y]

\* An entry's index in the sorted ring
Rank(hash, e) == Cardinality({x \in Entries : hash[x] < hash[e]})

\* m_ring.at(idx).second of the sorted ring
RingAt(hash, idx) == (CHOOSE e \in Entries : Rank(hash, e) = idx)[1]

\* Mutant: counts the entries of healthy services only.
LowerBoundOfHealthy(hash, h) == Cardinality({x \in Entries : healthy[x[1]] /\ hash[x] < h})

\* Index of the first entry whose hash is not below the key's
LowerBound(hash, h) == Cardinality({x \in Entries : hash[x] < h})

\* Mutant: the walk ends at the end of the ring instead of wrapping around.
ProbeIndexNoWrap(start, walked) ==
    IF start + walked < RingSize THEN start + walked ELSE RingSize - 1

\* (startIdx + walked) % ringSize
ProbeIndex(start, walked) == (start + walked) % RingSize

\* The first healthy entry met when walking the whole ring from lower_bound
RingWalk(hash, h) ==
    LET start  == LowerBound(hash, h)
        hit(w) == healthy[RingAt(hash, ProbeIndex(start, w))]
        hits   == {w \in 0..(RingSize - 1) : hit(w)}
    IN  IF hits = {} THEN NoService
        ELSE RingAt(hash, ProbeIndex(start, CHOOSE w \in hits : \A x \in hits : w <= x))
=============================================================================
