--------------------------- MODULE ConsistentHash ---------------------------
(* ConsistentHashStrategy over the whole life of a pool: the constructor    *)
(* builds the ring (or throws) for some outcome of the hash function, then  *)
(* the health of the services changes and every client keeps asking.        *)
EXTENDS Routing

CONSTANTS HashSpace,    \* hash values are 0 .. HashSpace - 1 (2^64 in the code)
          Keys          \* hash values of the routing keys, a subset

ASSUME ConsistentHashAssumption ==
    /\ HashSpace \in Nat \ {0}
    /\ Keys \subseteq 0..(HashSpace - 1)

VARIABLES vnodeHash,    \* fnv::Hash64("name#v") of every virtual node
          built         \* the constructor returned (it throws on a collision)

vars == <<poolVars, vnodeHash, built>>

Init ==
    /\ PoolInit
    /\ vnodeHash \in [Entries -> 0..(HashSpace - 1)]
    /\ built = ~Collides(vnodeHash)

\* HealthChecker::OnProbeResult() flips a service; the ring never changes.
HealthChanges(s) ==
    /\ built
    /\ SetHealthy(s, ~healthy[s])
    /\ UNCHANGED <<activeConnections, consecutiveFailures, vnodeHash, built>>

\* HashCollisionError: main() reports it and returns 1.
ConstructorThrew == ~built /\ UNCHANGED vars

Next == (\E s \in Services : HealthChanges(s)) \/ ConstructorThrew

Spec == Init /\ [][Next]_vars

-----------------------------------------------------------------------------
SelectService(k) == RingWalk(vnodeHash, k)

\* Distance from a key to a virtual node, clockwise
Clockwise(k, e) == (vnodeHash[e] - k) % HashSpace

\* The index arithmetic of SelectService() (sort, lower_bound, walk modulo the
\* ring size) finds the healthy virtual node that comes next clockwise.
SelectsNextClockwise ==
    built => \A k \in Keys :
        LET up == {e \in Entries : healthy[e[1]]}
        IN  IF up = {} THEN SelectService(k) = NoService
            ELSE \E e \in up : /\ SelectService(k) = e[1]
                               /\ \A x \in up : Clockwise(k, e) <= Clockwise(k, x)

\* Affinity: when a service fails only its own keys move, and when it comes
\* back keys only move to it.
MinimalDisruption ==
    [][ \A k \in Keys : \A s \in Services :
          /\ healthy[s] /\ ~healthy'[s] /\ SelectService(k) # s
                => SelectService(k)' = SelectService(k)
          /\ ~healthy[s] /\ healthy'[s] /\ SelectService(k)' # s
                => SelectService(k)' = SelectService(k) ]_vars
=============================================================================
