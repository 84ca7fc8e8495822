---------------------------- MODULE ServicePool ----------------------------
(* The state shared by the proxy, its sessions and the health checker:      *)
(* core/state/ServicePool.cpp and ServiceState.cpp.                         *)
EXTENDS Integers, FiniteSets

CONSTANTS Services,     \* the services of the configuration, fixed at start
          BadAddress,   \* those whose ip make_address() cannot parse: Load() accepts any text
          FailureCap    \* where the model stops counting failures

ASSUME ServicePoolAssumption ==
    /\ IsFiniteSet(Services)
    /\ BadAddress \subseteq Services
    /\ FailureCap \in Nat \ {0}

VARIABLES activeConnections,     \* m_activeConnections of every service
          healthy,               \* m_healthy
          consecutiveFailures    \* m_consecutiveFailures, up to FailureCap

poolVars == <<activeConnections, healthy, consecutiveFailures>>

PoolTypeOK ==
    /\ activeConnections \in [Services -> Nat]
    /\ healthy \in [Services -> BOOLEAN]
    /\ consecutiveFailures \in [Services -> 0..FailureCap]

\* ServicePool(nodes): one ServiceState per configured node, all healthy
PoolInit ==
    /\ activeConnections = [s \in Services |-> 0]
    /\ healthy = [s \in Services |-> TRUE]
    /\ consecutiveFailures = [s \in Services |-> 0]

\* The counters after one call on the counter of service s
IncrementConnections(counts, s) == [counts EXCEPT ![s] = @ + 1]

\* Mutant: the destructor forgets the counter.
DecrementConnectionsForgotten(counts, s) == counts

\* The compare-exchange loop: one less, and never below zero
DecrementConnections(counts, s) == [counts EXCEPT ![s] = IF @ > 0 THEN @ - 1 ELSE @]

\* The counter is only ever compared with a threshold of at most FailureCap,
\* so counting no further than FailureCap loses nothing.
IncrementFailures(s) ==
    consecutiveFailures' =
        [consecutiveFailures EXCEPT ![s] = IF @ < FailureCap THEN @ + 1 ELSE @]

ResetFailures(s) == consecutiveFailures' = [consecutiveFailures EXCEPT ![s] = 0]

SetHealthy(s, h) == healthy' = [healthy EXCEPT ![s] = h]
=============================================================================
