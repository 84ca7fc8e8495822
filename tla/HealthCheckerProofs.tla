------------------------ MODULE HealthCheckerProofs ------------------------
(* Proofs about HealthChecker, for every set of services, threshold, number *)
(* of overlapping probes and bound on the counter.                          *)
EXTENDS HealthChecker, TLAPS

\* Type correctness and the agreement of health and failures are preserved
\* together: neither needs more than the other.
HealthInv == PoolTypeOK /\ HealthTypeOK /\ HealthMatchesFailures

\* The counter never goes beyond the cap and the threshold is at most the cap.
LEMMA ThresholdFacts ==
    /\ FailureCap \in Nat \ {0}
    /\ UnhealthyThreshold \in Nat
    /\ EffectiveThreshold \in 1..FailureCap
    /\ \A n \in Nat : n > 0 => (n >= UnhealthyThreshold <=> n >= EffectiveThreshold)
  BY ServicePoolAssumption, HealthCheckerAssumption DEF EffectiveThreshold

\* The pool starts healthy and with no failure counted.
LEMMA HealthInitInv == HealthSpecInit => HealthInv
<1> SUFFICES ASSUME HealthSpecInit PROVE HealthInv
  OBVIOUS
<1>1. PoolTypeOK
  BY ThresholdFacts DEF HealthSpecInit, PoolInit, PoolTypeOK
<1>2. HealthTypeOK
  BY DEF HealthSpecInit, HealthInit, HealthTypeOK, OpStatus
<1>3. HealthMatchesFailures
  BY ThresholdFacts DEF HealthSpecInit, PoolInit, HealthMatchesFailures
<1> QED BY <1>1, <1>2, <1>3 DEF HealthInv

\* Starting a probe in any slot keeps the table of a service well typed.
LEMMA StartType ==
    ASSUME NEW g \in [Slots -> OpStatus], NEW k
    PROVE  [g EXCEPT ![k] = "pending"] \in [Slots -> OpStatus]
  BY DEF OpStatus

\* What OnProbeResult() does to one service keeps health and failures in step.
LEMMA ResultKeepsAgreement ==
    ASSUME HealthInv, NEW s \in Services, Success(s) \/ Failure(s)
    PROVE  /\ healthy' \in [Services -> BOOLEAN]
           /\ consecutiveFailures' \in [Services -> 0..FailureCap]
           /\ HealthMatchesFailures'
<1>1. CASE Success(s)
  BY <1>1, ThresholdFacts
  DEF HealthInv, PoolTypeOK, HealthMatchesFailures, Success, ResetFailures, SetHealthy
<1>2. CASE Failure(s)
  <2>1. /\ consecutiveFailures' \in [Services -> 0..FailureCap]
        /\ \A t \in Services \ {s} : consecutiveFailures'[t] = consecutiveFailures[t]
        /\ consecutiveFailures'[s] = IF consecutiveFailures[s] < FailureCap
                                     THEN consecutiveFailures[s] + 1
                                     ELSE consecutiveFailures[s]
    BY <1>2, ThresholdFacts DEF HealthInv, PoolTypeOK, Failure, IncrementFailures
  <2>2. consecutiveFailures[s] \in 0..FailureCap
    BY DEF HealthInv, PoolTypeOK
  <2>3. consecutiveFailures'[s] > 0
    BY <2>1, <2>2, ThresholdFacts
  <2>4. ThresholdReached(s) <=> consecutiveFailures'[s] >= EffectiveThreshold
    BY <2>1, <2>3, ThresholdFacts DEF ThresholdReached
  <2>5. /\ healthy' \in [Services -> BOOLEAN]
        /\ \A t \in Services \ {s} : healthy'[t] = healthy[t]
        /\ healthy'[s] = IF ThresholdReached(s) THEN FALSE ELSE healthy[s]
    BY <1>2 DEF HealthInv, PoolTypeOK, Failure, SetHealthy
  <2>6. healthy'[s] <=> consecutiveFailures'[s] < EffectiveThreshold
    BY <2>1, <2>2, <2>4, <2>5, ThresholdFacts DEF HealthInv, HealthMatchesFailures
  <2>7. ASSUME NEW t \in Services \ {s}
        PROVE  healthy'[t] <=> consecutiveFailures'[t] < EffectiveThreshold
    BY <2>1, <2>5 DEF HealthInv, HealthMatchesFailures
  <2>8. EffectiveThreshold' = EffectiveThreshold
    BY DEF EffectiveThreshold
  <2> QED BY <2>1, <2>5, <2>6, <2>7, <2>8 DEF HealthMatchesFailures
<1> QED BY <1>1, <1>2

\* One step per action of the checker.
LEMMA HealthNextInv == HealthInv /\ [HealthNext]_allHealthVars => HealthInv'
<1> SUFFICES ASSUME HealthInv, [HealthNext]_allHealthVars PROVE HealthInv'
  OBVIOUS
<1> USE DEF HealthInv
\* All but OnProbeResult leave the pool alone.
<1>pool. ASSUME UNCHANGED poolVars PROVE PoolTypeOK' /\ HealthMatchesFailures'
  BY <1>pool DEF poolVars, PoolTypeOK, HealthMatchesFailures, EffectiveThreshold
<1>1. CASE UNCHANGED allHealthVars
  BY <1>1, <1>pool DEF allHealthVars, healthVars, HealthTypeOK
<1>2. CASE HealthNext
  <2>1. ASSUME NEW s \in Services, NEW r \in Reach, ReachChanges(s, r), UNCHANGED activeConnections
        PROVE  HealthInv'
    BY <2>1, <1>pool DEF ReachChanges, HealthTypeOK, poolVars
  <2>2. ASSUME RoundExpires, UNCHANGED activeConnections PROVE HealthInv'
    BY <2>2, <1>pool DEF RoundExpires, HealthTypeOK, poolVars, OpStatus
  <2>3. ASSUME OnRound, UNCHANGED activeConnections PROVE HealthInv'
    <3>1. PoolTypeOK' /\ HealthMatchesFailures'
      BY <2>3, <1>pool DEF OnRound, poolVars
    <3>2. /\ stopped' \in BOOLEAN /\ reach' \in [Services -> Reach]
          /\ fatal' \in BOOLEAN /\ round' \in OpStatus
      BY <2>3 DEF OnRound, HealthTypeOK, OpStatus
    <3>3. ProbeAll \/ UNCHANGED <<connect, timer>>
      BY <2>3, Zenon DEF OnRound
    <3>4. /\ connect' \in [Services -> [Slots -> OpStatus]]
          /\ timer' \in [Services -> [Slots -> OpStatus]]
      <4>1. CASE UNCHANGED <<connect, timer>>
        BY <4>1 DEF HealthTypeOK
      <4>2. CASE ProbeAll
        <5> DEFINE slot(s) == CHOOSE k \in FreeSlots(s) : TRUE
                   started(f) == [s \in Services |-> [f[s] EXCEPT ![slot(s)] = "pending"]]
        <5>1. connect' = started(connect) /\ timer' = started(timer)
          BY <4>2 DEF ProbeAll
        <5>2. ASSUME NEW f \in [Services -> [Slots -> OpStatus]]
              PROVE  started(f) \in [Services -> [Slots -> OpStatus]]
          <6>1. ASSUME NEW s \in Services
                PROVE  [f[s] EXCEPT ![slot(s)] = "pending"] \in [Slots -> OpStatus]
            <7> HIDE DEF slot
            <7> QED BY StartType
          <6> HIDE DEF slot
          <6> QED BY <6>1
        <5> HIDE DEF started
        <5> QED BY <5>1, <5>2 DEF HealthTypeOK
      <4> QED BY <3>3, <4>1, <4>2
    <3> QED BY <3>1, <3>2, <3>4 DEF HealthTypeOK
  <2>4. ASSUME NEW s \in Services, NEW k \in Slots, NEW r \in {"ok", "error"},
               ProbeEnds(s, k, r), UNCHANGED activeConnections
        PROVE  HealthInv'
    BY <2>4, <1>pool DEF ProbeEnds, HealthTypeOK, poolVars, OpStatus
  <2>5. ASSUME NEW s \in Services, NEW k \in Slots, ProbeTimerExpires(s, k),
               UNCHANGED activeConnections
        PROVE  HealthInv'
    BY <2>5, <1>pool DEF ProbeTimerExpires, HealthTypeOK, poolVars, OpStatus
  <2>6. ASSUME NEW s \in Services, NEW k \in Slots, OnProbeTimer(s, k),
               UNCHANGED activeConnections
        PROVE  HealthInv'
    BY <2>6, <1>pool DEF OnProbeTimer, HealthTypeOK, poolVars, OpStatus, Cancelled
  <2>7. ASSUME NEW s \in Services, NEW k \in Slots, OnProbeResult(s, k),
               UNCHANGED activeConnections
        PROVE  HealthInv'
    <3>1. Success(s) \/ Failure(s)
      BY <2>7 DEF OnProbeResult
    <3>2. PoolTypeOK' /\ HealthMatchesFailures'
      BY <2>7, <3>1, ResultKeepsAgreement DEF PoolTypeOK
    <3>3. HealthTypeOK'
      BY <2>7 DEF OnProbeResult, HealthTypeOK, OpStatus
    <3> QED BY <3>2, <3>3
  <2>8. ASSUME StopChecker, UNCHANGED activeConnections PROVE HealthInv'
    BY <2>8, <1>pool DEF StopChecker, HealthTypeOK, poolVars, OpStatus, Cancelled
  <2> QED BY <1>2, <2>1, <2>2, <2>3, <2>4, <2>5, <2>6, <2>7, <2>8
          DEF HealthNext, HealthStep, ProbeStep
<1> QED BY <1>1, <1>2

\* The invariant holds in every state the checker reaches.
LEMMA HealthInvariant == HealthSpec => []HealthInv
  BY HealthInitInv, HealthNextInv, PTL DEF HealthSpec

\* Type correctness of the health checker and of the pool it writes.
THEOREM HealthTypeCorrect == HealthSpec => [](PoolTypeOK /\ HealthTypeOK)
  BY HealthInvariant, PTL DEF HealthInv

\* A service is out of rotation exactly while it has failed its threshold of
\* probes in a row, in every order in which overlapping probes report.
THEOREM HealthAgreement == HealthSpec => []HealthMatchesFailures
  BY HealthInvariant, PTL DEF HealthInv

\* What NoProbeAfterStop says of one step
NoStart == stopped => \A s \in Services, k \in Slots :
              connect[s][k] = "none" => connect'[s][k] = "none"

\* Every action that starts a probe tests m_stopped.
LEMMA NoStartStep == ASSUME HealthInv, HealthNext PROVE NoStart
<1> SUFFICES ASSUME stopped, NEW t \in Services, NEW j \in Slots, connect[t][j] = "none"
             PROVE  connect'[t][j] = "none"
  BY DEF NoStart
<1>0. connect \in [Services -> [Slots -> OpStatus]]
  BY DEF HealthInv, HealthTypeOK
<1>1. ASSUME NEW s \in Services, NEW r \in Reach, ReachChanges(s, r)
      PROVE  connect'[t][j] = "none"
  BY <1>1 DEF ReachChanges
<1>2. CASE RoundExpires
  BY <1>2 DEF RoundExpires
<1>3. CASE OnRound
  BY <1>3 DEF OnRound, RoundEnds
<1>4. ASSUME NEW s \in Services, NEW k \in Slots, ProbeStep(s, k)
      PROVE  connect'[t][j] = "none"
  <2>1. UNCHANGED connect \/ \E v \in OpStatus \ {"pending"} :
           /\ connect[s][k] # "none" \/ v = "none"
           /\ connect' = [connect EXCEPT ![s][k] = v]
    <3>1. connect[s][k] \in OpStatus
      BY <1>0
    <3>2. CASE \E r \in {"ok", "error"} : ProbeEnds(s, k, r)
      BY <3>2 DEF ProbeEnds, OpStatus
    <3>3. CASE ProbeTimerExpires(s, k)
      BY <3>3 DEF ProbeTimerExpires
    <3>4. CASE OnProbeTimer(s, k)
      BY <3>1, <3>4 DEF OnProbeTimer, OpStatus, Cancelled
    <3>5. CASE OnProbeResult(s, k)
      BY <3>5 DEF OnProbeResult, OpStatus
    <3> QED BY <1>4, <3>2, <3>3, <3>4, <3>5 DEF ProbeStep
  <2> QED BY <1>0, <2>1
<1>5. CASE StopChecker
  BY <1>5 DEF StopChecker
<1> QED BY <1>1, <1>2, <1>3, <1>4, <1>5 DEF HealthNext, HealthStep

\* Once stopped, the checker starts no probe, also when the round's handler
\* was queued before Stop().
THEOREM NoProbeOnceStopped == HealthSpec => NoProbeAfterStop
<1>1. ASSUME HealthInv, [HealthNext]_allHealthVars PROVE [NoStart]_allHealthVars
  BY <1>1, NoStartStep
<1>2. HealthSpec => [][HealthNext]_allHealthVars
  BY DEF HealthSpec
<1> QED BY <1>1, <1>2, HealthInvariant, PTL DEF NoProbeAfterStop, NoStart
=============================================================================
