--------------------------- MODULE HealthChecker ---------------------------
(* The active health checks of core/health/HealthChecker.cpp.  A round      *)
(* timer starts one TCP connect probe per service; a probe has a timeout of *)
(* its own and reports to OnProbeResult().  Nothing makes a round wait for  *)
(* the previous one, so probes of one service may overlap and their results *)
(* arrive in any order; nothing recalls a probe when the checker stops.     *)
EXTENDS ServicePool, EventLoop

CONSTANTS UnhealthyThreshold,   \* m_config.GetUnhealthyThreshold()
          Slots                 \* bound: probes of one service in flight

ASSUME HealthCheckerAssumption ==
    /\ UnhealthyThreshold \in 0..FailureCap
    /\ IsFiniteSet(Slots) /\ Slots # {}

VARIABLES stopped,   \* m_stopped
          round,     \* the wait on m_timer
          connect,   \* connect[s][k]: async_connect of a probe of s
          timer,     \* timer[s][k]: the wait on that probe's timer
          reach      \* how the backend answers: "up", "slow", "down"

healthVars == <<stopped, round, connect, timer, reach>>

\* "up" answers well within the timeout, "slow" about as fast as the timer,
\* "down" refuses or is silent.
Reach == {"up", "slow", "down"}

HealthTypeOK ==
    /\ stopped \in BOOLEAN
    /\ round \in OpStatus
    /\ connect \in [Services -> [Slots -> OpStatus]]
    /\ timer \in [Services -> [Slots -> OpStatus]]
    /\ reach \in [Services -> Reach]
    /\ fatal \in BOOLEAN

\* The constructor and Start(), which schedules the first round
HealthInit ==
    /\ stopped = FALSE
    /\ round = "pending"
    /\ connect = [s \in Services |-> [k \in Slots |-> "none"]]
    /\ timer = [s \in Services |-> [k \in Slots |-> "none"]]
    /\ reach \in [Services -> Reach]

-----------------------------------------------------------------------------
(* The clock and the backends.                                              *)

ReachChanges(s, r) ==
    /\ reach[s] # r
    /\ reach' = [reach EXCEPT ![s] = r]
    /\ UNCHANGED <<stopped, round, connect, timer, healthy, consecutiveFailures, fatal>>

\* The guard on the slots is the bound on probes in flight.
FreeSlots(s) == {k \in Slots : connect[s][k] = "none"}

RoundExpires ==
    /\ round = "pending"
    /\ \A s \in Services : FreeSlots(s) # {}
    /\ round' = "ok"
    /\ UNCHANGED <<stopped, connect, timer, reach, healthy, consecutiveFailures, fatal>>

ProbeEnds(s, k, result) ==
    /\ connect[s][k] = "pending"
    /\ IF result = "ok" THEN reach[s] # "down" ELSE reach[s] = "down"
    /\ connect' = [connect EXCEPT ![s][k] = result]
    /\ UNCHANGED <<stopped, round, timer, reach, healthy, consecutiveFailures, fatal>>

ProbeTimerExpires(s, k) ==
    /\ timer[s][k] = "pending"
    /\ reach[s] # "up"
    /\ timer' = [timer EXCEPT ![s][k] = "ok"]
    /\ UNCHANGED <<stopped, round, connect, reach, healthy, consecutiveFailures, fatal>>

-----------------------------------------------------------------------------
(* HealthChecker.                                                           *)

\* ProbeOne() for every service: a timer and a connect each.
ProbeAll ==
    LET slot(s) == CHOOSE k \in FreeSlots(s) : TRUE
        started(f) == [s \in Services |-> [f[s] EXCEPT ![slot(s)] = "pending"]]
    IN  connect' = started(connect) /\ timer' = started(timer)

\* Mutant: trusts the timer's error code alone.
RoundEndsOnError == round = "aborted"

\* ec || m_stopped in the round's handler
RoundEnds == round = "aborted" \/ stopped

OnRound ==
    /\ round \in {"ok", "aborted"}
    /\ IF RoundEnds
       THEN round' = "none" /\ UNCHANGED <<connect, timer, fatal>>
       ELSE IF BadAddress = {}
            THEN ProbeAll /\ round' = "pending" /\ UNCHANGED fatal
            ELSE \* make_address() throws out of ProbeOne()
                 fatal' = TRUE /\ round' = "none" /\ UNCHANGED <<connect, timer>>
    /\ UNCHANGED <<stopped, reach, healthy, consecutiveFailures>>

\* Mutant: the timeout passes without closing the socket.
OnProbeTimerKeepsSocket(s, k) ==
    /\ timer[s][k] = "ok"
    /\ timer' = [timer EXCEPT ![s][k] = "none"]
    /\ UNCHANGED <<stopped, round, connect, reach, healthy, consecutiveFailures, fatal>>

\* The probe's timeout closes its socket; a connect that has already
\* completed keeps its outcome.
OnProbeTimer(s, k) ==
    /\ timer[s][k] = "ok"
    /\ timer' = [timer EXCEPT ![s][k] = "none"]
    /\ connect' = [connect EXCEPT ![s][k] = Cancelled(@)]
    /\ UNCHANGED <<stopped, round, reach, healthy, consecutiveFailures, fatal>>

\* Mutant: compares the counter before the failure is counted.
ThresholdReachedLate(s) == consecutiveFailures[s] >= UnhealthyThreshold

\* Mutant: one failure too many.
ThresholdReachedOffByOne(s) == consecutiveFailures'[s] > UnhealthyThreshold

\* svc.GetConsecutiveFailures() >= threshold, after IncrementFailures()
ThresholdReached(s) == consecutiveFailures'[s] >= UnhealthyThreshold

Failure(s) ==
    /\ IncrementFailures(s)
    /\ IF ThresholdReached(s) /\ healthy[s] THEN SetHealthy(s, FALSE) ELSE UNCHANGED healthy

\* Mutant: a success clears the count and leaves the service out of rotation.
SuccessKeepsUnhealthy(s) == ResetFailures(s) /\ UNCHANGED healthy

Success(s) == ResetFailures(s) /\ SetHealthy(s, TRUE)

\* The connect handler: timer->cancel(), OnProbeResult().  The handler of the
\* probe's timer may still be queued; it only touches the probe's own socket,
\* which is finished with, so the slot is free from here on.
OnProbeResult(s, k) ==
    /\ connect[s][k] \in {"ok", "error", "aborted"}
    /\ IF connect[s][k] = "ok" THEN Success(s) ELSE Failure(s)
    /\ connect' = [connect EXCEPT ![s][k] = "none"]
    /\ timer' = [timer EXCEPT ![s][k] = "none"]
    /\ UNCHANGED <<stopped, round, reach, fatal>>

\* A probe in flight connects or times out.
ProbeSettles(s, k) == ProbeEnds(s, k, "ok") \/ ProbeTimerExpires(s, k)

StopChecker ==
    /\ stopped' = TRUE
    /\ round' = Cancelled(round)
    /\ UNCHANGED <<connect, timer, reach, healthy, consecutiveFailures, fatal>>

ProbeStep(s, k) ==
    \/ \E r \in {"ok", "error"} : ProbeEnds(s, k, r)
    \/ ProbeTimerExpires(s, k)
    \/ OnProbeTimer(s, k)
    \/ OnProbeResult(s, k)

\* Everything but StopChecker, which the program calls from its signal handler
HealthStep ==
    \/ \E s \in Services, r \in Reach : ReachChanges(s, r)
    \/ /\ ~fatal
       /\ \/ RoundExpires
          \/ OnRound
          \/ \E s \in Services, k \in Slots : ProbeStep(s, k)

(* The checker by itself, stopped at any moment.                            *)
HealthSpecInit == PoolInit /\ HealthInit /\ fatal = FALSE

HealthNext ==
    /\ HealthStep \/ (~fatal /\ ~stopped /\ StopChecker)
    /\ UNCHANGED activeConnections

allHealthVars == <<healthVars, poolVars, fatal>>

(* Time passes and run() serves queued handlers.  A probe ends by itself or *)
(* its timer expires, which of the two is the backend's choice; a backend   *)
(* that is down need not refuse.                                            *)
Running(A) == A /\ ~fatal /\ UNCHANGED activeConnections

HealthFairness ==
    /\ WF_allHealthVars(Running(RoundExpires))
    /\ WF_allHealthVars(Running(OnRound))
    /\ \A s \in Services, k \in Slots :
         /\ WF_allHealthVars(Running(ProbeSettles(s, k)))
         /\ WF_allHealthVars(Running(OnProbeTimer(s, k)))
         /\ WF_allHealthVars(Running(OnProbeResult(s, k)))

HealthSpec == HealthSpecInit /\ [][HealthNext]_allHealthVars /\ HealthFairness

-----------------------------------------------------------------------------
(* Properties.                                                              *)

\* Failures in a row that take a service out of rotation: a threshold of 0
\* acts as 1, because OnProbeResult() counts before it compares.
EffectiveThreshold == IF UnhealthyThreshold = 0 THEN 1 ELSE UnhealthyThreshold

\* The two fields OnProbeResult() writes separately never disagree: a service
\* is out of rotation exactly while it has failed that many probes in a row,
\* with overlapping and late results too.
HealthMatchesFailures ==
    \A s \in Services : healthy[s] <=> consecutiveFailures[s] < EffectiveThreshold

\* Once stopped no probe is started, although the round's handler may have
\* been queued before Stop() could cancel it.
NoProbeAfterStop ==
    [][ stopped => \A s \in Services, k \in Slots :
          connect[s][k] = "none" => connect'[s][k] = "none" ]_allHealthVars

\* A backend that goes down for good is taken out of rotation for good, even
\* if it never answers, unless the checker is stopped.
DownDetected ==
    \A s \in Services : <>[](reach[s] = "down") => <>[](~healthy[s] \/ stopped)

\* A backend that comes up for good returns to rotation for good.
UpRecovers ==
    \A s \in Services : <>[](reach[s] = "up") => <>[](healthy[s] \/ stopped)

\* After Stop() the checker leaves no work behind that would keep run() from
\* returning: the round ends and every probe in flight finishes.
StopDrains ==
    stopped ~> (round = "none" /\ \A s \in Services : FreeSlots(s) = Slots)
=============================================================================
