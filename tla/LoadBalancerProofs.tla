------------------------- MODULE LoadBalancerProofs -------------------------
(* Proofs about the whole program, for every number of clients, services    *)
(* and overlapping probes, both strategies, with health checks on and off.  *)
(* The invariants of the proxy and of the health checker were proved of     *)
(* each by itself; here they share one pool, one event loop and one end.    *)
EXTENDS LoadBalancer, TcpProxyProofs, HealthCheckerProofs

ProgramTypeOK ==
    /\ signalOp \in {"pending", "ok", "none"}
    /\ exitCode \in {"running", "ok", "failed"}

\* The handler runs at most once: until it does, nothing has been stopped.
SignalOK == signalOp # "none" => listening /\ ~stopped

\* What lets run() return is all of the state CleanExitDrained speaks of, and
\* the pool's counters follow from the sessions by ConnectionsCounted.
ProgramInv ==
    ProxyInv /\ HealthInv /\ ProgramTypeOK /\ SignalOK /\ CleanExitDrained

-----------------------------------------------------------------------------
\* main() reaches run() in a state of the invariant, also without a checker.
LEMMA ProgramInitInv == Init => ProgramInv
<1> SUFFICES ASSUME Init PROVE ProgramInv
  OBVIOUS
<1>1. ProxyInv
  BY ProxyInitInv DEF Init, ProxySpecInit
<1>2. HealthInv
  <2>1. CASE HealthEnabled
    BY <2>1, HealthInitInv DEF Init, HealthSpecInit
  <2>2. CASE ~HealthEnabled
    <3>1. PoolTypeOK
      BY <1>1 DEF ProxyInv
    <3>2. HealthTypeOK
      <4>1. /\ stopped = FALSE /\ round = "none" /\ fatal = FALSE
            /\ connect = [s \in Services |-> [k \in Slots |-> "none"]]
            /\ timer = [s \in Services |-> [k \in Slots |-> "none"]]
            /\ reach = [s \in Services |-> "up"]
        BY <2>2 DEF Init
      <4> QED BY <4>1 DEF HealthTypeOK, OpStatus, Reach
    <3>3. HealthMatchesFailures
      BY ThresholdFacts DEF Init, PoolInit, HealthMatchesFailures
    <3> QED BY <3>1, <3>2, <3>3 DEF HealthInv
  <2> QED BY <2>1, <2>2
<1>3. ~stopped
  BY LoadBalancerAssumption DEF Init, HealthInit
<1> QED BY <1>1, <1>2, <1>3
        DEF ProgramInv, ProgramTypeOK, SignalOK, CleanExitDrained, Init, ProxyInit

\* The proxy's invariant survives every step that writes only the health side
\* of the pool, or ends the program with an exception.
LEMMA ProxyInvKept ==
    ASSUME ProxyInv, UNCHANGED <<proxyVars, activeConnections>>,
           PoolTypeOK', fatal' \in BOOLEAN, fatal => fatal'
    PROVE  ProxyInv'
<1>1. UNCHANGED <<listening, acceptOp, accepted, clients, reset, backend>>
  BY DEF proxyVars
<1>2. ProxyTypeOK' /\ AcceptOK' /\ BackendOK' /\ AlwaysAccepting'
  BY <1>1 DEF ProxyInv, ProxyTypeOK, AcceptOK, BackendOK, AlwaysAccepting, Live
<1>3. ConnectionsCounted'
  BY <1>1, CountedStable DEF ProxyInv, Live
<1> QED BY <1>2, <1>3 DEF ProxyInv

\* The checker's invariant survives every step of the proxy.
LEMMA HealthInvKept ==
    ASSUME HealthInv, UNCHANGED <<healthVars, healthy, consecutiveFailures>>,
           PoolTypeOK', fatal' \in BOOLEAN
    PROVE  HealthInv'
<1>1. HealthTypeOK'
  BY DEF HealthInv, HealthTypeOK, healthVars
<1>2. HealthMatchesFailures'
  BY DEF HealthInv, HealthMatchesFailures, EffectiveThreshold
<1> QED BY <1>1, <1>2 DEF HealthInv

\* Handlers of the health checker never take back an exception.
LEMMA HealthFatal == ASSUME HealthStep PROVE fatal => fatal'
  BY DEF HealthStep, ReachChanges

\* Nothing is listening, no session is left and no connection is counted when
\* run() returns.
LEMMA ReturnsDrained == ASSUME ProgramInv, RunReturns PROVE CleanExitDrained'
<1>1. ~listening /\ \A c \in Clients : ~Live(c)
  BY DEF ProgramInv, ProxyInv, RunReturns, OutstandingWork, AlwaysAccepting
<1>2. ASSUME NEW s \in Services PROVE activeConnections[s] = 0
  <2>1. SessionsOn(s) = {}
    BY <1>1 DEF SessionsOn
  <2> QED BY <2>1, FS_EmptySet DEF ProgramInv, ProxyInv, ConnectionsCounted
<1>3. UNCHANGED <<listening, clients, activeConnections>>
  BY DEF RunReturns, proxyVars, poolVars
<1> QED BY <1>1, <1>2, <1>3 DEF CleanExitDrained, Live

\* One step per action of the program.
LEMMA ProgramNextInv == ProgramInv /\ [Next]_lbVars => ProgramInv'
<1> SUFFICES ASSUME ProgramInv, [Next]_lbVars PROVE ProgramInv'
  OBVIOUS
<1>i. ProxyInv /\ HealthInv /\ ProgramTypeOK /\ SignalOK /\ CleanExitDrained
  BY DEF ProgramInv
<1>r. ASSUME exitCode' # "ok" PROVE CleanExitDrained'
  BY <1>r DEF CleanExitDrained
<1>1. CASE Proxying
  <2>1. ProxyStep /\ UNCHANGED <<healthVars, healthy, consecutiveFailures, signalOp, exitCode>>
        /\ exitCode = "running"
    BY <1>1 DEF Proxying
  <2>2. ProxyInv'
    BY <1>i, <2>1, ProxyNextInv DEF ProxyNext
  <2>3. HealthInv'
    BY <1>i, <2>1, <2>2, HealthInvKept DEF ProxyInv, ProxyTypeOK
  <2>4. UNCHANGED listening
    BY <2>1 DEF ProxyStep, ClientConnects, ClientResets, AcceptCompletes, SessionCloses,
       SessionDestroyed, AcceptFails, OnAccept
  <2>5. ProgramTypeOK' /\ SignalOK'
    BY <1>i, <2>1, <2>4 DEF ProgramTypeOK, SignalOK, healthVars
  <2> QED BY <1>r, <2>1, <2>2, <2>3, <2>5 DEF ProgramInv
<1>2. CASE Probing
  <2>1. HealthStep /\ UNCHANGED <<proxyVars, activeConnections, signalOp, exitCode>>
        /\ exitCode = "running"
    BY <1>2 DEF Probing
  <2>2. HealthInv'
    BY <1>i, <2>1, HealthNextInv DEF HealthNext
  <2>3. ProxyInv'
    BY <1>i, <2>1, <2>2, ProxyInvKept, HealthFatal DEF HealthInv, HealthTypeOK
  <2>4. UNCHANGED stopped
    BY <2>1 DEF HealthStep, ReachChanges, RoundExpires, OnRound, ProbeStep, ProbeEnds,
       ProbeTimerExpires, OnProbeTimer, OnProbeResult
  <2>5. ProgramTypeOK' /\ SignalOK'
    BY <1>i, <2>1, <2>4 DEF ProgramTypeOK, SignalOK, proxyVars
  <2> QED BY <1>r, <2>1, <2>2, <2>3, <2>5 DEF ProgramInv
<1>same. ASSUME UNCHANGED <<proxyVars, healthVars, poolVars, fatal>>
         PROVE  ProxyInv' /\ HealthInv'
  <2>1. PoolTypeOK' /\ fatal' \in BOOLEAN
    BY <1>i, <1>same DEF ProxyInv, PoolTypeOK, poolVars, ProxyTypeOK
  <2> QED BY <1>i, <1>same, <2>1, ProxyInvKept, HealthInvKept DEF poolVars
<1>3. CASE SignalArrives
  BY <1>3, <1>i, <1>r, <1>same
  DEF SignalArrives, ProgramInv, ProgramTypeOK, SignalOK, proxyVars, healthVars
<1>4. CASE OnSignal
  <2>1. /\ exitCode' = "running" /\ ~fatal /\ signalOp = "ok" /\ signalOp' = "none"
        /\ StopHealth /\ Stop
    BY <1>4 DEF OnSignal
  <2>2. listening /\ ~stopped
    BY <1>i, <2>1 DEF SignalOK
  <2>3. UNCHANGED <<healthy, consecutiveFailures, fatal, activeConnections>>
    BY <2>1 DEF StopHealth, StopChecker, Stop
  <2>4. ProxyInv'
    BY <1>i, <2>1, <2>2, <2>3, ProxyNextInv DEF ProxyNext
  <2>5. HealthInv'
    <3>1. CASE HealthEnabled
      BY <3>1, <1>i, <2>1, <2>2, <2>3, HealthNextInv DEF HealthNext, StopHealth
    <3>2. CASE ~HealthEnabled
      BY <3>2, <1>i, <2>1, <2>3, <2>4, HealthInvKept DEF StopHealth, ProxyInv, ProxyTypeOK
    <3> QED BY <3>1, <3>2
  <2> QED BY <1>r, <2>1, <2>4, <2>5 DEF ProgramInv, ProgramTypeOK, SignalOK
<1>5. CASE RunReturns
  <2>1. CleanExitDrained'
    BY <1>5, ReturnsDrained
  <2> QED BY <1>5, <1>i, <1>same, <2>1
          DEF RunReturns, ProgramInv, ProgramTypeOK, SignalOK, proxyVars, healthVars
<1>6. CASE RunThrows
  BY <1>6, <1>i, <1>r, <1>same
  DEF RunThrows, ProgramInv, ProgramTypeOK, SignalOK, proxyVars, healthVars
<1>7. CASE UNCHANGED lbVars
  <2>1. UNCHANGED <<proxyVars, healthVars, poolVars, fatal, signalOp, exitCode>>
    BY <1>7 DEF lbVars
  <2>2. CleanExitDrained'
    BY <1>i, <2>1 DEF CleanExitDrained, proxyVars, poolVars, Live
  <2> QED BY <1>i, <1>same, <2>1, <2>2
          DEF ProgramInv, ProgramTypeOK, SignalOK, proxyVars, healthVars
<1> QED BY <1>1, <1>2, <1>3, <1>4, <1>5, <1>6, <1>7 DEF Next, Exited

\* The invariant holds in every state the program reaches.
LEMMA ProgramInvariant == Spec => []ProgramInv
  BY ProgramInitInv, ProgramNextInv, PTL DEF Spec

-----------------------------------------------------------------------------
\* Type correctness of the whole program.
THEOREM ProgramTypeCorrect ==
    Spec => [](PoolTypeOK /\ ProxyTypeOK /\ HealthTypeOK /\ ProgramTypeOK)
  BY ProgramInvariant, PTL DEF ProgramInv, ProxyInv, HealthInv

\* main() returns 0 only after a signal has closed the acceptor, with every
\* session destroyed and every counter back at zero.
THEOREM CleanExit == Spec => []CleanExitDrained
  BY ProgramInvariant, PTL DEF ProgramInv

\* Sharing the pool and the event loop costs neither component its guarantee:
\* the counters stay exact and the accept loop goes on while probes flip the
\* services, and health agrees with the failures while sessions come and go.
THEOREM ComponentsCompose ==
    Spec => [](ConnectionsCounted /\ AlwaysAccepting /\ HealthMatchesFailures)
  BY ProgramInvariant, PTL DEF ProgramInv, ProxyInv, HealthInv

\* Whatever the probes do to the pool meanwhile, a new session goes to a
\* service that is healthy, and not the busiest, when OnAccept() runs.
THEOREM ProgramBalances == Spec => NewSessionsBalanced
<1>1. ASSUME ProgramInv, [Next]_lbVars
      PROVE  [\A c \in Clients : Balanced(c)]_allProxyVars
  <2> SUFFICES ASSUME Next, NEW c \in Clients PROVE Balanced(c)
    BY <1>1 DEF lbVars, allProxyVars
  <2>1. CASE Proxying
    BY <1>1, <2>1, BalancedStep DEF ProgramInv, Proxying, ProxyNext
  <2>2. CASE OnSignal
    BY <2>2 DEF OnSignal, Stop, Balanced, Live
  <2>3. CASE UNCHANGED proxyVars
    BY <2>3 DEF proxyVars, Balanced, Live
  <2> QED BY <2>1, <2>2, <2>3 DEF Next, Probing, SignalArrives, RunReturns, RunThrows, Exited,
             lbVars
<1>2. Spec => [][Next]_lbVars
  BY DEF Spec
<1> QED BY <1>1, <1>2, ProgramInvariant, PTL DEF NewSessionsBalanced, Balanced

\* After the signal the program starts no probe, with or without a round's
\* handler in the queue.
THEOREM ProgramStopsProbing == Spec => NoProbeAfterStop
<1>1. ASSUME ProgramInv, [Next]_lbVars PROVE [NoStart]_allHealthVars
  <2> SUFFICES ASSUME Next PROVE NoStart
    BY <1>1 DEF lbVars, allHealthVars
  <2>1. CASE Probing
    BY <1>1, <2>1, NoStartStep DEF ProgramInv, Probing, HealthNext
  <2>2. CASE UNCHANGED connect
    BY <2>2 DEF NoStart
  <2> QED BY <2>1, <2>2 DEF Next, Proxying, SignalArrives, OnSignal, StopHealth, StopChecker,
             RunReturns, RunThrows, Exited, lbVars, healthVars
<1>2. Spec => [][Next]_lbVars
  BY DEF Spec
<1> QED BY <1>1, <1>2, ProgramInvariant, PTL DEF NoProbeAfterStop, NoStart
=============================================================================
