--------------------------- MODULE BenchmarkProofs ---------------------------
(* Theorems about Benchmark and the load it runs, for any number of         *)
(* requests and connections.                                                *)
EXTENDS Benchmark, FiniteSetTheorems, TLAPS

-----------------------------------------------------------------------------
(* The load.                                                                *)

Ended == results.ok \cup results.failed

\* Requests are launched in order: those beyond the counter wait, and those
\* with a result have ended.
LaunchedInOrder ==
    \A r \in Requests : /\ phase[r] = "waiting" <=> r > launched
                        /\ phase[r] = "ended" <=> r \in Ended

\* The inductive invariant of the load
LoadInv ==
    /\ LoadTypeOK
    /\ results.ok \cap results.failed = {}
    /\ done = Cardinality(Ended)
    /\ LaunchedInOrder
    /\ launched = inflight + done
    /\ posted => launched = 0 /\ peakInflight = 0
    /\ LoadSaturated
    /\ ~running => Ended = Requests

\* As many connections are in flight as were launched and have not ended.
LEMMA BusyCounted == LoadInv => inflight = Cardinality(Busy)
<1> SUFFICES ASSUME LoadInv PROVE inflight = Cardinality(Busy)
  OBVIOUS
<1> USE LoadGeneratorAssumption
<1>1. launched \in 0..Total /\ inflight \in Nat /\ done \in Nat /\ Ended \subseteq Requests
  BY DEF LoadInv, LoadTypeOK, Ended
<1>2. Busy = (1..launched) \ Ended
  <2>1. \A r \in Requests : phase[r] \in Phases
    BY DEF LoadInv, LoadTypeOK
  <2> QED BY <1>1, <2>1 DEF LoadInv, LaunchedInOrder, Busy, Phases, Requests
<1>3. Ended \subseteq 1..launched
  BY <1>1 DEF LoadInv, LaunchedInOrder, Requests
<1>4. IsFiniteSet(1..launched) /\ Cardinality(1..launched) = launched
  BY <1>1, FS_Interval
<1>5. IsFiniteSet(Ended) /\ Cardinality((1..launched) \ Ended)
        = Cardinality(1..launched) - Cardinality((1..launched) \cap Ended)
  BY <1>3, <1>4, FS_Subset, FS_Difference
<1>6. (1..launched) \cap Ended = Ended
  BY <1>3
<1>7. launched = inflight + done /\ done = Cardinality(Ended)
  BY DEF LoadInv
<1>8. Cardinality(Busy) = launched - done
  BY <1>2, <1>4, <1>5, <1>6, <1>7
<1> QED BY <1>1, <1>7, <1>8

\* What the invariant is for
LEMMA LoadInvAccounts == LoadInv => RequestsAccounted /\ LoadSaturated
BY BusyCounted DEF LoadInv, RequestsAccounted, Ended

LEMMA LoadInitInv == LoadInit => LoadInv
<1> SUFFICES ASSUME LoadInit PROVE LoadInv
  OBVIOUS
<1> USE LoadGeneratorAssumption DEF LoadInit
<1>1. LoadTypeOK
  BY DEF LoadTypeOK, Phases, OpStatus, Requests
<1>2. Ended = {} /\ Cardinality({}) = 0
  BY FS_EmptySet DEF Ended
<1> QED BY <1>1, <1>2 DEF LoadInv, LaunchedInOrder, LoadSaturated, Requests
\* A wave launches as many requests as there is room for and are left.
LEMMA WaveLaunches ==
    ASSUME LoadInv, NEW busy \in Nat, busy <= Concurrency,
           NEW ph \in [Requests -> Phases], NEW ops \in [Requests -> OpStatus],
           NEW tm \in [Requests -> {"none", "pending", "ok"}],
           LaunchWave(busy, ph, ops, tm)
    PROVE  /\ phase' \in [Requests -> Phases]
           /\ op' \in [Requests -> OpStatus]
           /\ timer' \in [Requests -> {"none", "pending", "ok"}]
           /\ launched' = launched + Smaller(Concurrency - busy, Total - launched)
           /\ inflight' = busy + Smaller(Concurrency - busy, Total - launched)
           /\ launched' \in launched..Total
           /\ peakInflight' = IF inflight' > peakInflight /\ launched' > launched
                              THEN inflight' ELSE peakInflight
           /\ \A r \in Requests :
                phase'[r] = IF r > launched /\ r <= launched' THEN "connect" ELSE ph[r]
<1> USE LoadGeneratorAssumption
<1> DEFINE n == Smaller(Concurrency - busy, Total - launched)
           new == (launched + 1)..(launched + n)
<1>1. launched \in 0..Total
  BY DEF LoadInv, LoadTypeOK
<1>2. n \in 0..(Total - launched)
  BY <1>1 DEF Smaller
<1>3. /\ inflight' = busy + n
      /\ launched' = launched + n
      /\ peakInflight' = IF busy + n > peakInflight /\ n > 0 THEN busy + n ELSE peakInflight
      /\ phase' = [r \in Requests |-> IF r \in new THEN "connect" ELSE ph[r]]
      /\ op' = [r \in Requests |-> IF r \in new THEN "pending" ELSE ops[r]]
      /\ timer' = [r \in Requests |-> IF r \in new THEN "pending" ELSE tm[r]]
  BY DEF LaunchWave, Room, Smaller
<1> HIDE DEF n
<1>4. launched' > launched <=> n > 0
  BY <1>1, <1>2, <1>3
<1>5. phase' \in [Requests -> Phases] /\ op' \in [Requests -> OpStatus]
      /\ timer' \in [Requests -> {"none", "pending", "ok"}]
  BY <1>3 DEF Phases, OpStatus
<1>6. \A r \in Requests :
        phase'[r] = IF r > launched /\ r <= launched' THEN "connect" ELSE ph[r]
  BY <1>1, <1>2, <1>3 DEF Requests
<1>7. launched' \in launched..Total
  BY <1>1, <1>2, <1>3
<1>8. peakInflight' = IF inflight' > peakInflight /\ launched' > launched
                      THEN inflight' ELSE peakInflight
  BY <1>3, <1>4
<1> QED BY <1>3, <1>5, <1>6, <1>7, <1>8 DEF n

\* The same facts for the state after LoadAgain
LEMMA LoadAgainInv == LoadAgain => LoadInv'
<1> SUFFICES ASSUME LoadAgain PROVE LoadInv'
  OBVIOUS
<1> USE LoadGeneratorAssumption DEF LoadAgain
<1>1. LoadTypeOK'
  BY DEF LoadTypeOK, Phases, OpStatus, Requests
<1>2. Ended' = {} /\ Cardinality({}) = 0
  BY FS_EmptySet DEF Ended
<1> QED BY <1>1, <1>2 DEF LoadInv, LaunchedInOrder, LoadSaturated, Requests

\* The first wave fills the connections, or launches every request there is.
LEMMA FirstWaveInv == LoadInv /\ FirstWave => LoadInv'
<1> SUFFICES ASSUME LoadInv, FirstWave PROVE LoadInv'
  OBVIOUS
<1> USE LoadGeneratorAssumption
<1>1. LoadTypeOK /\ launched = 0 /\ inflight = 0 /\ done = 0 /\ peakInflight = 0
  BY DEF LoadInv, LoadTypeOK, FirstWave
<1>2. LaunchWave(inflight, phase, op, timer)
  BY DEF FirstWave
<1>3. /\ phase' \in [Requests -> Phases]
      /\ op' \in [Requests -> OpStatus]
      /\ timer' \in [Requests -> {"none", "pending", "ok"}]
      /\ launched' = Smaller(Concurrency, Total)
      /\ inflight' = Smaller(Concurrency, Total)
      /\ peakInflight' = Smaller(Concurrency, Total)
      /\ \A r \in Requests :
           phase'[r] = IF r > launched /\ r <= launched' THEN "connect" ELSE phase[r]
  BY <1>1, <1>2, WaveLaunches DEF LoadTypeOK, Smaller
<1>4. /\ running' = running /\ closed' = closed /\ answered' = answered
      /\ results' = results /\ done' = done /\ posted' = FALSE /\ running
  BY DEF FirstWave
<1>5. LoadTypeOK'
  <2>1. {inflight', launched', done', peakInflight'} \subseteq 0..Total
    BY <1>1, <1>3, <1>4 DEF Smaller
  <2>2. running' \in BOOLEAN /\ posted' \in BOOLEAN
    BY <1>1, <1>4, Zenon DEF LoadTypeOK
  <2>3. /\ closed' \subseteq Requests /\ answered' \subseteq Requests
        /\ results' \in [ok : SUBSET Requests, failed : SUBSET Requests]
    BY <1>1, <1>4, Zenon DEF LoadTypeOK
  <2> QED BY <1>3, <2>1, <2>2, <2>3, Zenon DEF LoadTypeOK
<1>6. Ended' = Ended
  BY <1>4 DEF Ended
<1>7. LaunchedInOrder'
  BY <1>1, <1>3, <1>6 DEF LoadInv, LaunchedInOrder, Requests, Smaller
<1>8. LoadSaturated'
  BY <1>1, <1>3, <1>4 DEF LoadSaturated
<1>9. launched' = inflight' + done'
  BY <1>1, <1>3, <1>4 DEF Smaller
<1> QED BY <1>4, <1>5, <1>6, <1>7, <1>8, <1>9, Zenon DEF LoadInv

\* A request that ends is recorded, counted and replaced by the next one.
LEMMA FinishInv ==
    ASSUME LoadInv, running, NEW r \in Requests, phase[r] \in {"connect", "write", "read"},
           NEW ok \in BOOLEAN, Finish(r, ok)
    PROVE  LoadInv'
<1> USE LoadGeneratorAssumption
<1>1. LoadTypeOK /\ {inflight, launched, done, peakInflight} \subseteq 0..Total
  BY DEF LoadInv, LoadTypeOK
<1>2. r <= launched /\ r \notin Ended /\ ~posted
  BY <1>1 DEF LoadInv, LaunchedInOrder, Requests
<1>3. /\ inflight = Smaller(Concurrency, Total - done)
      /\ peakInflight = Smaller(Concurrency, Total)
      /\ launched = inflight + done
      /\ done = Cardinality(Ended) /\ Ended \subseteq Requests
  BY <1>1, <1>2 DEF LoadInv, LoadSaturated, LoadTypeOK, Ended
<1>4. IsFiniteSet(Requests) /\ Cardinality(Requests) = Total
  BY FS_Interval DEF Requests
<1>5. Ended' = Ended \cup {r} /\ results' \in [ok : SUBSET Requests, failed : SUBSET Requests]
      /\ results'.ok \cap results'.failed = {}
  <2>1. results \in [ok : SUBSET Requests, failed : SUBSET Requests]
        /\ results.ok \cap results.failed = {}
    BY DEF LoadInv, LoadTypeOK
  <2> QED BY <1>2, <2>1 DEF Finish, Ended
<1>6. Cardinality(Ended') = done + 1 /\ Cardinality(Ended') <= Total
      /\ (Cardinality(Ended') = Total => Ended' = Requests)
  BY <1>2, <1>3, <1>4, <1>5, FS_Subset, FS_AddElement
<1>7. done' = done + 1 /\ done' \in 0..Total /\ inflight >= 1
  BY <1>1, <1>3, <1>6 DEF Finish, Smaller
<1>8. LaunchWave(inflight - 1, [phase EXCEPT ![r] = "ended"], [op EXCEPT ![r] = "none"],
                 CancelTimer(r))
  BY DEF Finish, OneLess
<1>9. /\ inflight - 1 \in Nat /\ inflight - 1 <= Concurrency
      /\ [phase EXCEPT ![r] = "ended"] \in [Requests -> Phases]
      /\ [op EXCEPT ![r] = "none"] \in [Requests -> OpStatus]
      /\ CancelTimer(r) \in [Requests -> {"none", "pending", "ok"}]
  BY <1>1, <1>3, <1>7 DEF LoadTypeOK, Phases, OpStatus, CancelTimer, Smaller
<1>10. /\ phase' \in [Requests -> Phases]
       /\ op' \in [Requests -> OpStatus]
       /\ timer' \in [Requests -> {"none", "pending", "ok"}]
       /\ launched' = launched + Smaller(Concurrency - (inflight - 1), Total - launched)
       /\ inflight' = inflight - 1 + Smaller(Concurrency - (inflight - 1), Total - launched)
       /\ launched' \in launched..Total
       /\ peakInflight' = IF inflight' > peakInflight /\ launched' > launched
                          THEN inflight' ELSE peakInflight
       /\ \A q \in Requests :
            phase'[q] = IF q > launched /\ q <= launched'
                        THEN "connect" ELSE [phase EXCEPT ![r] = "ended"][q]
  BY <1>8, <1>9, WaveLaunches
<1>11. /\ inflight' = Smaller(Concurrency, Total - done') /\ inflight' \in 0..Total
       /\ peakInflight' = Smaller(Concurrency, Total)
       /\ launched' = inflight' + done'
  <2>1. /\ launched' = launched + Smaller(Concurrency - (inflight - 1), Total - launched)
        /\ inflight' = inflight - 1 + Smaller(Concurrency - (inflight - 1), Total - launched)
        /\ peakInflight' = IF inflight' > peakInflight /\ launched' > launched
                           THEN inflight' ELSE peakInflight
    BY <1>10
  <2>2. inflight \in 1..Total /\ launched \in 0..Total /\ done \in 0..Total
    BY <1>1, <1>7
  <2>3. inflight' = Smaller(Concurrency, Total - done - 1) /\ launched' = inflight' + done + 1
    <3>1. CASE Concurrency < Total - done
      <4>1. inflight = Concurrency /\ launched = Concurrency + done
        BY <1>3, <2>2, <3>1 DEF Smaller
      <4>2. Smaller(Concurrency - (inflight - 1), Total - launched) = 1
        BY <2>2, <3>1, <4>1 DEF Smaller
      <4> QED BY <2>1, <2>2, <3>1, <4>1, <4>2 DEF Smaller
    <3>2. CASE ~(Concurrency < Total - done)
      <4>1. inflight = Total - done /\ launched = Total
        BY <1>3, <2>2, <3>2 DEF Smaller
      <4>2. Smaller(Concurrency - (inflight - 1), Total - launched) = 0
        BY <2>2, <3>2, <4>1 DEF Smaller
      <4> QED BY <2>1, <2>2, <3>2, <4>1, <4>2 DEF Smaller
    <3> QED BY <3>1, <3>2
  <2>4. inflight' <= peakInflight /\ inflight' \in 0..Total
    BY <1>3, <1>7, <2>2, <2>3 DEF Smaller
  <2>5. peakInflight' = peakInflight
    BY <1>1, <2>1, <2>4
  <2>6. Total - done - 1 = Total - done'
    BY <1>7, <2>2
  <2> QED BY <1>3, <1>7, <2>2, <2>3, <2>4, <2>5, <2>6
<1>12. /\ posted' = posted /\ closed' = closed /\ answered' = answered
       /\ running' \in BOOLEAN /\ (~running' => done' >= Total)
  BY DEF Finish, AllDone
<1>13. LoadTypeOK'
  <2>1. {inflight', launched', done', peakInflight'} \subseteq 0..Total
    BY <1>1, <1>7, <1>10, <1>11 DEF Smaller
  <2>2. posted' \in BOOLEAN /\ closed' \subseteq Requests /\ answered' \subseteq Requests
    BY <1>1, <1>12, Zenon DEF LoadTypeOK
  <2> QED BY <1>5, <1>10, <1>12, <2>1, <2>2, Zenon DEF LoadTypeOK
<1>14. LaunchedInOrder'
  <2> SUFFICES ASSUME NEW q \in Requests
               PROVE  /\ phase'[q] = "waiting" <=> q > launched'
                      /\ phase'[q] = "ended" <=> q \in Ended'
    BY DEF LaunchedInOrder
  <2>1. phase \in [Requests -> Phases] /\ q \in Int /\ r \in Int
    BY <1>1 DEF LoadTypeOK, Requests
  <2>2. phase[q] = "waiting" <=> q > launched
    BY DEF LoadInv, LaunchedInOrder
  <2>3. phase[q] = "ended" <=> q \in Ended
    BY DEF LoadInv, LaunchedInOrder
  <2>4. CASE q = r
    BY <1>1, <1>2, <1>5, <1>10, <2>1, <2>4
  <2>5. CASE q # r
    BY <1>1, <1>5, <1>10, <2>1, <2>2, <2>3, <2>5
  <2> QED BY <2>4, <2>5
<1>15. LoadSaturated'
  BY <1>11 DEF LoadSaturated
<1>16. ~running' => Ended' = Requests
  BY <1>6, <1>7, <1>12
<1> QED BY <1>2, <1>5, <1>6, <1>7, <1>11, <1>12, <1>13, <1>14, <1>15, <1>16, Zenon DEF LoadInv
BusyPhases == {"connect", "write", "read"}

\* A step that leaves the counters alone and ends or launches nothing
LEMMA QuietInv ==
    ASSUME LoadInv, LoadTypeOK', running' = running, posted' = posted, results' = results,
           inflight' = inflight, launched' = launched, done' = done,
           peakInflight' = peakInflight,
           \A r \in Requests :
             phase'[r] = phase[r] \/ (phase[r] \in BusyPhases /\ phase'[r] \in BusyPhases)
    PROVE  LoadInv'
<1>1. Ended' = Ended
  BY DEF Ended
<1>2. LaunchedInOrder'
  BY <1>1 DEF LoadInv, LaunchedInOrder, BusyPhases
<1>3. LoadSaturated'
  BY DEF LoadInv, LoadSaturated
<1> QED BY <1>1, <1>2, <1>3, Zenon DEF LoadInv

\* The next operation of a connection
LEMMA ProceedInv ==
    ASSUME LoadInv, NEW r \in Requests, phase[r] \in BusyPhases,
           NEW next \in BusyPhases, Proceed(r, next),
           timer' \in [Requests -> {"none", "pending", "ok"}]
    PROVE  LoadInv'
<1>1. phase' \in [Requests -> Phases] /\ op' \in [Requests -> OpStatus]
  BY DEF LoadInv, LoadTypeOK, Proceed, BusyPhases, Phases, OpStatus
<1>2. /\ running' = running /\ posted' = posted /\ results' = results
      /\ inflight' = inflight /\ launched' = launched /\ done' = done
      /\ peakInflight' = peakInflight /\ closed' = closed /\ answered' = answered
  BY DEF Proceed
<1>3. LoadTypeOK'
  BY <1>1, <1>2, Zenon DEF LoadInv, LoadTypeOK
<1>4. \A q \in Requests :
        phase'[q] = phase[q] \/ (phase[q] \in BusyPhases /\ phase'[q] \in BusyPhases)
  BY DEF Proceed, LoadInv, LoadTypeOK
<1> QED BY <1>2, <1>3, <1>4, QuietInv

\* Every step of the load keeps its invariant.
LEMMA LoadStepInv == LoadInv /\ LoadStep => LoadInv'
<1> SUFFICES ASSUME LoadInv, LoadStep PROVE LoadInv'
  OBVIOUS
<1>1. CASE FirstWave
  BY <1>1, FirstWaveInv
<1>2. ASSUME NEW r \in Requests, TimerExpires(r) PROVE LoadInv'
  <2>1. LoadTypeOK' /\ phase' = phase
    BY <1>2 DEF LoadInv, LoadTypeOK, TimerExpires
  <2> QED BY <1>2, <2>1, QuietInv DEF TimerExpires
<1>3. ASSUME NEW r \in Requests, NEW result \in {"ok", "eof", "reset", "error"},
             Completes(r, result) PROVE LoadInv'
  <2>1. LoadTypeOK' /\ phase' = phase
    BY <1>3 DEF LoadInv, LoadTypeOK, Completes, OpStatus
  <2> QED BY <1>3, <2>1, QuietInv DEF Completes
<1>4. ASSUME NEW r \in Requests, OnTimer(r) PROVE LoadInv'
  <2>1. LoadTypeOK' /\ phase' = phase
    BY <1>4 DEF LoadInv, LoadTypeOK, OnTimer, OpStatus
  <2> QED BY <1>4, <2>1, QuietInv DEF OnTimer
<1>5. timer \in [Requests -> {"none", "pending", "ok"}]
  BY DEF LoadInv, LoadTypeOK
<1>6. \A r \in Requests : CancelTimer(r) \in [Requests -> {"none", "pending", "ok"}]
  BY <1>5 DEF CancelTimer
<1>7. ASSUME NEW r \in Requests, OnConnect(r) PROVE LoadInv'
  <2>1. CASE op[r] # "ok"
    BY <1>7, <2>1, FinishInv DEF OnConnect
  <2>2. CASE op[r] = "ok"
    BY <1>6, <1>7, <2>2, ProceedInv DEF OnConnect, BusyPhases
  <2> QED BY <2>1, <2>2
<1>8. ASSUME NEW r \in Requests, OnWriteDone(r) PROVE LoadInv'
  <2>1. CASE op[r] # "ok"
    BY <1>8, <2>1, FinishInv DEF OnWriteDone
  <2>2. CASE op[r] = "ok"
    BY <1>5, <1>8, <2>2, ProceedInv DEF OnWriteDone, BusyPhases
  <2> QED BY <2>1, <2>2
<1>9. ASSUME NEW r \in Requests, OnReadSome(r) PROVE LoadInv'
  <2>1. CASE op[r] # "ok"
    <3>1. Finish(r, op[r] \in {"eof", "reset"}) /\ (op[r] \in {"eof", "reset"}) \in BOOLEAN
      BY <1>9, <2>1 DEF OnReadSome
    <3> QED BY <1>9, <3>1, FinishInv DEF OnReadSome
  <2>2. CASE op[r] = "ok"
    BY <1>5, <1>9, <2>2, ProceedInv DEF OnReadSome, BusyPhases
  <2> QED BY <2>1, <2>2
<1> QED BY <1>1, <1>2, <1>3, <1>4, <1>7, <1>8, <1>9 DEF LoadStep
-----------------------------------------------------------------------------
(* The program around the load.                                             *)

\* A load begins afresh or goes on, and everything else leaves it alone.
LEMMA LoadKept == LoadInv /\ [Next]_vars => LoadInv'
<1> SUFFICES ASSUME LoadInv, [Next]_vars PROVE LoadInv'
  OBVIOUS
<1>1. CASE UNCHANGED loadVars
  <2>1. /\ LoadTypeOK' /\ phase' = phase
    BY <1>1 DEF loadVars, LoadInv, LoadTypeOK
  <2> QED BY <1>1, <2>1, QuietInv DEF loadVars
<1>2. CASE RunLoad
  BY <1>2, LoadStepInv DEF RunLoad
<1>3. CASE PhaseEnds
  BY <1>3, LoadAgainInv DEF PhaseEnds
<1>4. \/ UNCHANGED loadVars \/ RunLoad \/ PhaseEnds
  BY DEF Next, vars, ParseArgs, SpawnEchoServices, PhaseFails, StartLb, WaitPort,
         PortNeverOpened, StopLb, SaveFails, Report, LbBinds, LbFails, LbHandlesSignal, LbExits, Exited, Exits
<1> QED BY <1>1, <1>2, <1>3, <1>4

\* For every number of requests and connections: each request is recorded once,
\* in whichever handler it ends and however timers race it, the counters are
\* exact, and RunLoad() returns with a result for every request.
THEOREM EveryRequestAccounted == Spec => []RequestsAccounted
<1>1. Init => LoadInv
  BY LoadInitInv DEF Init
<1> QED BY <1>1, LoadKept, LoadInvAccounts, PTL DEF Spec

\* For every number of requests and connections: LaunchWave() keeps exactly the
\* connections asked for in flight, or all that are left, and reports them.
THEOREM LoadAsAsked == Spec => []LoadSaturated
<1>1. Init => LoadInv
  BY LoadInitInv DEF Init
<1> QED BY <1>1, LoadKept, LoadInvAccounts, PTL DEF Spec

-----------------------------------------------------------------------------
(* Types.                                                                   *)

\* While there is a phase to come or to end, not all results are there.
PhaseLeft ==
    pc \in {"args", "spawn", "phase", "wait", "load", "stop"} => Len(measured) < Len(Algos)

BenchInv == LoadInv /\ TypeOK /\ PhaseLeft

LEMMA BenchInitInv == Init => BenchInv
<1> SUFFICES ASSUME Init PROVE BenchInv
  OBVIOUS
<1>1. LoadInv /\ LoadTypeOK
  BY LoadInitInv DEF Init, LoadInv
<1>2. Unfinished \in [exit : {"none", "ok", "regression", "died", "aborted"},
                      mode : SUBSET {"baseline", "compare"}, before : Baselines]
  <2>1. <<>> \in {<<>>} /\ {<<>>} \subseteq Baselines
    BY SMT DEF Baselines
  <2> QED BY <2>1 DEF Unfinished
<1>3. lbs \in [Processes -> LbStates]
  BY DEF Init, LbStates
<1>4. measured \in Seq(Rates) /\ Len(measured) = 0 /\ 0 < Len(Algos) /\ Len(Algos) \in Nat
  BY DEF Init, Algos
<1>5. TypeOK
  BY <1>1, <1>2, <1>3, <1>4 DEF Init, TypeOK
<1> QED BY <1>1, <1>4, <1>5 DEF BenchInv, PhaseLeft

\* One step per action of main() and of the processes
LEMMA BenchNextInv == BenchInv /\ [Next]_vars => BenchInv'
<1> SUFFICES ASSUME BenchInv, [Next]_vars PROVE BenchInv'
  OBVIOUS
<1> DEFINE Pcs == {"args", "spawn", "phase", "wait", "load", "stop", "report", "exited"}
           InPhase == {"args", "spawn", "phase", "wait", "load", "stop"}
           Lbs == [Processes -> LbStates]
           Outcomes == [exit : {"none", "ok", "regression", "died", "aborted"},
                        mode : SUBSET {"baseline", "compare"}, before : Baselines]
<1>1. LoadInv' /\ LoadTypeOK'
  BY LoadKept DEF BenchInv, LoadInv
<1>2. /\ pc \in Pcs /\ lbs \in Lbs /\ outcome \in Outcomes
      /\ measured \in Seq(Rates) /\ Len(measured) <= Len(Algos)
      /\ pc \in InPhase => Len(measured) < Len(Algos)
  BY DEF BenchInv, TypeOK, PhaseLeft
<1>3. Len(Algos) \in Nat
  BY DEF Algos
<1>t. ASSUME pc' \in Pcs, lbs' \in Lbs, outcome' \in Outcomes, measured' \in Seq(Rates),
             Len(measured') <= Len(Algos), pc' \in InPhase => Len(measured') < Len(Algos)
      PROVE  BenchInv'
  BY <1>1, <1>t DEF BenchInv, TypeOK, PhaseLeft
<1> HIDE DEF Lbs, Outcomes
<1>4. CASE UNCHANGED benchVars
  BY <1>2, <1>4, <1>t DEF benchVars
<1>5. ASSUME NEW how \in {"died", "aborted"}, Exits(how) PROVE BenchInv'
  <2>1. outcome' \in Outcomes
    BY <1>2, <1>5 DEF Exits, Outcomes
  <2> QED BY <1>2, <1>5, <1>t, <2>1 DEF Exits
<1>6. CASE ParseArgs
  BY <1>2, <1>5, <1>6, <1>t DEF ParseArgs
<1>7. CASE SpawnEchoServices
  BY <1>2, <1>5, <1>7, <1>t DEF SpawnEchoServices
<1>8. CASE StartLb
  <2>1. lbs' \in Lbs
    BY <1>2, <1>8 DEF StartLb, Lbs, LbStates
  <2> QED BY <1>2, <1>8, <1>t, <2>1 DEF StartLb, Goes
<1>9. CASE WaitPort
  BY <1>2, <1>9, <1>t DEF WaitPort, Goes
<1>10. CASE StopLb
  <2>1. lbs' \in Lbs
    BY <1>2, <1>10 DEF StopLb, Lbs, LbStates
  <2> QED BY <1>2, <1>10, <1>t, <2>1 DEF StopLb, Goes
<1>11. CASE PhaseEnds
  <2>1. PICK rate \in ComputeStats : measured' = Append(measured, rate)
    BY <1>11 DEF PhaseEnds
  <2>2. rate \in Rates
    BY BenchmarkAssumption DEF ComputeStats
  <2>3. measured' \in Seq(Rates) /\ Len(measured') = Len(measured) + 1
    BY <1>2, <2>1, <2>2
  <2>4. /\ pc = "stop" /\ UNCHANGED <<lbs, outcome>>
        /\ pc' = IF Len(measured) + 1 = Len(Algos) THEN "report" ELSE "phase"
    BY <1>11 DEF PhaseEnds, Goes
  <2>5. Len(measured) < Len(Algos) /\ Len(measured) \in Nat
    BY <1>2, <2>4
  <2>6. Len(measured') <= Len(Algos) /\ (pc' \in InPhase => Len(measured') < Len(Algos))
    BY <1>3, <2>3, <2>4, <2>5
  <2> QED BY <1>2, <1>t, <2>3, <2>4, <2>6
<1>12. ASSUME NEW mode \in Modes, NEW before \in Baselines, Report(mode, before)
       PROVE  BenchInv'
  <2>1. PICK how \in {"ok", "regression", "aborted"} :
          outcome' = [exit |-> how, mode |-> mode, before |-> before]
    <3>1. \A file : CompareBaseline(file) \subseteq {"ok", "regression", "aborted"}
      BY DEF CompareBaseline
    <3> QED BY <1>12, <3>1 DEF Report
  <2>2. outcome' \in Outcomes
    BY <2>1, BenchmarkAssumption DEF Outcomes
  <2> QED BY <1>2, <1>12, <1>t, <2>2 DEF Report, Goes
<1>13. ASSUME NEW p \in Processes, LbBinds(p) \/ LbFails(p) \/ LbHandlesSignal(p) \/ LbExits(p) PROVE BenchInv'
  <2>1. lbs' \in Lbs /\ UNCHANGED <<pc, measured, outcome>>
    BY <1>2, <1>13 DEF LbBinds, LbFails, LbHandlesSignal, LbExits, Lbs, LbStates
  <2> QED BY <1>2, <1>t, <2>1
<1> QED
  BY <1>4, <1>5, <1>6, <1>7, <1>8, <1>9, <1>10, <1>11, <1>12, <1>13
  DEF Next, vars, RunLoad, Exited, benchVars, PhaseFails, PortNeverOpened, SaveFails

\* Type correctness of the benchmark, for any load, algorithms and baselines:
\* among others, no more results than phases and every verdict of a known kind.
THEOREM BenchTypeCorrect == Spec => []TypeOK
<1>1. BenchInv => TypeOK
  BY DEF BenchInv
<1> QED BY <1>1, BenchInitInv, BenchNextInv, PTL DEF Spec

-----------------------------------------------------------------------------
(* The processes.                                                           *)

\* As long as main() runs there is no verdict.
NoVerdictYet == pc # "exited" => outcome = Unfinished

LEMMA NoVerdictStep == NoVerdictYet /\ [Next]_vars => NoVerdictYet'
BY DEF NoVerdictYet, Next, vars, benchVars, Goes, Exits, ParseArgs, SpawnEchoServices,
       PhaseFails, StartLb, WaitPort, PortNeverOpened, RunLoad, StopLb, PhaseEnds, SaveFails,
       Report, LbBinds, LbFails, LbHandlesSignal, LbExits, Exited

Over(p) == lbs[p] \in {"none", "gone"}

\* Between phases no process runs, in a phase none but its own, which had the
\* port when the load began, and main() has a verdict only when they are over.
ProcessInv ==
    /\ measured \in Seq(Nat)
    /\ lbs = [p \in Processes |-> lbs[p]]
    /\ pc \in {"args", "spawn", "phase", "report"} => \A p \in Processes : Over(p)
    /\ pc \in {"wait", "load", "stop"} => \A p \in Processes : p # Child => Over(p)
    /\ pc = "wait" => lbs[Child] \in {"starting", "serving", "gone"}
    /\ pc = "load" => lbs[Child] \in {"serving", "gone"}
    /\ NoVerdictYet
    /\ outcome.exit \in {"ok", "regression"} => \A p \in Processes : Over(p)

\* A phase that has begun has a process of its own.
LEMMA ChildIsProcess == BenchInv /\ pc \in {"phase", "wait", "load", "stop"} => Child \in Processes
<1> SUFFICES ASSUME BenchInv, pc \in {"phase", "wait", "load", "stop"} PROVE Child \in Processes
  OBVIOUS
<1>1. measured \in Seq(Rates) /\ Len(measured) \in Nat /\ Len(measured) < Len(Algos)
  BY DEF BenchInv, TypeOK, PhaseLeft
<1>2. DOMAIN Algos = 1..Len(Algos) /\ Len(Algos) \in Nat
  <2>1. CASE AlgoOption \in {"p2c", "consistent-hash"}
    <3>1. Algos = <<AlgoOption>>
      BY <2>1 DEF Algos
    <3> QED BY <3>1
  <2>2. CASE AlgoOption \notin {"p2c", "consistent-hash"}
    <3>1. Algos = <<"p2c", "consistent-hash">>
      BY <2>2 DEF Algos
    <3> QED BY <3>1
  <2> QED BY <2>1, <2>2
<1>3. Len(measured) + 1 \in DOMAIN Algos
  BY <1>1, <1>2
<1> QED BY <1>3 DEF Child, Processes

LEMMA ProcessStep ==
    ASSUME BenchInv, ProcessInv, [Next]_vars
    PROVE  ProcessInv'
<1> USE DEF NoVerdictYet
<1>1. CASE UNCHANGED benchVars
  BY <1>1 DEF benchVars, ProcessInv, Over, Child
<1>2. ASSUME NEW how \in {"died", "aborted"}, Exits(how) PROVE ProcessInv'
  BY <1>2 DEF Exits, ProcessInv, Over, Unfinished
<1>3. CASE ParseArgs
  BY <1>2, <1>3 DEF ParseArgs, ProcessInv, Over
<1>4. CASE SpawnEchoServices
  BY <1>2, <1>4 DEF SpawnEchoServices, ProcessInv, Over
<1>5. CASE StartLb
  <2>1. Child \in Processes
    BY <1>5, ChildIsProcess DEF StartLb, Goes
  <2> QED BY <1>5, <2>1 DEF StartLb, Goes, ProcessInv, Over, Child, Unfinished
<1>6. CASE WaitPort
  <2>1. PICK p \in Processes : HoldsPort(p)
    BY <1>6 DEF WaitPort, PortTaken
  <2>2. p = Child /\ ~Over(p)
    BY <1>6, <2>1 DEF WaitPort, Goes, ProcessInv, HoldsPort, Over
  <2> QED BY <1>6, <2>1, <2>2 DEF WaitPort, Goes, ProcessInv, HoldsPort, Over, Child
<1>7. CASE StopLb
  BY <1>7 DEF StopLb, Goes, ProcessInv, Over, Child, Unfinished
<1>8. CASE PhaseEnds
  <2>1. ComputeStats \subseteq Nat
    BY BenchmarkAssumption DEF ComputeStats
  <2>2. measured' \in Seq(Nat)
    BY <1>8, <2>1 DEF PhaseEnds, ProcessInv
  <2>3. \A p \in Processes : Over(p)
    BY <1>8 DEF PhaseEnds, Goes, Reaped, ProcessInv, Over
  <2> QED BY <1>8, <2>2, <2>3 DEF PhaseEnds, Goes, ProcessInv, Over, Unfinished
<1>9. ASSUME NEW mode \in Modes, NEW before \in Baselines, Report(mode, before)
      PROVE  ProcessInv'
  BY <1>9 DEF Report, Goes, ProcessInv, Over
<1>10. ASSUME NEW p \in Processes, LbBinds(p) \/ LbFails(p) \/ LbHandlesSignal(p) \/ LbExits(p) PROVE ProcessInv'
  BY <1>10 DEF LbBinds, LbFails, LbHandlesSignal, LbExits, ProcessInv, Over, Child
<1> QED
  BY <1>1, <1>2, <1>3, <1>4, <1>5, <1>6, <1>7, <1>8, <1>9, <1>10
  DEF Next, vars, RunLoad, Exited, benchVars, PhaseFails, PortNeverOpened, SaveFails

\* Unless a process was left over from before: although a load balancer that
\* was told to stop goes on listening, WaitPort() only ever finds the one of
\* its own phase, because StopLb() has waited for the last one to be gone, and
\* main() returns with no process behind it.
THEOREM PhaseMeasuresOwnLb ==
    ASSUME ~Leftover
    PROVE  Spec => []MeasuresOwnLb
<1>1. Init => ProcessInv
  BY DEF Init, ProcessInv, NoVerdictYet, Over, Unfinished
<1>2. ProcessInv => MeasuresOwnLb
  BY DEF ProcessInv, MeasuresOwnLb, HoldsPort, Over
<1>3. BenchInv /\ ProcessInv /\ [Next]_vars => ProcessInv'
  BY ProcessStep
<1> QED BY <1>1, <1>2, <1>3, BenchInitInv, BenchNextInv, PTL DEF Spec
=============================================================================
