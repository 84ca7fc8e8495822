------------------------------ MODULE Benchmark ------------------------------
(* The benchmark program, bench/main.cpp: for each algorithm a phase that   *)
(* starts a load balancer process, waits for its port, runs the load        *)
(* (LoadGenerator), stops the process and computes the throughput; then the *)
(* results are saved as the baseline or compared with it.                   *)
(*                                                                          *)
(* Concurrent are the load balancer processes, which bind the port, refuse  *)
(* to start, die and exit in their own time.  The mock services answer or   *)
(* do not; they are part of what Completes() may do.                        *)
EXTENDS LoadGenerator, Sequences, SequencesExt

CONSTANTS AlgoOption,    \* --algo
          Modes,         \* command lines: subsets of {"baseline", "compare"}
          Rates,         \* throughputs a phase may have, by the time it takes
          ThresholdPct,  \* --threshold-pct
          Leftover       \* the process of an earlier, failed benchmark still runs

ASSUME BenchmarkAssumption ==
    /\ Modes \subseteq SUBSET {"baseline", "compare"}
    /\ Rates \subseteq Nat /\ 0 \in Rates /\ ThresholdPct \in Nat
    /\ Leftover \in BOOLEAN

VARIABLES pc,         \* where main() is
          lbs,        \* the load balancer process of each algorithm
          measured,   \* results: the throughput of each finished phase
          outcome     \* how the program ended, and the baseline it met

benchVars == <<pc, lbs, measured, outcome>>
vars == <<loadVars, benchVars>>

Algos ==
    CASE AlgoOption \in {"p2c", "consistent-hash"} -> <<AlgoOption>>
      [] OTHER -> <<"p2c", "consistent-hash">>

Processes == {Algos[i] : i \in DOMAIN Algos} \cup {"leftover"}
\* The algorithm of the phase that runs, and the process it started
Child == Algos[Len(measured) + 1]

\* A process that was told to stop holds the port until it handles the signal,
\* and one that is stopping has closed its acceptor.
LbStates == {"none", "starting", "serving", "told", "stopping", "gone"}

\* The results in a baseline file, in the order of the text, and none without
\* a file.  By hand or by a write that was cut short, an entry may lack its
\* throughput or hold what is no number.
NoRate  == -1
Damaged == -2
Entries == [algo : {"p2c", "consistent-hash"}, rate : Rates \cup {NoRate, Damaged}]
Baselines == {<<>>} \cup {<<e>> : e \in Entries} \cup
             {<<e, f>> : e, f \in Entries}

Unfinished == [exit |-> "none", mode |-> {}, before |-> <<>>]

TypeOK ==
    /\ LoadTypeOK
    /\ pc \in {"args", "spawn", "phase", "wait", "load", "stop", "report", "exited"}
    /\ lbs \in [Processes -> LbStates]
    /\ measured \in Seq(Rates) /\ Len(measured) <= Len(Algos)
    /\ outcome \in [exit : {"none", "ok", "regression", "died", "aborted"},
                    mode : SUBSET {"baseline", "compare"}, before : Baselines]

Init ==
    /\ LoadInit
    /\ pc = "args"
    /\ lbs = [p \in Processes |-> IF p = "leftover" /\ Leftover THEN "starting" ELSE "none"]
    /\ measured = <<>>
    /\ outcome = Unfinished

-----------------------------------------------------------------------------
(* The load balancer processes.                                             *)

HoldsPort(p) == lbs[p] \in {"serving", "told"}
PortTaken == \E p \in Processes : HoldsPort(p)

\* Binds the port; a second one fails to and exits with Fatal.
LbBinds(p) ==
    /\ lbs[p] = "starting"
    /\ lbs' = [lbs EXCEPT ![p] = IF PortTaken THEN "gone" ELSE "serving"]
    /\ UNCHANGED <<loadVars, pc, measured, outcome>>

\* Nothing to execute, _exit(1); or a Fatal of its own, at any time
LbFails(p) ==
    /\ lbs[p] \in {"starting", "serving", "told"}
    /\ lbs' = [lbs EXCEPT ![p] = "gone"]
    /\ UNCHANGED <<loadVars, pc, measured, outcome>>

\* The handler of SIGTERM closes the acceptor, in its turn on the io_context;
\* while there is none yet the signal kills.
LbHandlesSignal(p) ==
    /\ lbs[p] = "told"
    /\ lbs' \in {[lbs EXCEPT ![p] = "stopping"], [lbs EXCEPT ![p] = "gone"]}
    /\ UNCHANGED <<loadVars, pc, measured, outcome>>

\* It has drained its sessions, or was killed before it was ready.
LbExits(p) ==
    /\ lbs[p] = "stopping"
    /\ lbs' = [lbs EXCEPT ![p] = "gone"]
    /\ UNCHANGED <<loadVars, pc, measured, outcome>>

-----------------------------------------------------------------------------
(* main() and RunPhase().                                                   *)

\* Die() calls exit(1) and an exception nobody catches abort(): both leave
\* the child to itself.
Exits(how) ==
    /\ pc' = "exited"
    /\ outcome' = [outcome EXCEPT !.exit = how]
    /\ UNCHANGED <<loadVars, lbs, measured>>

Goes(from, to) == pc = from /\ pc' = to

\* Die() without a binary, or with a flag that lacks its argument; stoi()
\* throws on one that is no number.
ParseArgs ==
    /\ pc = "args"
    /\ \/ \E how \in {"died", "aborted"} : Exits(how)
       \/ pc' = "spawn" /\ UNCHANGED <<loadVars, lbs, measured, outcome>>

\* bind() throws when a port of the mock services is taken.
SpawnEchoServices ==
    /\ pc = "spawn"
    /\ \/ Exits("aborted")
       \/ pc' = "phase" /\ UNCHANGED <<loadVars, lbs, measured, outcome>>

\* Die() in WriteTempConfig(), or in StartLb() when fork() fails
PhaseFails == pc = "phase" /\ Exits("died")

StartLb ==
    /\ Goes("phase", "wait")
    /\ lbs' = [lbs EXCEPT ![Child] = "starting"]
    /\ UNCHANGED <<loadVars, measured, outcome>>

\* WaitPort() is content with any process that accepts the connection.
WaitPort ==
    /\ Goes("wait", "load")
    /\ PortTaken
    /\ UNCHANGED <<loadVars, lbs, measured, outcome>>

\* The attempts are used up before anybody listens.
PortNeverOpened == pc = "wait" /\ ~PortTaken /\ Exits("died")

RunLoad ==
    /\ pc = "load"
    /\ LoadStep
    /\ UNCHANGED benchVars

\* kill(): a child that has gone is not reached, and one that has not bound the
\* port will not any more.
StopLb ==
    /\ Goes("load", "stop")
    /\ ~running
    /\ lbs' = [lbs EXCEPT ![Child] = CASE @ = "serving"  -> "told"
                                       [] @ = "starting" -> "stopping"
                                       [] OTHER          -> @]
    /\ UNCHANGED <<loadVars, measured, outcome>>

\* Mutant: SIGTERM is sent and nobody waits.
NotAwaited == TRUE

\* waitpid() returns.
Reaped == lbs[Child] = "gone"

\* m_throughput: the completed requests over the wall time, which is any
ComputeStats == IF results.ok = {} THEN {0} ELSE Rates

\* The end of RunPhase(), and the loop of main()
PhaseEnds ==
    /\ Goes("stop", IF Len(measured) + 1 = Len(Algos) THEN "report" ELSE "phase")
    /\ Reaped
    /\ \E rate \in ComputeStats : measured' = Append(measured, rate)
    /\ LoadAgain
    /\ UNCHANGED <<lbs, outcome>>

-----------------------------------------------------------------------------
(* The baseline.                                                            *)

\* What SaveBaseline() writes
Saved == [i \in DOMAIN Algos |-> [algo |-> Algos[i], rate |-> measured[i]]]

\* The throughput CompareBaseline() finds for an algorithm: the first one in
\* the text behind its name, its own or the one of the next entry
Scan(file, algo) ==
    LET pos  == SelectInSeq(file, LAMBDA e : e.algo = algo)
        tpos == SelectInSubSeq(file, pos, Len(file), LAMBDA e : e.rate # NoRate)
    IN  IF pos = 0 \/ tpos = 0 THEN NoRate ELSE file[tpos].rate

\* drop > m_thresholdPct, in doubles: at the threshold itself, and unless the
\* drop is 0 or 100, it is the rounding that decides.
Regressed(baseline, rate) ==
    LET over == (baseline - rate) * 100 - ThresholdPct * baseline
    IN  {drops \in BOOLEAN :
           /\ drops => baseline > 0 /\ over >= 0 /\ (over = 0 => rate \notin {0, baseline})
           /\ ~drops => ~(baseline > 0 /\ over > 0)}

\* How it ends.  An algorithm the file does not have is skipped, stoi() throws
\* on what is no number, and one regression is enough.
CompareBaseline(file) ==
    LET found == [i \in DOMAIN Algos |-> Scan(file, Algos[i])]
        drops(i) == IF found[i] = NoRate THEN {FALSE} ELSE Regressed(found[i], measured[i])
    IN  IF \E i \in DOMAIN Algos : found[i] = Damaged THEN {"aborted"}
        ELSE {how \in {"ok", "regression"} :
                IF how = "ok" THEN \A i \in DOMAIN Algos : FALSE \in drops(i)
                              ELSE \E i \in DOMAIN Algos : TRUE \in drops(i)}

\* create_directories() of a bare file name throws; a file that cannot be
\* opened is a Die().
SaveFails(mode) == pc = "report" /\ "baseline" \in mode /\ \E how \in {"aborted", "died"} : Exits(how)

\* The end of main(): the baseline is saved first, so with both flags it is
\* the new one that the results are compared with.
Report(mode, before) ==
    /\ Goes("report", "exited")
    /\ LET file == IF "baseline" \in mode THEN Saved ELSE before
       IN  \E how \in IF "compare" \in mode THEN CompareBaseline(file) ELSE {"ok"} :
             outcome' = [exit |-> how, mode |-> mode, before |-> before]
    /\ UNCHANGED <<loadVars, lbs, measured>>

Exited == pc = "exited" /\ UNCHANGED vars

Next ==
    \/ ParseArgs \/ SpawnEchoServices \/ PhaseFails \/ StartLb
    \/ WaitPort \/ PortNeverOpened \/ RunLoad \/ StopLb \/ PhaseEnds
    \/ pc = "report" /\ \E mode \in Modes :
         SaveFails(mode) \/ \E before \in Baselines : Report(mode, before)
    \/ \E p \in Processes : LbBinds(p) \/ LbFails(p) \/ LbHandlesSignal(p) \/ LbExits(p)
    \/ Exited

(* The program goes on, the io_context serves queued handlers, time passes, *)
(* and a load balancer that was told to stop does (LoadBalancer).           *)
Loading(A) == pc = "load" /\ A /\ UNCHANGED benchVars

Fairness ==
    /\ WF_vars(ParseArgs) /\ WF_vars(SpawnEchoServices) /\ WF_vars(StartLb)
    /\ WF_vars(WaitPort \/ PortNeverOpened) /\ WF_vars(StopLb) /\ WF_vars(PhaseEnds)
    /\ WF_vars(pc = "report" /\ \E mode \in Modes, before \in Baselines : Report(mode, before))
    /\ \A p \in Processes :
         WF_vars(LbBinds(p)) /\ WF_vars(LbHandlesSignal(p)) /\ WF_vars(LbExits(p))
    /\ WF_vars(Loading(FirstWave))
    /\ \A r \in Requests :
         /\ WF_vars(Loading(TimerExpires(r)))
         /\ WF_vars(Loading(OnTimer(r)))
         /\ WF_vars(Loading(OnConnect(r) \/ OnWriteDone(r) \/ OnReadSome(r)))
         /\ WF_vars(Loading(PeerSettles(r)))

Spec == Init /\ [][Next]_vars /\ Fairness

-----------------------------------------------------------------------------
(* Properties.                                                              *)

\* What is measured is the load balancer of this phase.  A load balancer that
\* was told to stop still listens for a while, but StopLb() waits until it has
\* gone: while the load runs nobody else holds the port, it was the new child
\* that WaitPort() found there, and when main() returns no process is left.
MeasuresOwnLb ==
    /\ pc = "load" => /\ \A p \in Processes : HoldsPort(p) => p = Child
                      /\ lbs[Child] # "starting"
    /\ outcome.exit \in {"ok", "regression"} =>
         \A p \in Processes : lbs[p] \in {"none", "gone"}

\* Usage: "--compare  Compare against baseline, exit 1 on regression".  When a
\* comparison exits 0, no algorithm is slower than the threshold allows by the
\* baseline there was when the benchmark was started.
CompareFailsOnRegression ==
    outcome.exit = "ok" /\ "compare" \in outcome.mode =>
        \A i \in DOMAIN Algos :
            LET old == Scan(outcome.before, Algos[i])
            IN  (old - measured[i]) * 100 <= ThresholdPct * old

\* The benchmark ends: the load also when connections hang or a timer expires
\* in the moment its connection succeeds, and every process it waits for.
BenchEnds == <>(pc = "exited")
=============================================================================
