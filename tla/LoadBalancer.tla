---------------------------- MODULE LoadBalancer ----------------------------
(* The program of core/main.cpp: the proxy and the health checker on one    *)
(* io_context and one pool, the signal handler that stops both, and run(),  *)
(* which returns when no asynchronous operation is left and throws what a   *)
(* handler throws.                                                          *)
EXTENDS TcpProxy, HealthChecker

CONSTANT HealthEnabled    \* hc.GetEnabled()

ASSUME LoadBalancerAssumption == HealthEnabled \in BOOLEAN

VARIABLES signalOp,    \* the one wait on the signal_set
          exitCode     \* "running", then "ok" (0) or "failed" (1)

lbVars == <<proxyVars, healthVars, poolVars, fatal, signalOp, exitCode>>

\* main() up to ioContext.run(), with a configuration that Load() accepted
Init ==
    /\ PoolInit
    /\ ProxyInit
    /\ HealthEnabled => HealthInit
    /\ ~HealthEnabled =>
         /\ stopped = FALSE
         /\ round = "none"
         /\ connect = [s \in Services |-> [k \in Slots |-> "none"]]
         /\ timer = [s \in Services |-> [k \in Slots |-> "none"]]
         /\ reach = [s \in Services |-> "up"]
    /\ fatal = FALSE
    /\ signalOp = "pending"
    /\ exitCode = "running"

Proxying ==
    /\ exitCode = "running"
    /\ ProxyStep
    /\ UNCHANGED <<healthVars, healthy, consecutiveFailures, signalOp, exitCode>>

Probing ==
    /\ exitCode = "running" /\ HealthEnabled
    /\ HealthStep
    /\ UNCHANGED <<proxyVars, activeConnections, signalOp, exitCode>>

\* SIGINT or SIGTERM.  The set stays registered, so a second one is swallowed.
SignalArrives ==
    /\ exitCode = "running" /\ ~fatal
    /\ signalOp = "pending"
    /\ signalOp' = "ok"
    /\ UNCHANGED <<proxyVars, healthVars, poolVars, fatal, exitCode>>

\* Mutant: the handler forgets the health checker.
OnSignalKeepsChecker == UNCHANGED <<healthVars, healthy, consecutiveFailures>>

StopHealth ==
    IF HealthEnabled THEN StopChecker ELSE UNCHANGED <<healthVars, healthy, consecutiveFailures>>

OnSignal ==
    /\ exitCode = "running" /\ ~fatal
    /\ signalOp = "ok"
    /\ signalOp' = "none"
    /\ StopHealth
    /\ Stop
    /\ UNCHANGED exitCode

\* What keeps run() from returning
OutstandingWork ==
    \/ signalOp # "none"
    \/ acceptOp # "none"
    \/ round # "none"
    \/ \E s \in Services : FreeSlots(s) # Slots
    \/ \E c \in Clients : Live(c)

RunReturns ==
    /\ exitCode = "running" /\ ~fatal
    /\ ~OutstandingWork
    /\ exitCode' = "ok"
    /\ UNCHANGED <<proxyVars, healthVars, poolVars, fatal, signalOp>>

\* catch (const std::exception &) in main()
RunThrows ==
    /\ exitCode = "running" /\ fatal
    /\ exitCode' = "failed"
    /\ UNCHANGED <<proxyVars, healthVars, poolVars, fatal, signalOp>>

Exited == exitCode # "running" /\ UNCHANGED lbVars

Next == Proxying \/ Probing \/ SignalArrives \/ OnSignal \/ RunReturns \/ RunThrows \/ Exited

(* run() serves queued handlers, time passes, and every session comes to an *)
(* end: its peers close it or fall silent until a timeout does (Session).   *)
(* An accept that is tried again and again does not fail for ever: sessions *)
(* that end give descriptors back, and the kernel hands the backlog over.   *)
Proxy(A) == exitCode = "running" /\ ~fatal /\ A
            /\ UNCHANGED <<healthVars, healthy, consecutiveFailures, signalOp, exitCode>>
Health(A) == exitCode = "running" /\ ~fatal /\ A
             /\ UNCHANGED <<proxyVars, activeConnections, signalOp, exitCode>>

Fairness ==
    /\ WF_lbVars(Proxy(OnAccept))
    /\ \A c \in Clients : /\ SF_lbVars(Proxy(AcceptCompletes(c)))
                          /\ WF_lbVars(Proxy(SessionCloses(c)))
                          /\ WF_lbVars(Proxy(SessionDestroyed(c)))
    /\ WF_lbVars(Health(RoundExpires))
    /\ WF_lbVars(Health(OnRound))
    /\ \A s \in Services, k \in Slots : /\ WF_lbVars(Health(ProbeSettles(s, k)))
                                        /\ WF_lbVars(Health(OnProbeTimer(s, k)))
                                        /\ WF_lbVars(Health(OnProbeResult(s, k)))
    /\ WF_lbVars(OnSignal)
    /\ WF_lbVars(RunReturns)
    /\ WF_lbVars(RunThrows)

Spec == Init /\ [][Next]_lbVars /\ Fairness

-----------------------------------------------------------------------------
(* Properties.                                                              *)

\* main() returns 0 only after a signal stopped the acceptor, with every
\* session destroyed and every connection given back.
CleanExitDrained ==
    exitCode = "ok" =>
        /\ ~listening
        /\ \A c \in Clients : ~Live(c)
        /\ \A s \in Services : activeConnections[s] = 0

\* A stop that finds the accept still waiting ends the process: the aborted
\* accept, the health checker, its probes in flight and the sessions all let
\* run() go.
StopEndsProcess ==
    (~listening /\ acceptOp \in {"none", "aborted"}) ~> exitCode # "running"

\* No client is left in the backlog: whatever becomes of the clients accepted
\* before it, and also when accept() fails while descriptors are short, the
\* loop tries again until the client is served, dropped or refused.
BacklogServed ==
    \A c \in Clients : clients[c] = "backlog" ~> clients[c] # "backlog" \/ exitCode # "running"

\* README.md: graceful shutdown on SIGINT and SIGTERM.  After the signal the
\* process exits once its sessions have ended.
SignalEndsProcess == signalOp = "ok" ~> exitCode # "running"

\* README.md: a shutdown drains existing connections before exit.
DrainsBeforeExit ==
    exitCode # "running" /\ ~listening => \A c \in Clients : ~Live(c)
=============================================================================
