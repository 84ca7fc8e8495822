---------------------------- MODULE LoadGenerator ----------------------------
(* The load phase of the benchmark, bench/main.cpp: RunLoad() sends Total   *)
(* requests over at most Concurrency connections at a time; every request   *)
(* that ends launches the next ones, and the last one stops the io_context. *)
(*                                                                          *)
(* One thread runs the io_context, so handlers are atomic.  A connection    *)
(* goes through connect, write and any number of reads; its timer, which    *)
(* closes the socket, is cancelled once connected, but an expiry that is    *)
(* already queued cannot be recalled.                                       *)
EXTENDS Integers, FiniteSets

CONSTANTS Total,          \* --requests
          Concurrency     \* --concurrency

\* With a 0 nothing is launched, nobody calls stop() and run() never returns.
ASSUME LoadGeneratorAssumption ==
    Total \in Nat \ {0} /\ Concurrency \in Nat \ {0}

VARIABLES running,    \* run() has not been stopped
          posted,     \* the first LaunchWave() waits to be run
          phase,      \* of each request: what its socket is doing
          op,         \* and how far that operation is
          timer,      \* the wait on its timer
          closed,     \* requests whose timer has closed their socket
          answered,   \* m_bytesRead > 0
          results,    \* m_results: the ok and the failed requests recorded
          inflight, launched, done, peakInflight

loadVars == <<running, posted, phase, op, timer, closed, answered, results,
          inflight, launched, done, peakInflight>>

Requests == 1..Total
Phases   == {"waiting", "connect", "write", "read", "ended"}
OpStatus == {"none", "pending", "ok", "eof", "reset", "error"}

LoadTypeOK ==
    /\ running \in BOOLEAN /\ posted \in BOOLEAN
    /\ phase \in [Requests -> Phases]
    /\ op \in [Requests -> OpStatus]
    /\ timer \in [Requests -> {"none", "pending", "ok"}]
    /\ closed \subseteq Requests
    /\ answered \subseteq Requests
    /\ results \in [ok : SUBSET Requests, failed : SUBSET Requests]
    /\ {inflight, launched, done, peakInflight} \subseteq 0..Total

\* RunLoad() up to ioc.run()
LoadInit ==
    /\ running = TRUE
    /\ posted = TRUE
    /\ phase = [r \in Requests |-> "waiting"]
    /\ op = [r \in Requests |-> "none"]
    /\ timer = [r \in Requests |-> "none"]
    /\ closed = {}
    /\ answered = {}
    /\ results = [ok |-> {}, failed |-> {}]
    /\ inflight = 0 /\ launched = 0 /\ done = 0 /\ peakInflight = 0

\* The same for the next load, with counters and results of its own
LoadAgain ==
    /\ running' = TRUE
    /\ posted' = TRUE
    /\ phase' = [r \in Requests |-> "waiting"]
    /\ op' = [r \in Requests |-> "none"]
    /\ timer' = [r \in Requests |-> "none"]
    /\ closed' = {}
    /\ answered' = {}
    /\ results' = [ok |-> {}, failed |-> {}]
    /\ inflight' = 0 /\ launched' = 0 /\ done' = 0 /\ peakInflight' = 0

-----------------------------------------------------------------------------
\* Mutant: compares the counter before it adds the connection.
RoomForOneMore(busy) == Concurrency - busy + 1

\* How often the loop of LaunchWave() may run before m_inflight is full
Room(busy) == Concurrency - busy

\* The loop of LaunchWave(), with busy connections in flight: it starts as
\* many requests as there is room for and requests are left.
LaunchWave(busy, ph, ops, tm) ==
    LET n   == IF Room(busy) < Total - launched THEN Room(busy) ELSE Total - launched
        new == (launched + 1)..(launched + n)
    IN  /\ inflight' = busy + n
        /\ launched' = launched + n
        /\ peakInflight' = IF busy + n > peakInflight /\ n > 0 THEN busy + n ELSE peakInflight
        /\ phase' = [r \in Requests |-> IF r \in new THEN "connect" ELSE ph[r]]
        /\ op' = [r \in Requests |-> IF r \in new THEN "pending" ELSE ops[r]]
        /\ timer' = [r \in Requests |-> IF r \in new THEN "pending" ELSE tm[r]]

\* timer->cancel(): an expiry that is queued stays queued.
CancelTimer(r) == [timer EXCEPT ![r] = IF @ = "pending" THEN "none" ELSE @]

FirstWave ==
    /\ running /\ posted
    /\ posted' = FALSE
    /\ LaunchWave(inflight, phase, op, timer)
    /\ UNCHANGED <<running, closed, answered, results, done>>

\* Mutant: closing the socket counts the connection down once more.
TwoLess == inflight - 2

\* m_inflight.fetch_sub(1)
OneLess == inflight - 1

\* Mutant: stops when the last request is launched.
LastLaunched == launched = Total

\* m_done.load() >= m_total, after the fetch_add
AllDone == done' >= Total

\* How OnConnect(), OnWriteDone() and OnReadSome() end a request: record it,
\* close the socket, count it, launch what there is room for, stop at the end.
Finish(r, ok) ==
    /\ results' = IF ok THEN [results EXCEPT !.ok = @ \cup {r}]
                        ELSE [results EXCEPT !.failed = @ \cup {r}]
    /\ done' = done + 1
    /\ LaunchWave(OneLess, [phase EXCEPT ![r] = "ended"], [op EXCEPT ![r] = "none"],
                  CancelTimer(r))
    /\ running' = ~AllDone
    /\ UNCHANGED <<posted, closed, answered>>

\* The next asynchronous operation, which fails at once on a closed socket
Proceed(r, next) ==
    /\ phase' = [phase EXCEPT ![r] = next]
    /\ op' = [op EXCEPT ![r] = IF r \in closed THEN "error" ELSE "pending"]
    /\ UNCHANGED <<running, posted, closed, answered, results, inflight, launched, done, peakInflight>>

-----------------------------------------------------------------------------
(* The clock, the kernel and the load balancer.                             *)

TimerExpires(r) ==
    /\ running /\ timer[r] = "pending"
    /\ timer' = [timer EXCEPT ![r] = "ok"]
    /\ UNCHANGED <<running, posted, phase, op, closed, answered, results,
                   inflight, launched, done, peakInflight>>

\* Bound: the load balancer's answer arrives in one read, which is what 128
\* bytes and a header need; then, or before, it closes the connection.
Completes(r, result) ==
    /\ running /\ op[r] = "pending"
    /\ result = "eof" => phase[r] = "read"
    /\ result = "ok" => r \notin answered
    /\ op' = [op EXCEPT ![r] = result]
    /\ answered' = IF result = "ok" /\ phase[r] = "read" THEN answered \cup {r} ELSE answered
    /\ UNCHANGED <<running, posted, phase, timer, closed, results,
                   inflight, launched, done, peakInflight>>

-----------------------------------------------------------------------------
(* Handlers.                                                                *)

\* Mutant: the timeout passes without closing the socket.
OnTimerKeepsSocket(r) ==
    /\ running /\ timer[r] = "ok"
    /\ timer' = [timer EXCEPT ![r] = "none"]
    /\ UNCHANGED <<running, posted, phase, op, closed, answered, results,
                   inflight, launched, done, peakInflight>>

\* Closes the socket, whatever the connection is doing by now.
OnTimer(r) ==
    /\ running /\ timer[r] = "ok"
    /\ timer' = [timer EXCEPT ![r] = "none"]
    /\ op' = [op EXCEPT ![r] = IF @ = "pending" THEN "error" ELSE @]
    /\ closed' = closed \cup {r}
    /\ UNCHANGED <<running, posted, phase, answered, results,
                   inflight, launched, done, peakInflight>>

OnConnect(r) ==
    /\ running /\ phase[r] = "connect" /\ op[r] \notin {"none", "pending"}
    /\ IF op[r] # "ok" THEN Finish(r, FALSE)
       ELSE Proceed(r, "write") /\ timer' = CancelTimer(r)

OnWriteDone(r) ==
    /\ running /\ phase[r] = "write" /\ op[r] \notin {"none", "pending"}
    /\ IF op[r] # "ok" THEN Finish(r, FALSE)
       ELSE Proceed(r, "read") /\ UNCHANGED timer

OnReadSome(r) ==
    /\ running /\ phase[r] = "read" /\ op[r] \notin {"none", "pending"}
    /\ IF op[r] = "ok" THEN Proceed(r, "read") /\ UNCHANGED timer
       ELSE Finish(r, op[r] \in {"eof", "reset"})

LoadStep ==
    \/ FirstWave
    \/ \E r \in Requests :
         \/ TimerExpires(r)
         \/ \E result \in {"ok", "eof", "reset", "error"} : Completes(r, result)
         \/ OnTimer(r) \/ OnConnect(r) \/ OnWriteDone(r) \/ OnReadSome(r)

\* A connect may stay pending for ever; a write and a read do not: the load
\* balancer of the benchmark has an idle timeout and closes what is silent.
PeerSettles(r) ==
    phase[r] \in {"write", "read"} /\ \E result \in OpStatus \ {"none", "pending"} :
        Completes(r, result)

-----------------------------------------------------------------------------
(* Properties.                                                              *)

Busy == {r \in Requests : phase[r] \in {"connect", "write", "read"}}

\* Every request is recorded once, by whichever of the three handlers it ends
\* in, the counters agree with what the connections are doing, and RunLoad()
\* returns with a result for every request.
RequestsAccounted ==
    /\ results.ok \cap results.failed = {}
    /\ done = Cardinality(results.ok \cup results.failed)
    /\ inflight = Cardinality(Busy)
    /\ launched = inflight + done
    /\ ~running => results.ok \cup results.failed = Requests

Smaller(a, b) == IF a < b THEN a ELSE b

\* The load is what was asked for: from the first wave to the last request
\* exactly Concurrency connections are in flight, or all that are left, and
\* the peak that is reported is that number.
LoadSaturated ==
    ~posted => /\ inflight = Smaller(Concurrency, Total - done)
               /\ peakInflight = Smaller(Concurrency, Total)
=============================================================================
