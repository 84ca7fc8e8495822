------------------------------ MODULE Session ------------------------------
(* One proxied connection: core/proxy/Session.cpp.                          *)
(*                                                                          *)
(* A Session owns two sockets and two timers and is kept alive only by the  *)
(* handlers of its outstanding asynchronous operations (each captures       *)
(* shared_from_this()).  io_context::run() is called by one thread, so a    *)
(* handler is one atomic step; what interleaves is the completion of the    *)
(* operations (kernel, clock, peers) with the handlers waiting to be run.   *)
(*                                                                          *)
(* An operation is "none", "pending", or completed with its handler queued: *)
(* "ok" or "err".  Cancelling a timer or closing a socket turns "pending"   *)
(* into "err" and, as Boost.Asio documents, cannot recall an "ok" that is   *)
(* already queued.  No order is assumed between queued handlers.            *)
EXTENDS Integers, Sequences

CONSTANTS IdleTimeoutEnabled,   \* idleTimeoutMs > 0
          MaxChunks             \* bound: chunks each peer sends

ASSUME SessionAssumption ==
    /\ IdleTimeoutEnabled \in BOOLEAN
    /\ MaxChunks \in Nat \ {0}

VARIABLES op,            \* status of each asynchronous operation
          stale,         \* idle waits superseded by a re-arm, by queued outcome
          shuttingDown,  \* m_shuttingDown; both sockets are closed once it is set
          buf,           \* chunk number held by m_clientBuf / m_backendBuf
          taken,         \* chunks read from each peer so far
          delivered,     \* history: chunks written to the other peer, in order
          relayed,       \* history: a write handler ran since the idle timer was armed
          active,        \* this session's share of m_backend's activeConnections
          destroyed      \* ~Session() has run

vars == <<op, stale, shuttingDown, buf, taken, delivered, relayed, active, destroyed>>

Dirs   == {"up", "down"}            \* client to backend, backend to client
Timers == {"connectTimer", "idleTimer"}
Ops    == Timers \cup {"connect", "readClient", "readBackend",
                       "writeBackend", "writeClient"}
Queued == {"ok", "err"}
Status == {"none", "pending"} \cup Queued

ReadOp(d)  == IF d = "up" THEN "readClient" ELSE "readBackend"
WriteOp(d) == IF d = "up" THEN "writeBackend" ELSE "writeClient"

TypeOK ==
    /\ op \in [Ops -> Status]
    /\ stale \in [Queued -> Nat]
    /\ shuttingDown \in BOOLEAN
    /\ buf \in [Dirs -> 0..MaxChunks]
    /\ taken \in [Dirs -> 0..MaxChunks]
    /\ delivered \in [Dirs -> Seq(0..MaxChunks)]
    /\ relayed \in BOOLEAN
    /\ active \in 0..1
    /\ destroyed \in BOOLEAN

\* Mutant: the constructor counts as well as the caller.
CountedTwice == 2

\* TcpProxy::OnAccept() calls IncrementConnections() once, before Start().
CountedAtStart == 1

(* The constructor, the caller's IncrementConnections() and Start().        *)
Init ==
    /\ op = [o \in Ops |-> IF o \in {"connectTimer", "connect"} THEN "pending" ELSE "none"]
    /\ stale = [q \in Queued |-> 0]
    /\ shuttingDown = FALSE
    /\ buf = [d \in Dirs |-> 0]
    /\ taken = [d \in Dirs |-> 0]
    /\ delivered = [d \in Dirs |-> <<>>]
    /\ relayed = FALSE
    /\ active = CountedAtStart
    /\ destroyed = FALSE

-----------------------------------------------------------------------------
(* Pieces of the handlers.  Each maps the table of operations to the table  *)
(* after the call.                                                          *)

\* timer.cancel(), and what close() does to an operation of that socket
Abort(status) == IF status = "pending" THEN "err" ELSE status

\* An operation started on a closed socket completes at once with an error.
StartIO(f, o) == [f EXCEPT ![o] = IF shuttingDown THEN "err" ELSE "pending"]

\* Mutant: leaves the backend socket open.
AfterShutdownKeepsBackend(f) ==
    IF shuttingDown THEN f
    ELSE [o \in Ops |-> IF o \in {"connect", "readBackend", "writeBackend"}
                        THEN f[o] ELSE Abort(f[o])]

\* Shutdown(): the second call returns early; the first cancels both timers
\* and closes both sockets, which aborts every pending operation.
AfterShutdown(f) ==
    IF shuttingDown THEN f ELSE [o \in Ops |-> Abort(f[o])]

\* Mutant: expires_after() without a new async_wait().
ArmIdleForgetsWait(f) == IF IdleTimeoutEnabled THEN [f EXCEPT !["idleTimer"] = "none"] ELSE f

\* expires_after() and async_wait() on the idle timer at the top of
\* ReadFromClient(): the wait that was in place keeps its queued outcome.
ArmIdle(f) == IF IdleTimeoutEnabled THEN [f EXCEPT !["idleTimer"] = "pending"] ELSE f

Superseded ==
    IF ~IdleTimeoutEnabled \/ op["idleTimer"] = "none" THEN stale
    ELSE [stale EXCEPT ![IF op["idleTimer"] = "ok" THEN "ok" ELSE "err"] = @ + 1]

ReadFromClient(f)  == StartIO(ArmIdle(f), "readClient")
ReadFromBackend(f) == StartIO(f, "readBackend")

\* What the write handler of a direction starts next.
ReadAgain(d, f) == IF d = "up" THEN ReadFromClient(f) ELSE ReadFromBackend(f)

\* ServiceState::DecrementConnections(), saturating at zero
DecrementConnections(n) == IF n > 0 THEN n - 1 ELSE n

(* The end of a handler: its copy of the shared_ptr goes away, and with the *)
(* last one the session, whose destructor gives the connection back.        *)
Outstanding(f, st) == (\E o \in Ops : f[o] # "none") \/ (\E q \in Queued : st[q] > 0)

\* Mutant: the destructor forgets DecrementConnections().
ReleaseForgetsCount(f, st) ==
    /\ UNCHANGED active
    /\ destroyed' = ~Outstanding(f, st)

Release(f, st) ==
    IF Outstanding(f, st)
    THEN UNCHANGED <<active, destroyed>>
    ELSE /\ destroyed' = TRUE
         /\ active' = DecrementConnections(active)

HandlerEnds(f, st, down) ==
    /\ op' = f
    /\ stale' = st
    /\ shuttingDown' = (shuttingDown \/ down)
    /\ Release(f, st)

-----------------------------------------------------------------------------
(* Completions: the clock, the kernel and the peers.                        *)

TimerExpires(t) ==
    /\ op[t] = "pending"
    /\ op' = [op EXCEPT ![t] = "ok"]
    /\ UNCHANGED <<stale, shuttingDown, buf, taken, delivered, relayed, active, destroyed>>

ConnectCompletes(result) ==
    /\ op["connect"] = "pending"
    /\ op' = [op EXCEPT !["connect"] = result]
    /\ UNCHANGED <<stale, shuttingDown, buf, taken, delivered, relayed, active, destroyed>>

\* async_read_some fills the buffer when it completes, before its handler runs.
ReadCompletes(d) ==
    /\ op[ReadOp(d)] = "pending"
    /\ taken[d] < MaxChunks
    /\ op' = [op EXCEPT ![ReadOp(d)] = "ok"]
    /\ taken' = [taken EXCEPT ![d] = @ + 1]
    /\ buf' = [buf EXCEPT ![d] = taken[d] + 1]
    /\ UNCHANGED <<stale, shuttingDown, delivered, relayed, active, destroyed>>

\* async_write takes its bytes from the buffer up to the moment it completes.
WriteCompletes(d) ==
    /\ op[WriteOp(d)] = "pending"
    /\ op' = [op EXCEPT ![WriteOp(d)] = "ok"]
    /\ delivered' = [delivered EXCEPT ![d] = Append(@, buf[d])]
    /\ UNCHANGED <<stale, shuttingDown, buf, taken, relayed, active, destroyed>>

\* End of stream, a reset, a broken pipe.
PeerFails(o) ==
    /\ op[o] = "pending"
    /\ op' = [op EXCEPT ![o] = "err"]
    /\ UNCHANGED <<stale, shuttingDown, buf, taken, delivered, relayed, active, destroyed>>

-----------------------------------------------------------------------------
(* Handlers.                                                                *)

\* The wait handlers of both timers: Shutdown() unless the wait was aborted.
OnTimer(t) ==
    /\ op[t] \in Queued
    /\ LET f == [op EXCEPT ![t] = "none"]
           expired == op[t] = "ok"
       IN  HandlerEnds(IF expired THEN AfterShutdown(f) ELSE f, stale, expired)
    /\ UNCHANGED <<buf, taken, delivered, relayed>>

\* The same handler, of an idle wait that ReadFromClient() superseded.
OnStaleIdleTimer(q) ==
    /\ stale[q] > 0
    /\ HandlerEnds(IF q = "ok" THEN AfterShutdown(op) ELSE op,
                   [stale EXCEPT ![q] = @ - 1], q = "ok")
    /\ UNCHANGED <<buf, taken, delivered, relayed>>

\* Mutant: only one direction is started.
StartRelayBackendOnly(f) == ReadFromBackend(f)

\* ReadFromClient(); ReadFromBackend();
StartRelay(f) == ReadFromBackend(ReadFromClient(f))

OnConnected ==
    /\ op["connect"] \in Queued
    /\ LET f == [op EXCEPT !["connect"] = "none", !["connectTimer"] = Abort(@)]
       IN  IF op["connect"] = "err"
           THEN HandlerEnds(AfterShutdown(f), stale, TRUE) /\ UNCHANGED relayed
           ELSE HandlerEnds(StartRelay(f), Superseded, FALSE) /\ relayed' = FALSE
    /\ UNCHANGED <<buf, taken, delivered>>

\* Mutant: reads the next chunk while the last one is still being written.
AfterReadPipelined(d, f) == ReadAgain(d, StartIO(f, WriteOp(d)))

AfterRead(d, f) == StartIO(f, WriteOp(d))

OnRead(d) ==
    /\ op[ReadOp(d)] \in Queued
    /\ LET f == [op EXCEPT ![ReadOp(d)] = "none"]
       IN  IF op[ReadOp(d)] = "err"
           THEN HandlerEnds(AfterShutdown(f), stale, TRUE)
           ELSE HandlerEnds(AfterRead(d, f), stale, FALSE)
    /\ UNCHANGED <<buf, taken, delivered, relayed>>

OnWrite(d) ==
    /\ op[WriteOp(d)] \in Queued
    /\ LET f == [op EXCEPT ![WriteOp(d)] = "none"]
       IN  IF op[WriteOp(d)] = "err"
           THEN HandlerEnds(AfterShutdown(f), stale, TRUE) /\ UNCHANGED relayed
           ELSE /\ HandlerEnds(ReadAgain(d, f), IF d = "up" THEN Superseded ELSE stale, FALSE)
                /\ relayed' = ~(d = "up" /\ IdleTimeoutEnabled)
    /\ UNCHANGED <<buf, taken, delivered>>

\* Nothing is left of the session.
Done == destroyed /\ UNCHANGED vars

Handler ==
    \/ \E t \in Timers : OnTimer(t)
    \/ \E q \in Queued : OnStaleIdleTimer(q)
    \/ OnConnected
    \/ \E d \in Dirs : OnRead(d) \/ OnWrite(d)

Next ==
    \/ \E t \in Timers : TimerExpires(t)
    \/ \E r \in Queued : ConnectCompletes(r)
    \/ \E d \in Dirs : ReadCompletes(d) \/ WriteCompletes(d) \/ PeerFails(ReadOp(d))
                       \/ PeerFails(WriteOp(d))
    \/ Handler
    \/ Done

(* Time passes and run() serves every queued handler.  Nothing is assumed   *)
(* of the peers: a connect, a read or a write may stay pending for ever.    *)
Fairness ==
    /\ \A t \in Timers : WF_vars(TimerExpires(t)) /\ WF_vars(OnTimer(t))
    /\ \A q \in Queued : WF_vars(OnStaleIdleTimer(q))
    /\ WF_vars(OnConnected)
    /\ \A d \in Dirs : WF_vars(OnRead(d)) /\ WF_vars(OnWrite(d))

Spec == Init /\ [][Next]_vars /\ Fairness

-----------------------------------------------------------------------------
(* Properties.                                                              *)

\* Each direction delivers exactly the chunks it read, in order and without
\* a gap or a repetition, although one buffer per direction is reused by
\* every read and write of ReadFromClient() and ReadFromBackend().
InOrderDelivery ==
    \A d \in Dirs : \A i \in 1..Len(delivered[d]) : delivered[d][i] = i

\* Shutdown() closes both sockets whatever the other direction is doing.  Of
\* what a direction has read, never more than the one chunk in its buffer is
\* left unwritten, and none while it waits for its peer.  (What a peer had
\* sent and the session never read is lost as well and not counted here.)
LossBounded ==
    \A d \in Dirs :
        /\ taken[d] <= Len(delivered[d]) + 1
        /\ op[ReadOp(d)] = "pending" => taken[d] = Len(delivered[d])

\* The relay of an open session never stalls by its own doing and never runs
\* two operations on one buffer: in each direction the session is either
\* still connecting or waiting for exactly one of its read and its write.
OneOperationPerDirection ==
    ~shuttingDown =>
        \A d \in Dirs :
            IF op["connect"] # "none"
            THEN op[ReadOp(d)] = "none" /\ op[WriteOp(d)] = "none"
            ELSE (op[ReadOp(d)] = "none") # (op[WriteOp(d)] = "none")

\* An open session is always under the watch of a timer: of the connect timer
\* until OnConnected() has run and then, with idle timeouts on, of the idle
\* timer, which every re-arm in ReadFromClient() keeps armed.
AlwaysWatched ==
    ~shuttingDown =>
        IF op["connect"] # "none"
        THEN op["connectTimer"] \in {"pending", "ok"}
        ELSE IdleTimeoutEnabled => op["idleTimer"] \in {"pending", "ok"}

\* The session of peers that fall silent is destroyed in the end: the two
\* timers close it and every handler that is still queued lets go of it.
SilentSessionEnds == <>destroyed

\* Once Shutdown() has run nothing more is read from or written to a peer,
\* although handlers that were queued before it still run, start their next
\* read or write on a closed socket, and re-arm the idle timer.
QuietAfterShutdown == [][ shuttingDown => UNCHANGED <<buf, taken, delivered>> ]_vars

\* README.md lists idle timeouts: the idle timer of an open session expires
\* only if no write handler, of either direction, has run since it was armed.
\* Code that re-armed the timer in both handlers would have this property.
IdleTimeoutOnlyWhenIdle ==
    [][ TimerExpires("idleTimer") /\ ~shuttingDown => ~relayed ]_vars

(* What the rest of the program relies on.                                  *)
Contract == INSTANCE SessionContract WITH
    status <- IF destroyed THEN "gone" ELSE IF shuttingDown THEN "closing" ELSE "open",
    active <- active

\* A Session behaves as its contract says: open, closing, gone, the
\* connection given back exactly once, with the last handler, and a session
\* that started closing is destroyed.
ImplementsContract == Contract!Spec
=============================================================================
