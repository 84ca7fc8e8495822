------------------------------ MODULE TcpProxy ------------------------------
(* The accept loop of core/proxy/TcpProxy.cpp, over the shared pool and one *)
(* of the routing strategies, with sessions at the level of SessionContract *)
(* (Session implements it): open, closing, gone.                            *)
(*                                                                          *)
(* clients[c] is the fate of one incoming connection:                       *)
(*   "away"      not made yet                                               *)
(*   "backlog"   established by the kernel, not accepted yet                *)
(*   "accepted"  socket handed to a queued OnAccept()                       *)
(*   "open", "closing", "gone"   the states of its Session                  *)
(*   "dropped"   closed by OnAccept() without a session                     *)
(*   "refused"   refused or reset because the acceptor is closed            *)
EXTENDS Routing, EventLoop

CONSTANTS Clients, NoClient,
          Algorithm,      \* "p2c" or "consistent-hash"
          VNodeHash,      \* hash values of the ring's virtual nodes
          KeyHash         \* hash value of each client's address

ASSUME TcpProxyAssumption ==
    /\ IsFiniteSet(Clients)
    /\ NoClient \notin Clients
    /\ Algorithm \in {"p2c", "consistent-hash"}
    /\ VNodeHash \in [Entries -> Nat]
    /\ KeyHash \in [Clients -> Nat]

VARIABLES listening,    \* m_acceptor is open
          acceptOp,     \* status of async_accept
          accepted,     \* the client of a queued successful accept, or NoClient
          clients,      \* see above
          reset,        \* clients whose peer has reset the connection
          backend       \* the service of a client's session, or NoService

proxyVars == <<listening, acceptOp, accepted, clients, reset, backend>>

ClientStatus == {"away", "backlog", "accepted", "open", "closing", "gone",
                 "dropped", "refused"}

ProxyTypeOK ==
    /\ listening \in BOOLEAN
    /\ acceptOp \in OpStatus
    /\ accepted \in Clients \cup {NoClient}
    /\ clients \in [Clients -> ClientStatus]
    /\ reset \subseteq Clients
    /\ backend \in [Clients -> Services \cup {NoService}]
    /\ fatal \in BOOLEAN

\* The constructor and Start(): the acceptor is bound, the first accept posted.
ProxyInit ==
    /\ listening = TRUE
    /\ acceptOp = "pending"
    /\ accepted = NoClient
    /\ clients = [c \in Clients |-> "away"]
    /\ reset = {}
    /\ backend = [c \in Clients |-> NoService]

Live(c) == clients[c] \in {"open", "closing"}
SessionsOn(s) == {c \in Clients : Live(c) /\ backend[c] = s}

-----------------------------------------------------------------------------
(* Clients and the kernel.                                                  *)

ClientConnects(c) ==
    /\ clients[c] = "away"
    /\ clients' = [clients EXCEPT ![c] = IF listening THEN "backlog" ELSE "refused"]
    /\ UNCHANGED <<listening, acceptOp, accepted, reset, backend, fatal, activeConnections>>

\* The peer resets a connection that OnAccept() has not looked at yet.
ClientResets(c) ==
    /\ clients[c] \in {"backlog", "accepted"}
    /\ c \notin reset
    /\ reset' = reset \cup {c}
    /\ UNCHANGED <<listening, acceptOp, accepted, clients, backend, fatal, activeConnections>>

AcceptCompletes(c) ==
    /\ acceptOp = "pending"
    /\ clients[c] = "backlog"
    /\ acceptOp' = "ok"
    /\ accepted' = c
    /\ clients' = [clients EXCEPT ![c] = "accepted"]
    /\ UNCHANGED <<listening, reset, backend, fatal, activeConnections>>

\* For instance no file descriptor is left; the connection stays in the backlog.
AcceptFails ==
    /\ acceptOp = "pending"
    /\ \E c \in Clients : clients[c] = "backlog"
    /\ acceptOp' = "error"
    /\ UNCHANGED <<listening, accepted, clients, reset, backend, fatal, activeConnections>>

-----------------------------------------------------------------------------
(* TcpProxy.                                                                *)

SelectService(c) ==
    IF Algorithm = "p2c" THEN P2C ELSE {RingWalk(VNodeHash, KeyHash[c])}

\* Mutant: the accept loop ends with the client it could not serve.
AcceptNextForgotten == acceptOp' = "none"

\* async_accept on a closed acceptor completes at once with bad_descriptor,
\* which is an error other than operation_aborted.
AcceptNext == acceptOp' = IF listening THEN "pending" ELSE "error"

\* An exception leaves OnAccept(): no accept is posted, and the client's
\* socket is closed on the way out.
OnAcceptThrows(c) ==
    /\ fatal' = TRUE
    /\ acceptOp' = "none"
    /\ clients' = [clients EXCEPT ![c] = "dropped"]
    /\ UNCHANGED backend

\* remote_endpoint() throws for a peer that has gone; nothing is counted yet.
RemoteEndpointThrows(c) == OnAcceptThrows(c) /\ UNCHANGED activeConnections

\* Mutant: connections are given back by Shutdown(), which nobody calls here,
\* and not by the destructor.
StartThrowsUncounted(c, s) ==
    /\ OnAcceptThrows(c)
    /\ activeConnections' = IncrementConnections(activeConnections, s)

\* make_address() throws in Session::Start(), when the session is counted and
\* has no operation yet: the only reference to it goes away on the way out,
\* and its destructor gives the connection back.
StartThrows(c, s) ==
    /\ OnAcceptThrows(c)
    /\ LET counted == IncrementConnections(activeConnections, s)
       IN  activeConnections' = DecrementConnections(counted, s)

\* No healthy backend: the client is closed.
Drop(c) ==
    /\ clients' = [clients EXCEPT ![c] = "dropped"]
    /\ AcceptNext
    /\ UNCHANGED <<backend, fatal, activeConnections>>

StartSession(c, s) ==
    /\ clients' = [clients EXCEPT ![c] = "open"]
    /\ backend' = [backend EXCEPT ![c] = s]
    /\ activeConnections' = IncrementConnections(activeConnections, s)
    /\ AcceptNext
    /\ UNCHANGED fatal

Serve(c) ==
    IF c \in reset THEN RemoteEndpointThrows(c)
    ELSE \E s \in SelectService(c) :
           \/ s = NoService /\ Drop(c)
           \/ s \in BadAddress /\ StartThrows(c, s)
           \/ s \in Services \ BadAddress /\ StartSession(c, s)

OnAccept ==
    /\ acceptOp \in {"ok", "error", "aborted"}
    /\ CASE acceptOp = "aborted" ->
              acceptOp' = "none" /\ UNCHANGED <<clients, backend, fatal, activeConnections>>
         [] acceptOp = "error" ->
              AcceptNext /\ UNCHANGED <<clients, backend, fatal, activeConnections>>
         [] acceptOp = "ok" -> Serve(accepted)
    /\ accepted' = NoClient
    /\ UNCHANGED <<listening, reset>>

\* Stop(): the kernel resets what is still in the backlog.
Stop ==
    /\ listening' = FALSE
    /\ acceptOp' = Cancelled(acceptOp)
    /\ clients' = [c \in Clients |-> IF clients[c] = "backlog" THEN "refused" ELSE clients[c]]
    /\ UNCHANGED <<accepted, reset, backend, fatal, activeConnections>>

-----------------------------------------------------------------------------
(* Sessions, as SessionContract describes them.                             *)

SessionCloses(c) ==
    /\ clients[c] = "open"
    /\ clients' = [clients EXCEPT ![c] = "closing"]
    /\ UNCHANGED <<listening, acceptOp, accepted, reset, backend, fatal, activeConnections>>

SessionDestroyed(c) ==
    /\ clients[c] = "closing"
    /\ clients' = [clients EXCEPT ![c] = "gone"]
    /\ activeConnections' = DecrementConnections(activeConnections, backend[c])
    /\ UNCHANGED <<listening, acceptOp, accepted, reset, backend, fatal>>

\* Everything but Stop(), which the program calls from its signal handler
ProxyStep ==
    /\ ~fatal
    /\ \/ \E c \in Clients : \/ ClientConnects(c) \/ ClientResets(c) \/ AcceptCompletes(c)
                             \/ SessionCloses(c) \/ SessionDestroyed(c)
       \/ AcceptFails
       \/ OnAccept

(* The proxy by itself: services fail and recover as they like, and Stop()  *)
(* may come at any moment.                                                  *)
HealthFlips(s) ==
    /\ ~fatal
    /\ SetHealthy(s, ~healthy[s])
    /\ UNCHANGED <<proxyVars, fatal, activeConnections, consecutiveFailures>>

\* run() has thrown.
Ended == fatal /\ UNCHANGED <<proxyVars, poolVars, fatal>>

ProxySpecInit == PoolInit /\ ProxyInit /\ fatal = FALSE

ProxyNext ==
    \/ (ProxyStep \/ (~fatal /\ listening /\ Stop)) /\ UNCHANGED <<healthy, consecutiveFailures>>
    \/ \E s \in Services : HealthFlips(s)
    \/ Ended

allProxyVars == <<proxyVars, poolVars, fatal>>

ProxySpec == ProxySpecInit /\ [][ProxyNext]_allProxyVars

-----------------------------------------------------------------------------
(* Properties.                                                              *)

\* The counter that P2C compares is, at every moment, the number of sessions
\* the service really has: OnAccept() counts a session before it starts, its
\* destructor uncounts it, and no failure path in between loses or repeats
\* either.  DecrementConnections() saturates, so a missed increment would go
\* unnoticed in the code.
ConnectionsCounted ==
    \A s \in Services : activeConnections[s] = Cardinality(SessionsOn(s))

\* The accept loop survives every client it handles: while the acceptor is
\* open and no exception has left a handler, an accept is outstanding.
AlwaysAccepting == listening /\ ~fatal => acceptOp # "none"

\* A new session goes to a service that is healthy at that moment, and with
\* P2C never to one that is busier than all other healthy services.
NewSessionsBalanced ==
    [][ \A c \in Clients : ~Live(c) /\ Live(c)' =>
          LET s == backend'[c]
          IN  /\ healthy[s]
              /\ Algorithm = "p2c" /\ HealthyServices # {s} =>
                   \E t \in HealthyServices \ {s} : activeConnections[s] <= activeConnections[t]
      ]_allProxyVars
=============================================================================
