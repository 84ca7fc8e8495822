--------------------------- MODULE TcpProxyProofs ---------------------------
(* Proofs about TcpProxy, for every number of clients and services, both    *)
(* strategies and every choice of hash values and unparsable addresses.     *)
EXTENDS TcpProxy, RoutingProofs

\* The counters are right because a client becomes live only from "accepted",
\* in the step that counts it, and a live client has a backend to give back.
\* An accept is aborted only by closing the acceptor.
AcceptOK ==
    /\ acceptOp = "ok" => accepted \in Clients /\ clients[accepted] = "accepted"
    /\ acceptOp = "aborted" => ~listening

BackendOK == \A c \in Clients : Live(c) => backend[c] \in Services

ProxyInv == /\ PoolTypeOK /\ ProxyTypeOK
            /\ AcceptOK /\ BackendOK
            /\ ConnectionsCounted /\ AlwaysAccepting

-----------------------------------------------------------------------------
(* Sets of sessions.                                                        *)

\* The sessions of a service are finitely many.
LEMMA SessionsFinite ==
    ASSUME NEW s PROVE IsFiniteSet(SessionsOn(s)) /\ Cardinality(SessionsOn(s)) \in Nat
<1>1. IsFiniteSet(SessionsOn(s))
  BY TcpProxyAssumption, FS_Subset DEF SessionsOn
<1> QED BY <1>1, FS_CardinalityType

\* The counters stay right while no client enters or leaves a live state.
LEMMA CountedStable ==
    ASSUME ConnectionsCounted, UNCHANGED activeConnections,
           \A c \in Clients : (Live(c)' <=> Live(c)) /\ (Live(c) => backend'[c] = backend[c])
    PROVE  ConnectionsCounted'
<1>1. ASSUME NEW s \in Services PROVE SessionsOn(s)' = SessionsOn(s)
  BY DEF SessionsOn
<1> QED BY <1>1 DEF ConnectionsCounted

\* OnAccept() counts the session it creates.
LEMMA CountedStart ==
    ASSUME PoolTypeOK, ProxyTypeOK, ConnectionsCounted, NEW c \in Clients, NEW s \in Services,
           clients[c] = "accepted", StartSession(c, s)
    PROVE  ConnectionsCounted'
<1>1. ~Live(c)
  BY DEF Live
<1>2. /\ clients' = [clients EXCEPT ![c] = "open"]
      /\ backend' = [backend EXCEPT ![c] = s]
      /\ activeConnections' = [activeConnections EXCEPT ![s] = @ + 1]
  BY DEF StartSession, IncrementConnections
<1>3. /\ Live(c)' /\ backend'[c] = s
      /\ \A d \in Clients \ {c} : (Live(d)' <=> Live(d)) /\ backend'[d] = backend[d]
  BY <1>2 DEF Live, ProxyTypeOK
<1>4. SessionsOn(s)' = SessionsOn(s) \cup {c} /\ c \notin SessionsOn(s)
  BY <1>1, <1>3 DEF SessionsOn
<1>5. \A t \in Services \ {s} : SessionsOn(t)' = SessionsOn(t)
  BY <1>1, <1>3 DEF SessionsOn
<1>6. Cardinality(SessionsOn(s) \cup {c}) = Cardinality(SessionsOn(s)) + 1
  BY <1>4, SessionsFinite, FS_AddElement
<1>7. ASSUME NEW t \in Services
      PROVE  activeConnections'[t] = Cardinality(SessionsOn(t)')
  BY <1>2, <1>4, <1>5, <1>6 DEF ConnectionsCounted, PoolTypeOK
<1> QED BY <1>7 DEF ConnectionsCounted

\* A session that is destroyed before Start() returns leaves no trace in the
\* counters.
LEMMA CountedAndUncounted ==
    ASSUME PoolTypeOK, NEW s \in Services,
           activeConnections' =
             DecrementConnections(IncrementConnections(activeConnections, s), s)
    PROVE  UNCHANGED activeConnections
  BY DEF PoolTypeOK, IncrementConnections, DecrementConnections

\* The destructor uncounts the session; the saturation never takes effect.
LEMMA CountedEnd ==
    ASSUME PoolTypeOK, ProxyTypeOK, ConnectionsCounted, NEW c \in Clients,
           NEW s \in Services, backend[c] = s, SessionDestroyed(c),
           UNCHANGED <<healthy, consecutiveFailures>>
    PROVE  PoolTypeOK' /\ ConnectionsCounted'
<1>1. Live(c)
  BY DEF SessionDestroyed, Live
<1>2. /\ clients' = [clients EXCEPT ![c] = "gone"]
      /\ backend' = backend
      /\ activeConnections' = [activeConnections EXCEPT
                ![s] = IF activeConnections[s] > 0 THEN activeConnections[s] - 1
                       ELSE activeConnections[s]]
  BY DEF SessionDestroyed, DecrementConnections
<1>3. ~Live(c)' /\ \A d \in Clients \ {c} : Live(d)' <=> Live(d)
  BY <1>2 DEF Live, ProxyTypeOK
<1>4. SessionsOn(s)' = SessionsOn(s) \ {c} /\ c \in SessionsOn(s)
  BY <1>1, <1>2, <1>3 DEF SessionsOn
<1>5. \A t \in Services \ {s} : SessionsOn(t)' = SessionsOn(t)
  BY <1>2, <1>3 DEF SessionsOn
<1>6. /\ Cardinality(SessionsOn(s) \ {c}) = Cardinality(SessionsOn(s)) - 1
      /\ Cardinality(SessionsOn(s) \ {c}) \in Nat
  BY <1>4, SessionsFinite, FS_RemoveElement, FS_CardinalityType
<1>7. Cardinality(SessionsOn(s)) \in Nat
  BY SessionsFinite
<1>8. activeConnections[s] = Cardinality(SessionsOn(s)) /\ activeConnections[s] > 0
  BY <1>6, <1>7 DEF ConnectionsCounted
<1>9. /\ activeConnections'[s] = activeConnections[s] - 1
      /\ \A t \in Services \ {s} : activeConnections'[t] = activeConnections[t]
      /\ activeConnections' \in [Services -> Nat]
  BY <1>2, <1>7, <1>8 DEF PoolTypeOK
<1>10. ASSUME NEW t \in Services
       PROVE  activeConnections'[t] = Cardinality(SessionsOn(t)')
  BY <1>4, <1>5, <1>6, <1>8, <1>9 DEF ConnectionsCounted
<1> QED BY <1>9, <1>10 DEF ConnectionsCounted, PoolTypeOK

-----------------------------------------------------------------------------
\* The invariant holds when Start() returns.
LEMMA ProxyInitInv == ProxySpecInit => ProxyInv
<1> SUFFICES ASSUME ProxySpecInit PROVE ProxyInv
  OBVIOUS
<1> USE DEF ProxySpecInit, PoolInit, ProxyInit
<1>1. PoolTypeOK
  BY ServicePoolAssumption DEF PoolTypeOK
<1>2. ProxyTypeOK
  BY Zenon DEF ProxyTypeOK, OpStatus, ClientStatus
<1>3. AcceptOK /\ AlwaysAccepting
  BY DEF AcceptOK, AlwaysAccepting
<1>4. \A c \in Clients : ~Live(c)
  BY DEF Live
<1>5. ConnectionsCounted
  <2>1. ASSUME NEW s \in Services PROVE SessionsOn(s) = {}
    BY <1>4 DEF SessionsOn
  <2> QED BY <2>1, FS_EmptySet DEF ConnectionsCounted
<1> QED BY <1>1, <1>2, <1>3, <1>4, <1>5 DEF ProxyInv, BackendOK

\* One step per action of the proxy and of its surroundings.
LEMMA ProxyNextInv == ProxyInv /\ [ProxyNext]_allProxyVars => ProxyInv'
<1> SUFFICES ASSUME ProxyInv, [ProxyNext]_allProxyVars PROVE ProxyInv'
  OBVIOUS
<1>i. PoolTypeOK /\ ProxyTypeOK /\ AcceptOK /\ BackendOK /\ ConnectionsCounted /\ AlwaysAccepting
  BY DEF ProxyInv
<1> DEFINE rest == UNCHANGED <<healthy, consecutiveFailures>>
\* Actions that leave every live client, and the pool, as they are.
<1>s. ASSUME ProxyTypeOK', AcceptOK', AlwaysAccepting', UNCHANGED poolVars,
             \A c \in Clients : (Live(c)' <=> Live(c)) /\ (Live(c) => backend'[c] = backend[c])
      PROVE  ProxyInv'
  <2>1. PoolTypeOK'
    BY <1>i, <1>s DEF PoolTypeOK, poolVars
  <2>2. ConnectionsCounted'
    BY <1>i, <1>s, CountedStable DEF poolVars
  <2>3. BackendOK'
    BY <1>i, <1>s DEF BackendOK
  <2> QED BY <1>s, <2>1, <2>2, <2>3 DEF ProxyInv
<1>1. ASSUME NEW c \in Clients, ClientConnects(c), rest PROVE ProxyInv'
  BY <1>1, <1>i, <1>s DEF ClientConnects, ProxyTypeOK, AcceptOK, AlwaysAccepting, Live,
     poolVars, ClientStatus
<1>2. ASSUME NEW c \in Clients, ClientResets(c), rest PROVE ProxyInv'
  BY <1>2, <1>i, <1>s DEF ClientResets, ProxyTypeOK, AcceptOK, AlwaysAccepting, Live, poolVars
<1>3. ASSUME NEW c \in Clients, AcceptCompletes(c), rest PROVE ProxyInv'
  BY <1>3, <1>i, <1>s DEF AcceptCompletes, ProxyTypeOK, AcceptOK, AlwaysAccepting, Live,
     poolVars, ClientStatus, OpStatus
<1>4. ASSUME AcceptFails, rest PROVE ProxyInv'
  BY <1>4, <1>i, <1>s DEF AcceptFails, ProxyTypeOK, AcceptOK, AlwaysAccepting, Live, poolVars,
     OpStatus
<1>5. ASSUME NEW c \in Clients, SessionCloses(c), rest PROVE ProxyInv'
  BY <1>5, <1>i, <1>s DEF SessionCloses, ProxyTypeOK, AcceptOK, AlwaysAccepting, Live, poolVars,
     ClientStatus
<1>6. ASSUME NEW c \in Clients, SessionDestroyed(c), rest PROVE ProxyInv'
  <2>1. PoolTypeOK' /\ ConnectionsCounted'
    <3>1. backend[c] \in Services
      BY <1>6, <1>i DEF SessionDestroyed, BackendOK, Live
    <3> QED BY <1>6, <1>i, <3>1, CountedEnd
  <2>2. ProxyTypeOK' /\ AcceptOK' /\ AlwaysAccepting' /\ BackendOK'
    BY <1>6, <1>i DEF SessionDestroyed, ProxyTypeOK, AcceptOK, AlwaysAccepting, BackendOK, Live,
       ClientStatus
  <2> QED BY <2>1, <2>2 DEF ProxyInv
<1>7. ASSUME OnAccept, ~fatal, rest PROVE ProxyInv'
  <2>1. accepted' = NoClient /\ UNCHANGED <<listening, reset>>
    BY <1>7 DEF OnAccept
  <2>2. ASSUME AcceptNext
        PROVE  acceptOp' \in OpStatus /\ AcceptOK' /\ AlwaysAccepting'
    BY <2>1, <2>2 DEF AcceptNext, OpStatus, AcceptOK, AlwaysAccepting
  <2>3. ASSUME NEW c \in Clients, clients[c] = "accepted", UNCHANGED activeConnections,
               clients' = [clients EXCEPT ![c] = "dropped"], UNCHANGED backend,
               fatal' \in BOOLEAN, acceptOp' \in OpStatus, AcceptOK', AlwaysAccepting'
        PROVE  ProxyInv'
    BY <2>1, <2>3, <1>7, <1>i, <1>s DEF ProxyTypeOK, Live, poolVars, ClientStatus
  <2>4. CASE acceptOp = "aborted"
    <3>1. acceptOp' = "none" /\ UNCHANGED <<clients, backend, fatal, activeConnections>>
      BY <1>7, <2>4 DEF OnAccept
    <3>2. ~listening
      BY <1>i, <2>4 DEF AcceptOK
    <3> QED BY <1>7, <1>i, <1>s, <2>1, <3>1, <3>2
            DEF ProxyTypeOK, AcceptOK, AlwaysAccepting, Live, poolVars, OpStatus
  <2>5. CASE acceptOp = "error"
    <3>1. AcceptNext /\ UNCHANGED <<clients, backend, fatal, activeConnections>>
      BY <1>7, <2>5 DEF OnAccept
    <3> QED BY <1>7, <1>i, <1>s, <2>1, <2>2, <3>1 DEF ProxyTypeOK, Live, poolVars
  <2>6. CASE acceptOp = "ok"
    <3>1. Serve(accepted)
      BY <1>7, <2>6 DEF OnAccept
    <3>2. accepted \in Clients /\ clients[accepted] = "accepted"
      BY <1>i, <2>6 DEF AcceptOK
    <3>3. ASSUME OnAcceptThrows(accepted), UNCHANGED activeConnections PROVE ProxyInv'
      BY <2>1, <2>3, <3>2, <3>3 DEF OnAcceptThrows, OpStatus, AcceptOK, AlwaysAccepting
    <3>6. CASE RemoteEndpointThrows(accepted)
      BY <3>3, <3>6 DEF RemoteEndpointThrows
    <3>7. ASSUME NEW s \in Services, StartThrows(accepted, s) PROVE ProxyInv'
      BY <1>i, <3>3, <3>7, CountedAndUncounted DEF StartThrows
    <3>4. CASE Drop(accepted)
      BY <1>i, <2>2, <2>3, <3>2, <3>4 DEF Drop, ProxyTypeOK
    <3>5. ASSUME NEW s \in Services, StartSession(accepted, s) PROVE ProxyInv'
      <4>1. ConnectionsCounted'
        BY <1>i, <3>2, <3>5, CountedStart
      <4>2. PoolTypeOK'
        BY <1>7, <1>i, <3>5 DEF StartSession, IncrementConnections, PoolTypeOK
      <4>3. ProxyTypeOK' /\ BackendOK'
        BY <1>i, <2>1, <2>2, <3>2, <3>5
        DEF StartSession, ProxyTypeOK, BackendOK, Live, ClientStatus
      <4> QED BY <2>2, <3>5, <4>1, <4>2, <4>3 DEF StartSession, ProxyInv
    <3> QED BY <3>1, <3>4, <3>5, <3>6, <3>7, ServicePoolAssumption DEF Serve
  <2> QED BY <1>7, <2>4, <2>5, <2>6 DEF OnAccept
<1>8. ASSUME Stop, rest PROVE ProxyInv'
  BY <1>8, <1>i, <1>s DEF Stop, Cancelled, ProxyTypeOK, AcceptOK,
     AlwaysAccepting, Live, poolVars, OpStatus, ClientStatus
<1>9. ASSUME NEW s \in Services, HealthFlips(s) PROVE ProxyInv'
  <2>1. PoolTypeOK'
    BY <1>9, <1>i DEF HealthFlips, SetHealthy, PoolTypeOK
  <2>2. ProxyTypeOK' /\ AcceptOK' /\ BackendOK' /\ AlwaysAccepting'
    BY <1>9, <1>i DEF HealthFlips, proxyVars, ProxyTypeOK, AcceptOK, BackendOK, Live,
       AlwaysAccepting
  <2>3. ConnectionsCounted'
    BY <1>9, <1>i, CountedStable DEF HealthFlips, proxyVars, Live
  <2> QED BY <2>1, <2>2, <2>3 DEF ProxyInv
<1>10. CASE UNCHANGED allProxyVars
  BY <1>10, <1>i, <1>s DEF allProxyVars, proxyVars, ProxyTypeOK, AcceptOK, AlwaysAccepting, Live
<1>11. CASE ProxyNext
  <2>1. CASE ProxyStep /\ rest
    BY <2>1, <1>1, <1>2, <1>3, <1>4, <1>5, <1>6, <1>7 DEF ProxyStep
  <2>2. CASE Stop /\ rest
    BY <2>2, <1>8
  <2>3. CASE Ended
    BY <2>3, <1>10 DEF Ended, allProxyVars
  <2> QED BY <1>11, <2>1, <2>2, <2>3, <1>9 DEF ProxyNext
<1> QED BY <1>10, <1>11

\* The invariant holds in every state the proxy reaches.
LEMMA ProxyInvariant == ProxySpec => []ProxyInv
  BY ProxyInitInv, ProxyNextInv, PTL DEF ProxySpec

-----------------------------------------------------------------------------
\* Type correctness of the proxy and of the pool it counts in.
THEOREM ProxyTypeCorrect == ProxySpec => [](PoolTypeOK /\ ProxyTypeOK)
  BY ProxyInvariant, PTL DEF ProxyInv

\* The connection counters are exact at every moment, for any number of
\* clients and services and through every failure path of OnAccept().
THEOREM CountersExact == ProxySpec => []ConnectionsCounted
  BY ProxyInvariant, PTL DEF ProxyInv

\* The accept loop never ends while the acceptor is open.
THEOREM AcceptLoopContinues == ProxySpec => []AlwaysAccepting
  BY ProxyInvariant, PTL DEF ProxyInv

-----------------------------------------------------------------------------
(* Where new sessions go.                                                   *)

\* What NewSessionsBalanced says of one client in one step
Balanced(c) ==
    ~Live(c) /\ Live(c)' =>
      LET s == backend'[c]
      IN  /\ healthy[s]
          /\ Algorithm = "p2c" /\ HealthyServices # {s} =>
               \E t \in HealthyServices \ {s} : activeConnections[s] <= activeConnections[t]

\* A client becomes live only in OnAccept(), which asks the strategy for it.
LEMMA BalancedStep ==
    ASSUME ProxyInv, ProxyNext, NEW c \in Clients PROVE Balanced(c)
<1> SUFFICES ASSUME ~Live(c), Live(c)'
             PROVE  LET s == backend'[c]
                    IN  /\ healthy[s]
                        /\ Algorithm = "p2c" /\ HealthyServices # {s} =>
                             \E t \in HealthyServices \ {s} :
                                 activeConnections[s] <= activeConnections[t]
  BY DEF Balanced
<1>1. ProxyTypeOK /\ PoolTypeOK /\ AcceptOK
  BY DEF ProxyInv
<1>2. \E s \in Services : accepted = c /\ s \in SelectService(c) /\ StartSession(c, s)
  <2>1. OnAccept
    BY <1>1 DEF ProxyNext, ProxyStep, ClientConnects, ClientResets, AcceptCompletes,
       AcceptFails, SessionCloses, SessionDestroyed, Stop, HealthFlips, Ended, proxyVars,
       ProxyTypeOK, Live
  <2>2. acceptOp = "ok" /\ Serve(accepted)
    BY <2>1 DEF OnAccept, Live
  <2>3. accepted \in Clients
    BY <1>1, <2>2 DEF AcceptOK
  <2>4. /\ ~RemoteEndpointThrows(accepted) /\ ~Drop(accepted)
        /\ \A s : ~StartThrows(accepted, s)
    BY <1>1, <2>3 DEF RemoteEndpointThrows, StartThrows, OnAcceptThrows, Drop, Live, ProxyTypeOK
  <2>5. PICK s \in SelectService(accepted) :
           s \in Services /\ StartSession(accepted, s)
    BY <2>2, <2>4 DEF Serve
  <2>6. accepted = c
    BY <1>1, <2>3, <2>5 DEF StartSession, Live, ProxyTypeOK
  <2> QED BY <2>5, <2>6
<1>3. PICK s \in Services : s \in SelectService(c) /\ StartSession(c, s)
  BY <1>2
<1>4. backend'[c] = s
  BY <1>1, <1>3 DEF StartSession, ProxyTypeOK
<1>5. CASE Algorithm = "p2c"
  BY <1>1, <1>3, <1>4, <1>5, P2CPick DEF SelectService
<1>6. CASE Algorithm # "p2c"
  <2>1. s = RingWalk(VNodeHash, KeyHash[c])
    BY <1>3, <1>6 DEF SelectService
  <2>2. s # NoService
    BY RoutingAssumption
  <2>3. healthy[s]
    BY <2>1, <2>2, RingPick
  <2> QED BY <1>4, <1>6, <2>3
<1> QED BY <1>5, <1>6

\* New sessions go to healthy services only, and with P2C never to a service
\* busier than all other healthy ones, at the moment OnAccept() runs.
THEOREM SessionsBalanced == ProxySpec => NewSessionsBalanced
<1>1. ASSUME ProxyInv, [ProxyNext]_allProxyVars
      PROVE  [\A c \in Clients : Balanced(c)]_allProxyVars
  BY <1>1, BalancedStep
<1>2. ProxySpec => [][ProxyNext]_allProxyVars
  BY DEF ProxySpec
<1> QED BY <1>1, <1>2, ProxyInvariant, PTL DEF NewSessionsBalanced, Balanced
=============================================================================
