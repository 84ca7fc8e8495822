--------------------------- MODULE SessionProofs ---------------------------
(* Proofs about Session, for idle timeouts on or off and any number of      *)
(* chunks: in-order delivery, the watch of the timers, and the safety part  *)
(* of SessionContract.                                                      *)
EXTENDS Session, SequenceTheorems, TLAPS

-----------------------------------------------------------------------------
(* The inductive invariant.  In-order delivery rests on the position of the *)
(* buffer: a chunk is in it from the completion of a read to the completion *)
(* of the write, and the two operations of a direction never overlap.       *)

DirOK(d) ==
    /\ op[ReadOp(d)] = "none" \/ op[WriteOp(d)] = "none"
    /\ taken[d] \in {Len(delivered[d]), Len(delivered[d]) + 1}
    /\ op[ReadOp(d)] = "pending" \/ op[WriteOp(d)] = "ok" => taken[d] = Len(delivered[d])
    /\ op[ReadOp(d)] = "ok" \/ op[WriteOp(d)] = "pending" =>
         taken[d] = Len(delivered[d]) + 1 /\ buf[d] = taken[d]
    /\ op["connect"] # "none" =>
         /\ op[ReadOp(d)] = "none" /\ op[WriteOp(d)] = "none"
         /\ taken[d] = Len(delivered[d])
    /\ \A i \in 1..Len(delivered[d]) : delivered[d][i] = i

\* An open, connected session has work in both directions.
Relaying ==
    ~shuttingDown /\ op["connect"] = "none" =>
        \A d \in Dirs : op[ReadOp(d)] # "none" \/ op[WriteOp(d)] # "none"

\* The object lives exactly as long as a handler refers to it.
Lifetime ==
    /\ destroyed <=> ~Outstanding(op, stale)
    /\ destroyed => shuttingDown
    /\ active = IF destroyed THEN 0 ELSE 1

SessionInv == TypeOK /\ (\A d \in Dirs : DirOK(d)) /\ Relaying /\ AlwaysWatched /\ Lifetime

\* What a step may do to the session's life: it closes once, it is destroyed
\* once, and an open session is not destroyed in the step that closes it.
LifeStep ==
    /\ shuttingDown => shuttingDown'
    /\ destroyed => destroyed'
    /\ ~shuttingDown => ~destroyed'

-----------------------------------------------------------------------------
(* The operators the handlers are made of.                                  *)

\* The operations of the two directions, the connect and the timers are all
\* different entries of the table.
LEMMA OpNames ==
    /\ {"connect", "connectTimer", "idleTimer"} \subseteq Ops
    /\ \A d \in Dirs : /\ ReadOp(d) \in Ops /\ WriteOp(d) \in Ops
                       /\ ReadOp(d) \notin {"connect", "connectTimer", "idleTimer"}
                       /\ WriteOp(d) \notin {"connect", "connectTimer", "idleTimer"}
                       /\ \A e \in Dirs : /\ ReadOp(d) # WriteOp(e)
                                          /\ d # e => ReadOp(d) # ReadOp(e)
                                          /\ d # e => WriteOp(d) # WriteOp(e)
  BY DEF Ops, Timers, Dirs, ReadOp, WriteOp

\* The status of an operation is the same, or it was pending and is aborted.
Kept(before, after) == after = before \/ (before = "pending" /\ after = "err")

\* Shutdown() aborts what is pending and leaves queued handlers as they are.
LEMMA ShutdownFacts ==
    ASSUME NEW f \in [Ops -> Status]
    PROVE  /\ AfterShutdown(f) \in [Ops -> Status]
           /\ \A o \in Ops : Kept(f[o], AfterShutdown(f)[o])
  BY DEF AfterShutdown, Abort, Kept, Status, Queued

\* Starting an operation changes that operation only; on a closed socket it
\* fails at once.
LEMMA StartFacts ==
    ASSUME NEW f \in [Ops -> Status], NEW o \in Ops
    PROVE  /\ StartIO(f, o) \in [Ops -> Status]
           /\ StartIO(f, o)[o] = IF shuttingDown THEN "err" ELSE "pending"
           /\ \A p \in Ops \ {o} : StartIO(f, o)[p] = f[p]
  BY DEF StartIO, Status, Queued

\* ReadFromClient() arms the idle timer and starts a read, nothing else.
LEMMA ReadFromClientFacts ==
    ASSUME NEW f \in [Ops -> Status]
    PROVE  /\ ReadFromClient(f) \in [Ops -> Status]
           /\ ReadFromClient(f)["readClient"] = IF shuttingDown THEN "err" ELSE "pending"
           /\ ReadFromClient(f)["idleTimer"] =
                IF IdleTimeoutEnabled THEN "pending" ELSE f["idleTimer"]
           /\ \A p \in Ops \ {"readClient", "idleTimer"} : ReadFromClient(f)[p] = f[p]
<1>1. /\ ArmIdle(f) \in [Ops -> Status]
      /\ ArmIdle(f)["idleTimer"] = IF IdleTimeoutEnabled THEN "pending" ELSE f["idleTimer"]
      /\ \A p \in Ops \ {"idleTimer"} : ArmIdle(f)[p] = f[p]
  BY OpNames DEF ArmIdle, Status
<1>2. "readClient" \in Ops /\ "readClient" # "idleTimer"
  BY DEF Ops
<1> QED BY <1>1, <1>2, OpNames, StartFacts DEF ReadFromClient

\* What a write handler starts touches its own direction and the idle timer.
LEMMA ReadAgainFacts ==
    ASSUME NEW d \in Dirs, NEW f \in [Ops -> Status]
    PROVE  /\ ReadAgain(d, f) \in [Ops -> Status]
           /\ ReadAgain(d, f)[ReadOp(d)] = IF shuttingDown THEN "err" ELSE "pending"
           /\ ReadAgain(d, f)["idleTimer"] \in {f["idleTimer"], "pending"}
           /\ \A p \in Ops \ {ReadOp(d), "idleTimer"} : ReadAgain(d, f)[p] = f[p]
  BY ReadFromClientFacts, StartFacts, OpNames DEF ReadAgain, ReadFromBackend, ReadOp, Dirs

\* Counting a superseded idle wait keeps the counters natural numbers.
LEMMA SupersededType ==
    ASSUME TypeOK PROVE Superseded \in [Queued -> Nat]
  BY DEF TypeOK, Superseded, Queued

-----------------------------------------------------------------------------
(* Facts the actions share.                                                 *)

\* A direction stays in order while its buffer is left alone and its
\* operations are only aborted or handled.
LEMMA DirStable ==
    ASSUME NEW d \in Dirs, DirOK(d), UNCHANGED <<buf, taken, delivered>>,
           op'[ReadOp(d)] = "none" \/ Kept(op[ReadOp(d)], op'[ReadOp(d)]),
           op'[WriteOp(d)] = "none" \/ Kept(op[WriteOp(d)], op'[WriteOp(d)]),
           op'["connect"] # "none" =>
              /\ op["connect"] # "none"
              /\ op'[ReadOp(d)] = op[ReadOp(d)] /\ op'[WriteOp(d)] = op[WriteOp(d)]
    PROVE  DirOK(d)'
<1>1. ReadOp(d)' = ReadOp(d) /\ WriteOp(d)' = WriteOp(d)
  BY DEF ReadOp, WriteOp
<1> QED BY <1>1 DEF DirOK, Kept

\* An open session waits for two operations at least, so whichever is
\* handled leaves one that refers to it.
LEMMA AnotherOperation ==
    ASSUME SessionInv, ~shuttingDown, NEW o, NEW f, NEW st,
           \A p \in Ops \ {o} : op[p] # "none" => f[p] # "none"
    PROVE  Outstanding(f, st)
<1>1. CASE op["connect"] # "none"
  <2>1. op["connectTimer"] # "none"
    BY <1>1 DEF SessionInv, AlwaysWatched
  <2> QED BY <1>1, <2>1, OpNames DEF Outstanding
<1>2. CASE op["connect"] = "none"
  <2>1. \A d \in Dirs : op[ReadOp(d)] # "none" \/ op[WriteOp(d)] # "none"
    BY <1>2 DEF SessionInv, Relaying
  <2>2. "up" \in Dirs /\ "down" \in Dirs /\ "up" # "down"
    BY DEF Dirs
  <2>3. PICK p \in {ReadOp("up"), WriteOp("up")} : op[p] # "none"
    BY <2>1, <2>2
  <2>4. PICK q \in {ReadOp("down"), WriteOp("down")} : op[q] # "none"
    BY <2>1, <2>2
  <2>5. p \in Ops /\ q \in Ops /\ p # q
    BY <2>2, <2>3, <2>4, OpNames
  <2> QED BY <2>3, <2>4, <2>5 DEF Outstanding
<1> QED BY <1>1, <1>2

\* An operation completes, its handler is queued.
LEMMA Completion ==
    ASSUME SessionInv, NEW o \in Ops, NEW q \in Queued, op[o] = "pending",
           op' = [op EXCEPT ![o] = q], o \in Timers => q = "ok",
           UNCHANGED <<stale, shuttingDown, active, destroyed>>
    PROVE  op' \in [Ops -> Status] /\ Relaying' /\ AlwaysWatched' /\ Lifetime' /\ LifeStep
<1>1. op \in [Ops -> Status]
  BY DEF SessionInv, TypeOK
<1>2. /\ op' \in [Ops -> Status]
      /\ op'[o] = q /\ q # "none"
      /\ \A p \in Ops \ {o} : op'[p] = op[p]
  BY <1>1 DEF Status, Queued
<1>3. Relaying'
  BY <1>2, OpNames DEF SessionInv, Relaying, ReadOp, WriteOp
<1>4. AlwaysWatched'
  BY <1>2, OpNames DEF SessionInv, AlwaysWatched, Timers
<1>5. ~destroyed
  BY DEF SessionInv, Lifetime, Outstanding
<1>6. Lifetime'
  BY <1>2, <1>5 DEF SessionInv, Lifetime, Outstanding
<1> QED BY <1>2, <1>3, <1>4, <1>5, <1>6 DEF LifeStep

\* A handler returns.
LEMMA Handled ==
    ASSUME SessionInv, ~destroyed, NEW f \in [Ops -> Status], NEW st \in [Queued -> Nat],
           NEW down \in BOOLEAN, HandlerEnds(f, st, down),
           ~shuttingDown => Outstanding(f, st)
    PROVE  /\ op' = f /\ stale' = st /\ shuttingDown' = (shuttingDown \/ down)
           /\ shuttingDown' \in BOOLEAN /\ active' \in 0..1 /\ destroyed' \in BOOLEAN
           /\ Lifetime' /\ LifeStep
<1>1. op' = f /\ stale' = st /\ shuttingDown' = (shuttingDown \/ down)
  BY DEF HandlerEnds
<1>2. active = 1
  BY DEF SessionInv, Lifetime
<1>3. Outstanding(op, stale)' <=> Outstanding(f, st)
  BY <1>1 DEF Outstanding
<1>4. CASE Outstanding(f, st)
  BY <1>1, <1>2, <1>3, <1>4 DEF HandlerEnds, Release, SessionInv, Lifetime, LifeStep, TypeOK
<1>5. CASE ~Outstanding(f, st)
  BY <1>1, <1>2, <1>3, <1>5
  DEF HandlerEnds, Release, SessionInv, Lifetime, LifeStep, TypeOK, DecrementConnections
<1> QED BY <1>4, <1>5

\* A handler that calls Shutdown(), whatever it did before that.
LEMMA Closing ==
    ASSUME SessionInv, ~destroyed, NEW o \in Ops, NEW f \in [Ops -> Status],
           NEW st \in [Queued -> Nat],
           f[o] = "none" \/ f[o] = op[o], \A p \in Ops \ {o} : Kept(op[p], f[p]),
           f["connect"] # "none" => \A d \in Dirs : f[ReadOp(d)] = op[ReadOp(d)]
                                                 /\ f[WriteOp(d)] = op[WriteOp(d)],
           HandlerEnds(AfterShutdown(f), st, TRUE),
           UNCHANGED <<buf, taken, delivered>>, relayed' \in BOOLEAN
    PROVE  SessionInv' /\ LifeStep
<1> DEFINE g == AfterShutdown(f)
<1>1. g \in [Ops -> Status] /\ \A p \in Ops : Kept(f[p], g[p])
  BY ShutdownFacts
<1>2. \A p \in Ops \ {o} : Kept(op[p], g[p]) /\ (op[p] # "none" => g[p] # "none")
  BY <1>1 DEF Kept
<1>3. g[o] = "none" \/ Kept(op[o], g[o])
  BY <1>1 DEF Kept
<1>4. ~shuttingDown => Outstanding(g, st)
  BY <1>2, AnotherOperation
<1>5. /\ op' = g /\ stale' = st /\ shuttingDown'
      /\ shuttingDown' \in BOOLEAN /\ active' \in 0..1 /\ destroyed' \in BOOLEAN
      /\ Lifetime' /\ LifeStep
  <2> HIDE DEF g
  <2>1. HandlerEnds(g, st, TRUE)
    BY DEF g
  <2> QED BY <1>1, <1>4, <2>1, Handled
<1>6. TypeOK'
  BY <1>1, <1>5 DEF SessionInv, TypeOK
<1>7. ASSUME NEW d \in Dirs PROVE DirOK(d)'
  <2>1. op'["connect"] # "none" =>
           /\ op["connect"] # "none"
           /\ op'[ReadOp(d)] = op[ReadOp(d)] /\ op'[WriteOp(d)] = op[WriteOp(d)]
    <3> HAVE op'["connect"] # "none"
    <3>1. f["connect"] # "none" /\ op["connect"] # "none"
      BY <1>1, <1>5, OpNames DEF Kept
    <3>2. op[ReadOp(d)] = "none" /\ op[WriteOp(d)] = "none"
      BY <3>1 DEF SessionInv, DirOK
    <3> QED BY <1>1, <1>5, <3>1, <3>2, OpNames DEF Kept
  <2> QED BY <1>2, <1>3, <1>5, <2>1, DirStable, OpNames DEF SessionInv
<1>8. Relaying' /\ AlwaysWatched'
  BY <1>5 DEF Relaying, AlwaysWatched
<1> QED BY <1>5, <1>6, <1>7, <1>8 DEF SessionInv

-----------------------------------------------------------------------------
\* The invariant holds when Start() returns.
LEMMA InitInv == Init => SessionInv
<1> SUFFICES ASSUME Init PROVE SessionInv
  OBVIOUS
<1>1. TypeOK
  <2>1. op \in [Ops -> Status] /\ stale \in [Queued -> Nat]
    BY DEF Init, Status
  <2>2. buf \in [Dirs -> 0..MaxChunks] /\ taken \in [Dirs -> 0..MaxChunks]
    BY SessionAssumption DEF Init
  <2>3. delivered \in [Dirs -> Seq(0..MaxChunks)]
    BY DEF Init
  <2>4. shuttingDown \in BOOLEAN /\ relayed \in BOOLEAN /\ destroyed \in BOOLEAN
    BY Zenon DEF Init
  <2>5. active \in 0..1
    BY DEF Init, CountedAtStart
  <2> QED BY <2>1, <2>2, <2>3, <2>4, <2>5 DEF TypeOK
<1>2. ASSUME NEW d \in Dirs PROVE DirOK(d)
  BY OpNames DEF Init, DirOK
<1>3. Relaying /\ AlwaysWatched
  <2>1. op["connect"] = "pending" /\ op["connectTimer"] = "pending"
    BY OpNames DEF Init
  <2> QED BY <2>1 DEF Relaying, AlwaysWatched
<1>4. Lifetime
  BY OpNames DEF Init, Lifetime, Outstanding, CountedAtStart
<1> QED BY <1>1, <1>2, <1>3, <1>4 DEF SessionInv

\* One step per action; LifeStep is what the contract needs of each.
LEMMA NextInv == SessionInv /\ Next => SessionInv' /\ LifeStep
<1> SUFFICES ASSUME SessionInv, Next PROVE SessionInv' /\ LifeStep
  OBVIOUS
<1>t. TypeOK /\ op \in [Ops -> Status] /\ stale \in [Queued -> Nat]
  BY DEF SessionInv, TypeOK
<1>q. "ok" \in Queued /\ "err" \in Queued
  BY DEF Queued
\* A queued handler refers to the session, which is not destroyed then.
<1>alive. ASSUME NEW o \in Ops, op[o] # "none" PROVE ~destroyed
  BY <1>alive DEF SessionInv, Lifetime, Outstanding
<1>1. ASSUME NEW t \in Timers, TimerExpires(t) PROVE SessionInv' /\ LifeStep
  <2>1. t \in Ops
    BY DEF Ops
  <2>2. op' \in [Ops -> Status] /\ Relaying' /\ AlwaysWatched' /\ Lifetime' /\ LifeStep
    BY <1>1, <1>q, <2>1, Completion DEF TimerExpires
  <2>3. ASSUME NEW d \in Dirs PROVE DirOK(d)'
    <3>1. \A p \in Ops \ {t} : op'[p] = op[p]
      BY <1>1, <1>t DEF TimerExpires
    <3>2. t \notin {ReadOp(d), WriteOp(d), "connect"}
      BY OpNames DEF Timers
    <3> QED BY <1>1, <3>1, <3>2, DirStable, OpNames DEF SessionInv, TimerExpires, Kept
  <2> QED BY <1>1, <1>t, <2>2, <2>3 DEF SessionInv, TypeOK, TimerExpires
<1>2. ASSUME NEW r \in Queued, ConnectCompletes(r) PROVE SessionInv' /\ LifeStep
  <2>1. op' \in [Ops -> Status] /\ Relaying' /\ AlwaysWatched' /\ Lifetime' /\ LifeStep
    BY <1>2, OpNames, Completion DEF ConnectCompletes, Timers
  <2>2. ASSUME NEW d \in Dirs PROVE DirOK(d)'
    <3>1. \A p \in Ops \ {"connect"} : op'[p] = op[p]
      BY <1>2, <1>t DEF ConnectCompletes
    <3> QED BY <1>2, <3>1, DirStable, OpNames DEF SessionInv, ConnectCompletes, Kept
  <2> QED BY <1>2, <1>t, <2>1, <2>2 DEF SessionInv, TypeOK, ConnectCompletes
<1>3. ASSUME NEW d \in Dirs, ReadCompletes(d) PROVE SessionInv' /\ LifeStep
  <2>1. ReadOp(d) \in Ops /\ ReadOp(d) \notin Timers
    BY OpNames DEF Timers
  <2>2. op' \in [Ops -> Status] /\ Relaying' /\ AlwaysWatched' /\ Lifetime' /\ LifeStep
    BY <1>3, <1>q, <2>1, Completion DEF ReadCompletes
  <2>3. /\ taken' \in [Dirs -> 0..MaxChunks] /\ buf' \in [Dirs -> 0..MaxChunks]
        /\ taken'[d] = taken[d] + 1 /\ buf'[d] = taken'[d]
        /\ \A e \in Dirs \ {d} : taken'[e] = taken[e] /\ buf'[e] = buf[e]
    BY <1>3, <1>t, SessionAssumption DEF ReadCompletes, TypeOK
  <2>4. op'[ReadOp(d)] = "ok" /\ \A p \in Ops \ {ReadOp(d)} : op'[p] = op[p]
    BY <1>3, <1>t, <2>1 DEF ReadCompletes
  <2>5. ASSUME NEW e \in Dirs PROVE DirOK(e)'
    <3>1. DirOK(e) /\ DirOK(d)
      BY DEF SessionInv
    <3>2. delivered' = delivered
      BY <1>3 DEF ReadCompletes
    <3>3. ReadOp(e)' = ReadOp(e) /\ WriteOp(e)' = WriteOp(e)
      BY DEF ReadOp, WriteOp
    <3>4. CASE e = d
      <4>1. op[ReadOp(d)] = "pending"
        BY <1>3 DEF ReadCompletes
      <4>2. /\ op[WriteOp(d)] = "none" /\ op["connect"] = "none"
            /\ taken[d] = Len(delivered[d])
        BY <3>1, <4>1 DEF DirOK
      <4>3. op'[WriteOp(d)] = "none" /\ op'["connect"] = "none"
        BY <2>4, <4>2, OpNames
      <4>4. taken'[d] = Len(delivered[d]) + 1
        BY <2>3, <4>2
      <4> QED BY <2>3, <2>4, <3>1, <3>2, <3>3, <3>4, <4>3, <4>4 DEF DirOK
    <3>5. CASE e # d
      <4>1. /\ op'[ReadOp(e)] = op[ReadOp(e)] /\ op'[WriteOp(e)] = op[WriteOp(e)]
            /\ op'["connect"] = op["connect"]
        BY <2>4, <3>5, OpNames
      <4>2. taken'[e] = taken[e] /\ buf'[e] = buf[e]
        BY <2>3, <3>5
      <4> QED BY <3>1, <3>2, <3>3, <4>1, <4>2 DEF DirOK
    <3> QED BY <3>4, <3>5
  <2> QED BY <1>3, <1>t, <2>2, <2>3, <2>5 DEF SessionInv, TypeOK, ReadCompletes
<1>4. ASSUME NEW d \in Dirs, WriteCompletes(d) PROVE SessionInv' /\ LifeStep
  <2>1. WriteOp(d) \in Ops /\ WriteOp(d) \notin Timers
    BY OpNames DEF Timers
  <2>2. op' \in [Ops -> Status] /\ Relaying' /\ AlwaysWatched' /\ Lifetime' /\ LifeStep
    BY <1>4, <1>q, <2>1, Completion DEF WriteCompletes
  <2>3. op'[WriteOp(d)] = "ok" /\ \A p \in Ops \ {WriteOp(d)} : op'[p] = op[p]
    BY <1>4, <1>t, <2>1 DEF WriteCompletes
  <2>4. /\ delivered[d] \in Seq(0..MaxChunks) /\ buf[d] \in 0..MaxChunks
        /\ delivered'[d] = Append(delivered[d], buf[d])
        /\ delivered' \in [Dirs -> Seq(0..MaxChunks)]
        /\ \A e \in Dirs \ {d} : delivered'[e] = delivered[e]
    BY <1>4, <1>t DEF WriteCompletes, TypeOK
  <2>5. ASSUME NEW e \in Dirs PROVE DirOK(e)'
    <3>1. DirOK(e) /\ DirOK(d)
      BY DEF SessionInv
    <3>2. buf' = buf /\ taken' = taken
      BY <1>4 DEF WriteCompletes
    <3>3. ReadOp(e)' = ReadOp(e) /\ WriteOp(e)' = WriteOp(e)
      BY DEF ReadOp, WriteOp
    <3>4. CASE e = d
      <4>1. op[WriteOp(d)] = "pending"
        BY <1>4 DEF WriteCompletes
      <4>2. /\ op[ReadOp(d)] = "none" /\ op["connect"] = "none"
            /\ taken[d] = Len(delivered[d]) + 1 /\ buf[d] = taken[d]
        BY <3>1, <4>1 DEF DirOK
      <4>3. op'[ReadOp(d)] = "none" /\ op'["connect"] = "none"
        BY <2>3, <4>2, OpNames
      <4>4. /\ Len(delivered'[d]) = Len(delivered[d]) + 1
            /\ \A i \in 1..Len(delivered'[d]) : delivered'[d][i] = i
        BY <2>4, <3>1, <4>2 DEF DirOK
      <4>5. taken'[d] = Len(delivered'[d])
        BY <3>2, <4>2, <4>4
      <4> QED BY <2>3, <3>3, <3>4, <4>3, <4>4, <4>5 DEF DirOK
    <3>5. CASE e # d
      <4>1. /\ op'[ReadOp(e)] = op[ReadOp(e)] /\ op'[WriteOp(e)] = op[WriteOp(e)]
            /\ op'["connect"] = op["connect"]
        BY <2>3, <3>5, OpNames
      <4>2. delivered'[e] = delivered[e]
        BY <2>4, <3>5
      <4> QED BY <3>1, <3>2, <3>3, <4>1, <4>2 DEF DirOK
    <3> QED BY <3>4, <3>5
  <2> QED BY <1>4, <1>t, <2>2, <2>4, <2>5 DEF SessionInv, TypeOK, WriteCompletes
<1>5. ASSUME NEW d \in Dirs, NEW o \in {ReadOp(d), WriteOp(d)}, PeerFails(o)
      PROVE  SessionInv' /\ LifeStep
  <2>1. o \in Ops /\ o \notin Timers /\ o # "connect"
    BY OpNames DEF Timers
  <2>2. op' \in [Ops -> Status] /\ Relaying' /\ AlwaysWatched' /\ Lifetime' /\ LifeStep
    BY <1>5, <1>q, <2>1, Completion DEF PeerFails
  <2>3. \A p \in Ops : Kept(op[p], op'[p])
    BY <1>5, <1>t, <2>1 DEF PeerFails, Kept
  <2>4. op'["connect"] = op["connect"] /\ op[o] = "pending"
    BY <1>5, <1>t, <2>1, OpNames DEF PeerFails
  <2>5. op["connect"] = "none"
    BY <2>4 DEF SessionInv, DirOK
  <2>6. ASSUME NEW e \in Dirs PROVE DirOK(e)'
    BY <1>5, <2>3, <2>4, <2>5, DirStable, OpNames DEF SessionInv, PeerFails
  <2> QED BY <1>5, <1>t, <2>2, <2>6 DEF SessionInv, TypeOK, PeerFails
<1>6. ASSUME NEW t \in Timers, OnTimer(t) PROVE SessionInv' /\ LifeStep
  <2> DEFINE f == [op EXCEPT ![t] = "none"]
  <2>1. t \in Ops /\ t # "connect" /\ \A d \in Dirs : t # ReadOp(d) /\ t # WriteOp(d)
    BY OpNames DEF Timers, Ops
  <2>2. /\ f \in [Ops -> Status] /\ f[t] = "none"
        /\ \A p \in Ops \ {t} : f[p] = op[p]
    BY <1>t, <2>1 DEF Status
  <2>3. ~destroyed
    BY <1>6, <1>alive, <2>1 DEF OnTimer, Queued
  <2>4. CASE op[t] = "ok"
    <3>1. HandlerEnds(AfterShutdown(f), stale, TRUE)
      BY <1>6, <2>4 DEF OnTimer
    <3>2. UNCHANGED <<buf, taken, delivered>> /\ relayed' \in BOOLEAN
      BY <1>6, <1>t DEF OnTimer, TypeOK
    <3> HIDE DEF f
    <3> QED BY <1>t, <2>1, <2>2, <2>3, <3>1, <3>2, OpNames, Closing DEF Kept
  <2>5. CASE op[t] = "err"
    <3>1. HandlerEnds(f, stale, FALSE)
      BY <1>6, <2>5 DEF OnTimer
    <3> HIDE DEF f
    <3>2. ~shuttingDown => Outstanding(f, stale)
      BY <2>2, AnotherOperation
    <3>3. /\ op' = f /\ stale' = stale /\ shuttingDown' = shuttingDown
          /\ active' \in 0..1 /\ destroyed' \in BOOLEAN /\ Lifetime' /\ LifeStep
      BY <1>t, <2>2, <2>3, <3>1, <3>2, Handled DEF TypeOK
    <3>4. TypeOK'
      BY <1>6, <1>t, <2>2, <3>3 DEF TypeOK, OnTimer
    <3>5. ASSUME NEW d \in Dirs PROVE DirOK(d)'
      BY <1>6, <2>1, <2>2, <3>3, DirStable, OpNames DEF SessionInv, OnTimer, Kept
    <3>6. Relaying'
      BY <2>1, <2>2, <3>3, OpNames DEF SessionInv, Relaying, ReadOp, WriteOp
    <3>7. AlwaysWatched'
      BY <2>1, <2>2, <2>5, <3>3, OpNames DEF SessionInv, AlwaysWatched
    <3> QED BY <3>3, <3>4, <3>5, <3>6, <3>7 DEF SessionInv
  <2> QED BY <1>6, <2>4, <2>5 DEF OnTimer, Queued
<1>7. ASSUME NEW q \in Queued, OnStaleIdleTimer(q) PROVE SessionInv' /\ LifeStep
  <2> DEFINE st == [stale EXCEPT ![q] = @ - 1]
  <2>1. st \in [Queued -> Nat] /\ stale[q] > 0
    BY <1>7, <1>t DEF OnStaleIdleTimer
  <2>2. ~destroyed
    BY <2>1 DEF SessionInv, Lifetime, Outstanding
  <2>3. CASE q = "ok"
    <3>1. HandlerEnds(AfterShutdown(op), st, TRUE)
      BY <1>7, <2>3 DEF OnStaleIdleTimer
    <3>2. UNCHANGED <<buf, taken, delivered>> /\ relayed' \in BOOLEAN
      BY <1>7, <1>t DEF OnStaleIdleTimer, TypeOK
    <3> HIDE DEF st
    <3> QED BY <1>t, <2>1, <2>2, <3>1, <3>2, OpNames, Closing DEF Kept
  <2>4. CASE q = "err"
    <3>1. HandlerEnds(op, st, FALSE)
      BY <1>7, <2>4 DEF OnStaleIdleTimer
    <3> HIDE DEF st
    <3>2. ~shuttingDown => Outstanding(op, st)
      BY AnotherOperation
    <3>3. /\ op' = op /\ stale' = st /\ shuttingDown' = shuttingDown
          /\ active' \in 0..1 /\ destroyed' \in BOOLEAN /\ Lifetime' /\ LifeStep
      BY <1>t, <2>1, <2>2, <3>1, <3>2, Handled DEF TypeOK
    <3>4. TypeOK'
      BY <1>7, <1>t, <2>1, <3>3 DEF TypeOK, OnStaleIdleTimer
    <3>5. ASSUME NEW d \in Dirs PROVE DirOK(d)'
      BY <1>7, <3>3, DirStable DEF SessionInv, OnStaleIdleTimer, Kept
    <3>6. Relaying' /\ AlwaysWatched'
      BY <3>3 DEF SessionInv, Relaying, AlwaysWatched, ReadOp, WriteOp
    <3> QED BY <3>3, <3>4, <3>5, <3>6 DEF SessionInv
  <2> QED BY <2>3, <2>4 DEF Queued
<1>8. ASSUME OnConnected PROVE SessionInv' /\ LifeStep
  <2> DEFINE f == [op EXCEPT !["connect"] = "none", !["connectTimer"] = Abort(@)]
  <2>1. /\ f \in [Ops -> Status] /\ f["connect"] = "none"
        /\ \A p \in Ops \ {"connect"} : Kept(op[p], f[p])
        /\ \A p \in Ops \ {"connect", "connectTimer"} : f[p] = op[p]
    BY <1>t, OpNames DEF Status, Queued, Abort, Kept
  <2>2. ~destroyed
    BY <1>8, <1>alive, OpNames DEF OnConnected, Queued
  <2>3. CASE op["connect"] = "err"
    <3>1. HandlerEnds(AfterShutdown(f), stale, TRUE) /\ relayed' \in BOOLEAN
      BY <1>8, <1>t, <2>3 DEF OnConnected, TypeOK
    <3>2. UNCHANGED <<buf, taken, delivered>>
      BY <1>8 DEF OnConnected
    <3> HIDE DEF f
    <3> QED BY <1>t, <2>1, <2>2, <3>1, <3>2, OpNames, Closing
  <2>4. CASE op["connect"] = "ok"
    <3> DEFINE g == StartRelay(f)
    <3>1. HandlerEnds(g, Superseded, FALSE) /\ relayed' \in BOOLEAN
      BY <1>8, <2>4 DEF OnConnected
    <3> HIDE DEF f
    <3>2. /\ g \in [Ops -> Status]
          /\ g["connect"] = "none"
          /\ \A d \in Dirs : /\ g[ReadOp(d)] = IF shuttingDown THEN "err" ELSE "pending"
                             /\ g[WriteOp(d)] = op[WriteOp(d)]
          /\ IdleTimeoutEnabled => g["idleTimer"] = "pending"
      <4> DEFINE h == ReadFromClient(f)
      <4>1. /\ h \in [Ops -> Status]
            /\ h["readClient"] = IF shuttingDown THEN "err" ELSE "pending"
            /\ h["idleTimer"] = IF IdleTimeoutEnabled THEN "pending" ELSE f["idleTimer"]
            /\ \A p \in Ops \ {"readClient", "idleTimer"} : h[p] = f[p]
        BY <2>1, ReadFromClientFacts
      <4> HIDE DEF h
      <4>2. g = StartIO(h, "readBackend")
        BY DEF g, h, StartRelay, ReadFromBackend
      <4>3. /\ g \in [Ops -> Status]
            /\ g["readBackend"] = IF shuttingDown THEN "err" ELSE "pending"
            /\ \A p \in Ops \ {"readBackend"} : g[p] = h[p]
        BY <4>1, <4>2, StartFacts DEF Ops
      <4> HIDE DEF g
      <4> QED BY <2>1, <4>1, <4>3 DEF Ops, Timers, Dirs, ReadOp, WriteOp
    <3> HIDE DEF g
    <3>3. ~shuttingDown => Outstanding(g, Superseded)
      BY <3>2, OpNames DEF Outstanding, Dirs
    <3>4. /\ op' = g /\ stale' = Superseded /\ shuttingDown' = shuttingDown
          /\ active' \in 0..1 /\ destroyed' \in BOOLEAN /\ Lifetime' /\ LifeStep
      BY <1>t, <2>2, <3>1, <3>2, <3>3, SupersededType, Handled DEF TypeOK
    <3>5. TypeOK'
      BY <1>8, <1>t, <3>1, <3>2, <3>4, SupersededType DEF TypeOK, OnConnected
    <3>6. ASSUME NEW d \in Dirs PROVE DirOK(d)'
      <4>1. DirOK(d) /\ op["connect"] # "none"
        BY <2>4 DEF SessionInv
      <4>2. UNCHANGED <<buf, taken, delivered>>
        BY <1>8 DEF OnConnected
      <4>3. ReadOp(d)' = ReadOp(d) /\ WriteOp(d)' = WriteOp(d)
        BY DEF ReadOp, WriteOp
      <4> QED BY <3>2, <3>4, <4>1, <4>2, <4>3 DEF DirOK
    <3>7. Relaying' /\ AlwaysWatched'
      BY <3>2, <3>4 DEF Relaying, AlwaysWatched, ReadOp, WriteOp
    <3> QED BY <3>4, <3>5, <3>6, <3>7 DEF SessionInv
  <2> QED BY <1>8, <2>3, <2>4 DEF OnConnected, Queued
<1>9. ASSUME NEW d \in Dirs, OnRead(d) PROVE SessionInv' /\ LifeStep
  <2> DEFINE f == [op EXCEPT ![ReadOp(d)] = "none"]
  <2>1. /\ ReadOp(d) \in Ops /\ WriteOp(d) \in Ops
        /\ f \in [Ops -> Status] /\ f[ReadOp(d)] = "none"
        /\ \A p \in Ops \ {ReadOp(d)} : f[p] = op[p]
    BY <1>t, OpNames DEF Status
  <2>2. ~destroyed /\ op["connect"] = "none"
    <3>1. op[ReadOp(d)] # "none"
      BY <1>9 DEF OnRead, Queued
    <3> QED BY <3>1, <1>alive, <2>1 DEF SessionInv, DirOK
  <2>3. UNCHANGED <<buf, taken, delivered>> /\ relayed' \in BOOLEAN
    BY <1>9, <1>t DEF OnRead, TypeOK
  <2>4. CASE op[ReadOp(d)] = "err"
    <3>1. HandlerEnds(AfterShutdown(f), stale, TRUE)
      BY <1>9, <2>4 DEF OnRead
    <3>2. f["connect"] = "none"
      BY <2>1, <2>2, OpNames
    <3> HIDE DEF f
    <3> QED BY <1>t, <2>1, <2>2, <2>3, <3>1, <3>2, Closing DEF Kept
  <2>5. CASE op[ReadOp(d)] = "ok"
    <3> DEFINE g == StartIO(f, WriteOp(d))
    <3>1. HandlerEnds(g, stale, FALSE)
      BY <1>9, <2>5 DEF OnRead, AfterRead
    <3> HIDE DEF f
    <3>2. /\ g \in [Ops -> Status]
          /\ g[WriteOp(d)] = IF shuttingDown THEN "err" ELSE "pending"
          /\ \A p \in Ops \ {WriteOp(d)} : g[p] = f[p]
      BY <2>1, StartFacts
    <3> HIDE DEF g
    <3>3. g[ReadOp(d)] = "none" /\ \A p \in Ops \ {ReadOp(d), WriteOp(d)} : g[p] = op[p]
      BY <2>1, <3>2, OpNames
    <3>4. ~shuttingDown => Outstanding(g, stale)
      BY <2>1, <3>2 DEF Outstanding
    <3>5. /\ op' = g /\ stale' = stale /\ shuttingDown' = shuttingDown
          /\ active' \in 0..1 /\ destroyed' \in BOOLEAN /\ Lifetime' /\ LifeStep
      BY <1>t, <2>2, <3>1, <3>2, <3>4, Handled DEF TypeOK
    <3>6. TypeOK'
      BY <1>t, <2>3, <3>2, <3>5 DEF TypeOK
    <3>7. ASSUME NEW e \in Dirs PROVE DirOK(e)'
      <4>1. DirOK(e)
        BY DEF SessionInv
      <4>2. ReadOp(e)' = ReadOp(e) /\ WriteOp(e)' = WriteOp(e)
        BY DEF ReadOp, WriteOp
      <4>3. g["connect"] = "none"
        BY <2>2, <3>3, OpNames
      <4>4. CASE e = d
        BY <2>3, <2>5, <3>2, <3>3, <3>5, <4>1, <4>2, <4>3, <4>4 DEF DirOK
      <4>5. CASE e # d
        BY <2>3, <3>3, <3>5, <4>1, <4>3, <4>5, DirStable, OpNames DEF Kept
      <4> QED BY <4>4, <4>5
    <3>8. Relaying'
      BY <3>2, <3>3, <3>5, OpNames DEF SessionInv, Relaying, ReadOp, WriteOp
    <3>9. AlwaysWatched'
      BY <3>3, <3>5, OpNames DEF SessionInv, AlwaysWatched
    <3> QED BY <3>5, <3>6, <3>7, <3>8, <3>9 DEF SessionInv
  <2> QED BY <1>9, <2>4, <2>5 DEF OnRead, Queued
<1>10. ASSUME NEW d \in Dirs, OnWrite(d) PROVE SessionInv' /\ LifeStep
  <2> DEFINE f == [op EXCEPT ![WriteOp(d)] = "none"]
             st == IF d = "up" THEN Superseded ELSE stale
  <2>1. /\ ReadOp(d) \in Ops /\ WriteOp(d) \in Ops
        /\ f \in [Ops -> Status] /\ f[WriteOp(d)] = "none"
        /\ \A p \in Ops \ {WriteOp(d)} : f[p] = op[p]
    BY <1>t, OpNames DEF Status
  <2>2. ~destroyed /\ op["connect"] = "none"
    <3>1. op[WriteOp(d)] # "none"
      BY <1>10 DEF OnWrite, Queued
    <3> QED BY <3>1, <1>alive, <2>1 DEF SessionInv, DirOK
  <2>3. UNCHANGED <<buf, taken, delivered>> /\ relayed' \in BOOLEAN
    BY <1>10, <1>t DEF OnWrite, TypeOK
  <2>4. CASE op[WriteOp(d)] = "err"
    <3>1. HandlerEnds(AfterShutdown(f), stale, TRUE)
      BY <1>10, <2>4 DEF OnWrite
    <3>2. f["connect"] = "none"
      BY <2>1, <2>2, OpNames
    <3> HIDE DEF f
    <3> QED BY <1>t, <2>1, <2>2, <2>3, <3>1, <3>2, Closing DEF Kept
  <2>5. CASE op[WriteOp(d)] = "ok"
    <3> DEFINE g == ReadAgain(d, f)
    <3>1. HandlerEnds(g, st, FALSE)
      BY <1>10, <2>5 DEF OnWrite
    <3>0. st \in [Queued -> Nat]
      BY <1>t, SupersededType
    <3> HIDE DEF f, st
    <3>2. /\ g \in [Ops -> Status]
          /\ g[ReadOp(d)] = IF shuttingDown THEN "err" ELSE "pending"
          /\ g["idleTimer"] \in {f["idleTimer"], "pending"}
          /\ \A p \in Ops \ {ReadOp(d), "idleTimer"} : g[p] = f[p]
      BY <2>1, ReadAgainFacts
    <3> HIDE DEF g
    <3>3. /\ g[WriteOp(d)] = "none"
          /\ g["idleTimer"] \in {op["idleTimer"], "pending"}
          /\ \A p \in Ops \ {ReadOp(d), WriteOp(d), "idleTimer"} : g[p] = op[p]
      BY <2>1, <3>2, OpNames
    <3>4. ~shuttingDown => Outstanding(g, st)
      BY <2>1, <3>2 DEF Outstanding
    <3>5. /\ op' = g /\ stale' = st /\ shuttingDown' = shuttingDown
          /\ active' \in 0..1 /\ destroyed' \in BOOLEAN /\ Lifetime' /\ LifeStep
      BY <1>t, <2>2, <3>0, <3>1, <3>2, <3>4, Handled DEF TypeOK
    <3>6. TypeOK'
      BY <1>t, <2>3, <3>0, <3>2, <3>5 DEF TypeOK
    <3>7. ASSUME NEW e \in Dirs PROVE DirOK(e)'
      <4>1. DirOK(e)
        BY DEF SessionInv
      <4>2. ReadOp(e)' = ReadOp(e) /\ WriteOp(e)' = WriteOp(e)
        BY DEF ReadOp, WriteOp
      <4>3. g["connect"] = "none"
        BY <2>2, <3>3, OpNames
      <4>4. CASE e = d
        BY <2>3, <2>5, <3>2, <3>3, <3>5, <4>1, <4>2, <4>3, <4>4 DEF DirOK
      <4>5. CASE e # d
        BY <2>3, <3>3, <3>5, <4>1, <4>3, <4>5, DirStable, OpNames DEF Kept
      <4> QED BY <4>4, <4>5
    <3>8. Relaying'
      BY <3>2, <3>3, <3>5, OpNames DEF SessionInv, Relaying, ReadOp, WriteOp
    <3>9. AlwaysWatched'
      BY <2>2, <3>3, <3>5, OpNames DEF SessionInv, AlwaysWatched
    <3> QED BY <3>5, <3>6, <3>7, <3>8, <3>9 DEF SessionInv
  <2> QED BY <1>10, <2>4, <2>5 DEF OnWrite, Queued
<1>11. ASSUME Done PROVE SessionInv' /\ LifeStep
  <2>1. SessionInv'
    BY <1>11 DEF Done, vars, SessionInv, TypeOK, DirOK, Relaying, AlwaysWatched, Lifetime,
                 Outstanding, ReadOp, WriteOp
  <2>2. destroyed /\ destroyed' /\ shuttingDown' = shuttingDown
    BY <1>11 DEF Done, vars
  <2> QED BY <2>1, <2>2 DEF LifeStep, SessionInv, Lifetime
<1> QED BY <1>1, <1>2, <1>3, <1>4, <1>5, <1>6, <1>7, <1>8, <1>9, <1>10, <1>11
        DEF Next, Handler

\* The invariant only speaks of the variables.
LEMMA StutterInv == SessionInv /\ UNCHANGED vars => SessionInv'
  BY DEF vars, SessionInv, TypeOK, DirOK, Relaying, AlwaysWatched, Lifetime, Outstanding,
         ReadOp, WriteOp

\* The invariant holds in every state a session reaches.
LEMMA Invariant == Spec => []SessionInv
  BY InitInv, NextInv, StutterInv, PTL DEF Spec

-----------------------------------------------------------------------------
\* Type correctness of a session; its share of the counter is 0 or 1.
THEOREM SessionTypeCorrect == Spec => []TypeOK
  BY Invariant, PTL DEF SessionInv

\* Each direction delivers the chunks it read, in order, none lost or
\* repeated, although every read and write of a direction shares one buffer.
THEOREM DeliveryInOrder == Spec => []InOrderDelivery
<1>1. SessionInv => InOrderDelivery
  BY DEF SessionInv, DirOK, InOrderDelivery
<1> QED BY <1>1, Invariant, PTL

\* However a session ends, each direction loses at most the chunk in its
\* buffer, and nothing while it waits for its peer.
THEOREM LossIsBounded == Spec => []LossBounded
<1>1. SessionInv => LossBounded
  <2> SUFFICES ASSUME SessionInv, NEW d \in Dirs
               PROVE  /\ taken[d] <= Len(delivered[d]) + 1
                      /\ op[ReadOp(d)] = "pending" => taken[d] = Len(delivered[d])
    BY DEF LossBounded
  <2>1. taken[d] \in Nat /\ Len(delivered[d]) \in Nat
    BY SessionAssumption DEF SessionInv, TypeOK
  <2> QED BY <2>1 DEF SessionInv, DirOK
<1> QED BY <1>1, Invariant, PTL

\* An open session always has a timer on it, in every order of completions.
THEOREM OpenSessionWatched == Spec => []AlwaysWatched
  BY Invariant, PTL DEF SessionInv

\* An open, connected session has exactly one operation in each direction.
THEOREM RelayNeverStalls == Spec => []OneOperationPerDirection
<1>1. SessionInv => OneOperationPerDirection
  BY DEF SessionInv, DirOK, Relaying, OneOperationPerDirection
<1> QED BY <1>1, Invariant, PTL

\* A closed session waits for nothing but its idle timer, which a late write
\* handler may have armed again.
ClosedQuiet == shuttingDown => \A o \in Ops \ {"idleTimer"} : op[o] # "pending"

\* A step of a session closes it with everything aborted or, when it was
\* closed before, starts nothing that could complete.
LEMMA ClosedQuietStep ==
    SessionInv /\ ClosedQuiet /\ [Next]_vars => ClosedQuiet'
<1> SUFFICES ASSUME SessionInv, ClosedQuiet, [Next]_vars, shuttingDown',
                    NEW o \in Ops \ {"idleTimer"}
             PROVE  op'[o] # "pending"
  BY DEF ClosedQuiet
<1>t. op \in [Ops -> Status]
  BY DEF SessionInv, TypeOK
\* A handler that calls Shutdown()
<1>c. ASSUME NEW f \in [Ops -> Status], op' = AfterShutdown(f),
             shuttingDown => f[o] # "pending"
      PROVE  op'[o] # "pending"
  BY <1>c DEF AfterShutdown, Abort
\* Completions leave the session open or closed as it is.
<1>1. ASSUME NEW p \in Ops, NEW q \in Queued, op' = [op EXCEPT ![p] = q],
             shuttingDown' = shuttingDown
      PROVE  op'[o] # "pending"
  BY <1>1, <1>t DEF ClosedQuiet, Queued
<1>2. ASSUME NEW t \in Timers, TimerExpires(t) PROVE op'[o] # "pending"
  BY <1>1, <1>2 DEF TimerExpires, Ops, Queued
<1>3. ASSUME NEW q \in Queued, ConnectCompletes(q) PROVE op'[o] # "pending"
  BY <1>1, <1>3, OpNames DEF ConnectCompletes
<1>4. ASSUME NEW d \in Dirs, ReadCompletes(d) PROVE op'[o] # "pending"
  BY <1>1, <1>4, OpNames DEF ReadCompletes, Queued
<1>5. ASSUME NEW d \in Dirs, WriteCompletes(d) PROVE op'[o] # "pending"
  BY <1>1, <1>5, OpNames DEF WriteCompletes, Queued
<1>6. ASSUME NEW d \in Dirs, NEW p \in {ReadOp(d), WriteOp(d)}, PeerFails(p)
      PROVE  op'[o] # "pending"
  BY <1>1, <1>6, OpNames DEF PeerFails, Queued
<1>7. ASSUME NEW t \in Timers, OnTimer(t) PROVE op'[o] # "pending"
  <2> DEFINE f == [op EXCEPT ![t] = "none"]
  <2>1. f \in [Ops -> Status] /\ (shuttingDown => f[o] # "pending")
    BY <1>t DEF ClosedQuiet, Status
  <2>2. CASE op[t] = "ok"
    <3>1. op' = AfterShutdown(f)
      BY <1>7, <2>2 DEF OnTimer, HandlerEnds
    <3> QED BY <1>c, <2>1, <3>1
  <2>3. CASE op[t] # "ok"
    <3>1. op' = f /\ shuttingDown
      BY <1>7, <2>3 DEF OnTimer, HandlerEnds
    <3> QED BY <2>1, <3>1
  <2> QED BY <2>2, <2>3
<1>8. ASSUME NEW q \in Queued, OnStaleIdleTimer(q) PROVE op'[o] # "pending"
  <2>1. CASE q = "ok"
    <3>1. op' = AfterShutdown(op)
      BY <1>8, <2>1 DEF OnStaleIdleTimer, HandlerEnds
    <3> QED BY <1>c, <1>t, <3>1 DEF ClosedQuiet
  <2>2. CASE q # "ok"
    BY <1>8, <2>2 DEF OnStaleIdleTimer, HandlerEnds, ClosedQuiet
  <2> QED BY <2>1, <2>2
<1>9. ASSUME OnConnected PROVE op'[o] # "pending"
  <2> DEFINE f == [op EXCEPT !["connect"] = "none", !["connectTimer"] = Abort(@)]
  <2>1. f \in [Ops -> Status] /\ (shuttingDown => f[o] # "pending")
    BY <1>t, OpNames DEF ClosedQuiet, Status, Queued, Abort
  <2>2. CASE op["connect"] = "err"
    <3>1. op' = AfterShutdown(f)
      BY <1>9, <2>2 DEF OnConnected, HandlerEnds
    <3> QED BY <1>c, <2>1, <3>1
  <2>3. CASE op["connect"] # "err"
    <3>1. op' = StartRelay(f) /\ shuttingDown
      BY <1>9, <2>3 DEF OnConnected, HandlerEnds
    <3> HIDE DEF f
    <3>2. ReadFromClient(f) \in [Ops -> Status] /\ ReadFromClient(f)[o] # "pending"
      BY <2>1, <3>1, ReadFromClientFacts DEF Ops
    <3> QED BY <3>1, <3>2, StartFacts DEF StartRelay, ReadFromBackend, Ops
  <2> QED BY <2>2, <2>3
<1>10. ASSUME NEW d \in Dirs, OnRead(d) PROVE op'[o] # "pending"
  <2> DEFINE f == [op EXCEPT ![ReadOp(d)] = "none"]
  <2>1. f \in [Ops -> Status] /\ (shuttingDown => f[o] # "pending")
    BY <1>t, OpNames DEF ClosedQuiet, Status
  <2>2. CASE op[ReadOp(d)] = "err"
    <3>1. op' = AfterShutdown(f)
      BY <1>10, <2>2 DEF OnRead, HandlerEnds
    <3> QED BY <1>c, <2>1, <3>1
  <2>3. CASE op[ReadOp(d)] # "err"
    <3>1. op' = StartIO(f, WriteOp(d)) /\ shuttingDown
      BY <1>10, <2>3 DEF OnRead, HandlerEnds, AfterRead
    <3> HIDE DEF f
    <3> QED BY <2>1, <3>1, StartFacts, OpNames
  <2> QED BY <2>2, <2>3
<1>11. ASSUME NEW d \in Dirs, OnWrite(d) PROVE op'[o] # "pending"
  <2> DEFINE f == [op EXCEPT ![WriteOp(d)] = "none"]
  <2>1. f \in [Ops -> Status] /\ (shuttingDown => f[o] # "pending")
    BY <1>t, OpNames DEF ClosedQuiet, Status
  <2>2. CASE op[WriteOp(d)] = "err"
    <3>1. op' = AfterShutdown(f)
      BY <1>11, <2>2 DEF OnWrite, HandlerEnds
    <3> QED BY <1>c, <2>1, <3>1
  <2>3. CASE op[WriteOp(d)] # "err"
    <3>1. op' = ReadAgain(d, f) /\ shuttingDown
      BY <1>11, <2>3 DEF OnWrite, HandlerEnds
    <3> HIDE DEF f
    <3> QED BY <2>1, <3>1, ReadAgainFacts, OpNames
  <2> QED BY <2>2, <2>3
<1>12. CASE UNCHANGED vars
  BY <1>12 DEF vars, ClosedQuiet
<1> QED BY <1>2, <1>3, <1>4, <1>5, <1>6, <1>7, <1>8, <1>9, <1>10, <1>11, <1>12
        DEF Next, Handler, Done

\* After Shutdown() no byte moves: what is still queued only fails or lets
\* go of the session.
THEOREM ClosedSessionQuiet == Spec => QuietAfterShutdown
<1>1. Init => ClosedQuiet
  BY DEF Init, ClosedQuiet
<1>2. SessionInv /\ ClosedQuiet /\ [Next]_vars =>
        [shuttingDown => UNCHANGED <<buf, taken, delivered>>]_vars
  <2> SUFFICES ASSUME SessionInv, ClosedQuiet, Next, shuttingDown
               PROVE  UNCHANGED <<buf, taken, delivered>>
    BY DEF vars
  <2>1. ASSUME NEW d \in Dirs PROVE ~ReadCompletes(d) /\ ~WriteCompletes(d)
    BY OpNames DEF ReadCompletes, WriteCompletes, ClosedQuiet
  <2> QED BY <2>1 DEF Next, Handler, Done, vars, TimerExpires, ConnectCompletes, PeerFails,
                      OnTimer, OnStaleIdleTimer, OnConnected, OnRead, OnWrite
<1>3. QuietAfterShutdown <=> [][shuttingDown => UNCHANGED <<buf, taken, delivered>>]_vars
  BY DEF QuietAfterShutdown
<1> QED BY <1>1, <1>2, <1>3, ClosedQuietStep, Invariant, PTL DEF Spec

\* The safety part of SessionContract (its liveness part is checked by TLC).
ContractSafety == Contract!Init /\ [][Contract!Next]_(Contract!vars)

\* A session implements the safety part of its contract: it opens, closes and
\* is destroyed in that order, and gives its connection back exactly then.
THEOREM SessionImplementsContract == Spec => ContractSafety
<1>1. Init => Contract!Init
  BY DEF Init, Contract!Init, CountedAtStart
<1>2. SessionInv /\ SessionInv' /\ [Next]_vars => [Contract!Next]_(Contract!vars)
  <2> SUFFICES ASSUME SessionInv, SessionInv', [Next]_vars
               PROVE  [Contract!Next]_(Contract!vars)
    OBVIOUS
  <2>1. CASE UNCHANGED vars
    BY <2>1 DEF vars, Contract!vars
  <2>2. CASE Next
    <3>1. LifeStep
      BY <2>2, NextInv
    <3>2. /\ shuttingDown \in BOOLEAN /\ destroyed \in BOOLEAN
          /\ shuttingDown' \in BOOLEAN /\ destroyed' \in BOOLEAN
      BY DEF SessionInv, TypeOK
    <3>3. /\ destroyed => shuttingDown
          /\ destroyed' => shuttingDown'
          /\ active = IF destroyed THEN 0 ELSE 1
          /\ active' = IF destroyed' THEN 0 ELSE 1
      BY DEF SessionInv, Lifetime
    <3> QED BY <3>1, <3>2, <3>3
            DEF LifeStep, Contract!Next, Contract!Close, Contract!Destroy, Contract!vars
  <2> QED BY <2>1, <2>2
<1>3. Spec => Init /\ [][Next]_vars
  BY DEF Spec
<1> QED BY <1>1, <1>2, <1>3, Invariant, PTL DEF ContractSafety
=============================================================================
