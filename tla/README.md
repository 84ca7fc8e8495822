# Bit Bridge in TLA+

A formal model of Bit Bridge, the layer 4 TCP load balancer of this repository,
with its configuration tool and its benchmark program. The
modules are translated from the C++ sources; `PROJECT.json` names, for every
definition, the lines it stands for.

## 1. The system

The load balancer (`core/`) is one process with one thread. `main()` loads a
YAML configuration, builds a pool of services, a routing strategy, the proxy and
the health checker, and calls `io_context::run()`. Everything afterwards happens
in handlers of asynchronous operations. Two handlers never overlap; what is
concurrent is the network, the clock and the operator: an operation may have
completed, with its handler waiting in the queue, while another handler cancels
it, closes its socket or stops the component it belongs to.

| Component | State | Operations | Talks to |
|---|---|---|---|
| `Session` | two sockets, two timers, two buffers, `m_shuttingDown`, its own lifetime | connect, relay in both directions, time out, shut down, be destroyed | decrements its backend's counter in the destructor |
| `TcpProxy` | acceptor, the outstanding accept | accept, select, start a session or drop the client, stop | strategy, pool, `Session` |
| `HealthChecker` | round timer, `m_stopped`, probes in flight | schedule, probe, judge, stop | writes health and failures into the pool |
| `ServicePool`, `ServiceState` | per service: `activeConnections`, `healthy`, `consecutiveFailures` | increment, decrement (saturating), set, reset | shared by all of the above |
| `P2CStrategy` | random generator | pick two healthy services, take the lighter | reads the pool |
| `ConsistentHashStrategy` | sorted ring of hash values | build the ring, find the next healthy node | reads the pool |
| `main` | signal set, exit code | start, stop on a signal, return or fail | owns the components |
| `MainFrame` with `YamlConfigSerializer` | configuration, list rows, unsaved mark; the file | start, add, remove, load, save, close | the YAML file, which the load balancer reads |
| `ServiceNode`, `LoadBalancerConfig` | the services and settings of a configuration | add, remove, clear, check an IPv4 address | `MainFrame`, serializer, `main` |
| `AppSettings`, `BitBridgeApp` | defaults of a new configuration; the TOML file | load, write when missing | `MainFrame` at its start |
| benchmark `RunLoad` | counters, results, connections with timers | launch waves, connect, write, read, stop | a running load balancer |
| benchmark `main`, `RunPhase` | child process, results, baseline file | start and stop a load balancer per algorithm, wait for its port, compute, save, compare | load balancer processes on one port |

What is hard here:

- **Lifetimes.** A session lives as long as some handler refers to it. It must end
  once its last handler has run, on every path, and give its connection back once.
- **Cancellation is late.** `cancel()` and `close()` do not recall a completion that
  is already queued. Timers that expired, accepts and connects that succeeded,
  all arrive after the event that made them pointless.
- **Overlap.** Probe rounds do not wait for each other; results arrive late.
- **Shutdown.** The process ends only when nothing is outstanding any more.
- **Partial failure.** An exception in a handler ends the process; a configuration
  file that converts half way has already changed the configuration.

What makes each part correct:

- *Session*: data arrives in order; an open session is always under a timer; a closed
  one relays nothing more; it ends; it is counted exactly once while it exists.
- *TcpProxy*: counters equal reality; the accept loop never ends by accident; new
  sessions go to healthy and lighter services.
- *HealthChecker*: health agrees with the failures counted; failures and recoveries
  are noticed for good; stopping starts nothing new and leaves nothing behind.
- *Ring*: the next healthy node clockwise; only the keys of a failed service move.
- *main*: a signal ends the process with everything drained.
- *Configuration tool*: rows and services correspond; what is typed is what is added;
  loads are all or nothing; "saved" means stored.
- *Configuration model and settings*: what the tool lets through is what the load
  balancer can serve with.
- *Benchmark*: every request recorded once, exactly the asked-for load; each phase
  measures its own process; an end. (That a regression is never reported as success
  is what the usage text promises and `bench_compare` refutes.)

## 2. Modules

| Module | Models | Used by |
|---|---|---|
| `SessionContract` | what the rest relies on: open, closing, gone, one connection given back | `Session`, `TcpProxy` |
| `Session` | `core/proxy/Session.cpp`; refines `SessionContract` | |
| `EventLoop` | completion and cancellation of operations, an exception leaving `run()` (Boost.Asio, external) | `TcpProxy`, `HealthChecker` |
| `ServicePool` | `core/state` | `Routing`, `HealthChecker` |
| `Routing` | `core/routing`: both strategies as operators over the pool | `ConsistentHash`, `TcpProxy` |
| `ConsistentHash` | the ring over the life of a pool | |
| `TcpProxy` | `core/proxy/TcpProxy.cpp` | `LoadBalancer` |
| `HealthChecker` | `core/health/HealthChecker.cpp` | `LoadBalancer` |
| `LoadBalancer` | `core/main.cpp`: `TcpProxy` and `HealthChecker` on one pool and one loop | |
| `ServiceNode` | the IPv4 check of `lib/model/ServiceNode.cpp`, and `make_address()` (external) as its reference | `Startup` |
| `Startup` | what `core/main.cpp` makes of a configuration before it serves | `ConfigEditor` |
| `AppSettings` | `ui/AppSettings.cpp` | `ConfigEditor` |
| `ConfigEditor` | `ui/MainFrame.cpp`, `ui/BitBridgeApp.cpp`, `lib/serialization`, `lib/model/LoadBalancerConfig.cpp` | |
| `LoadGenerator` | the load phase of `bench/main.cpp` | `Benchmark` |
| `Benchmark` | the rest of `bench/main.cpp`: phases, processes, baseline | |
| `MC...` | values of constants for TLC | |
| `...Proofs` | theorems and proofs of the module of that name; `LoadBalancerProofs` builds on those of `TcpProxy` and `HealthChecker`, both ring users on `RoutingProofs` | |

### How state and actions correspond to the code

**Session.** `op` holds, for each of the seven asynchronous operations (two timers,
connect, two reads, two writes), whether it is outstanding and how it completed.
There is one action per completion and one per handler. `Shutdown()`,
`ReadFromClient()` and `ReadFromBackend()` are operators on that table, used by
the handlers as the code calls them. Re-arming the idle timer leaves the wait it
supersedes in `stale`: aborted, or expired and no longer to be recalled. A session
is destroyed at the end of the handler that leaves no operation behind
(`Release`), as the last `shared_from_this()` goes. A chunk of data is its number;
the buffer of a direction holds the chunk last read, and a write delivers what is
in the buffer when it completes, which is how a premature read would show.

**TcpProxy.** `acceptOp` is the one outstanding accept. `OnAccept` is the whole
handler: aborted, error, `remote_endpoint()` throwing (`RemoteEndpointThrows`), no
service, an address that does not parse (`BadAddress`; `Load()` takes any text), or a
session. `StartThrows` is the start of a session at such an address: it is counted, and
its destructor, on the way of the exception, uncounts it. An accept on
a closed acceptor completes at once with an error that is not `operation_aborted`.
Clients that `Stop()` finds in the backlog are reset by the kernel.

**HealthChecker.** `connect[s][k]` and `timer[s][k]` are the two operations of a
probe; `Slots` bounds how many probes of a service overlap. `reach` says how the
backend behaves: a "slow" one may lose or win the race against its timer.
`RoundExpires` waits for a free slot, which is the bound. The handler of a probe's
timer that is still queued when the probe ends touches only that probe's finished
socket; the slot is taken as free.

**LoadBalancer.** `OutstandingWork` is what keeps `run()` from returning.

**Startup.** `Main` is what becomes of a configuration: refused with a message; fatal,
when the constructor of the proxy throws on a listen address that does not parse or on
an address and port it cannot bind (`CannotListen`); ended by an exception at the first
probe or session of a service whose address does not parse; or served with.

**AppSettings.** A settings file is absent or has any of the keys; one that does not
parse, and a key of another type, change nothing and are like missing keys. Kept are
the listen address and the routing algorithm, taken as they are, and the listen port,
which is narrowed to 16 bits.

**ConfigEditor.** A file is absent, garbage, or a document with some of the keys of the
settings and entries for services, some of which may not convert; `Load` yields both
the result and what it leaves in the configuration it was given. `SaveOutcomes` are the
ways `Save()` ends. `Truncated` is what is on the disk when not all of the text was
written: nothing, the settings up to any key or cut inside one, or the services up to
any of them or cut inside one. A cut number is a shorter number or none, a cut address
may be an address too. Of the settings other than the services the listen address, the
listen port and the routing algorithm are kept, the weight of a service is left out: the
rest is handled like the parts that are there. `Start` is the whole way to a window:
`OnInit()` with the TOML file (`toml`), `ApplyDefaultConfig()`, `LoadExistingConfig()`.
`Usable` says with `Main` of `Startup` whether the load balancer would serve with a
configuration if the port is free: this joins the tool to the program its file is for.
`RemoveSelected` is the loop of `OnRemoveService()` as a recursive function over the
rows, from the last to the first. What does not convert is marked by values outside
the types (`Unreadable`, `BadEntry`), so that `TypeOK` also says that none of them gets
into a configuration.

**ServiceNode.** A text is the sequence of its parts between dots, a part what the
check looks at: its size, whether it is all digits, whether it begins with '0', its
value. `Tokens` is what `getline()` yields, which is one part short when the text
ends in a dot.

**LoadGenerator.** `Finish` is the code that `OnConnect`, `OnWriteDone` and
`OnReadSome` repeat at the end of a request. `closed` marks sockets that their
timer has closed, on which the next operation fails at once.

**Benchmark.** `pc` is where `main()` and `RunPhase()` are; `lbs` holds the load
balancer process of each algorithm, which binds the port, fails or dies. `kill()` only
tells it to stop: it holds the port (`HoldsPort`) until it handles the signal
(`LbHandlesSignal`), then drains and exits in its own time. `WaitPort` goes on as soon
as any process listens, as the code does. `Leftover` adds a process that an earlier benchmark left behind
when it died; the runs are without it, and with it TLC shows that the benchmark
measures that process (`MeasuresOwnLb` fails). A throughput is any of `Rates`, since
it depends on the wall clock, but 0 when no request succeeded. A baseline file is the
sequence of its entries. `Scan` finds the first throughput behind the name of an
algorithm, which may be the one of the next entry; on one that is no number `stoi()`
throws and the program aborts. `Regressed` yields the verdicts the floating point may
come to: at exactly the threshold both (100 to 85 at 15 % is a drop of
15.000000000000002), elsewhere one.

## 3. Runs

| Run | Shows |
|---|---|
| `session` | in-order delivery, at most one buffer lost per direction, one operation per direction, always a timer, nothing relayed after the shutdown, silent sessions end, refinement of the contract |
| `consistent_hash` | the ring's arithmetic against "next healthy clockwise", minimal disruption, over every placement |
| `tcp_proxy` | exact counters, an accept loop that goes on, balanced new sessions |
| `health` | health agrees with failures, down and up detected, stop starts nothing and drains |
| `load_balancer` | exit code 0 means drained; a stop that aborts the accept ends the process; no client stays in the backlog |
| `config_editor` | rows, removal, an exact address check, usable edits, services added as typed, loads all or nothing, saved means stored |
| `benchmark` | requests accounted for, load saturated, every phase measures its own process, the program ends |

Runs that are expected to find a violation record a disagreement between the
code and what the repository says of it:

| Run | Disagreement |
|---|---|
| `session_idle` | the idle timeout fires on a session that has relayed a chunk from backend to client since the timer was armed |
| `lb_signal` | a signal that meets a queued accept leaves the process accepting on a closed acceptor for ever |
| `lb_drain` | `remote_endpoint()` on a reset client ends the process with live sessions |
| `editor_write` | a service is added, its save is cut short, and the unsaved mark goes all the same |
| `bench_compare` | `--baseline` with `--compare` overwrites the baseline before it is read: a regression exits 0 |

A file that fails to convert half way at start leaves services in the
configuration that the list does not show (`LoadExistingConfig`); `RowsAreServices`
allows for it, and shows that no row is then taken for one of them.

### Bounds

- Session: `MaxChunks` 2 per direction, with the idle timeout on. Two are enough for a buffer to be
  reused while its previous content is in flight; the theorems cover all values.
  `stale` needs no bound, since every re-arm costs a chunk.
- Ring: three services, two virtual nodes each, all hash values of a space of 7,
  with keys before, on, between and behind all entries. Every placement,
  collisions included; services are symmetric.
- Proxy: four clients and three services under P2C, one of them with an address
  that does not parse; clients are symmetric, and so are the other services. This
  reaches two sessions on one service while another is lighter or unhealthy. The
  theorems cover the ring as well.
- Health: one service, two probes in flight, threshold 2; the safety theorems
  cover every number of services and every threshold, 0 included. `FailureCap` stops the counter
  where it is only compared with a threshold not above it.
- Program: two clients, one service (a ring of one node; P2C in the runs that find
  a violation), one probe in flight.
- Editor: two services, two entries in hand-edited files, so that one can be repeated
  or stand in front of one that does not convert; their keys without a listen address,
  or with a port beyond 16 bits; typed ports 0, 80 and 65616 = 2^16 + 80; one valid
  address and one text for each way the check can turn one away; a settings file that is
  missing, or has a port beyond 16 bits and an algorithm nobody knows.
- Benchmark: two phases of three requests over two connections, so that a request
  is launched when another ends; the answer is one read; throughputs 0 and 100
  (0, 80, 85 and 100 in `bench_compare`, which has one request) at the default
  threshold of 15 %. A baseline has up to two entries, each of any algorithm, with a
  throughput, without one or damaged.

### Fairness

`run()` serves every queued handler and timers expire: weak fairness of handlers
and expiries, everywhere. Nothing is assumed of peers in `Session` (a connect, a
read or a write may stay pending for ever) nor of backends in `HealthChecker`
(a backend that is down may be silent). A probe either connects or times out:
weak fairness of that disjunction, and which of the two is left open.
`LoadBalancer` assumes that every session ends, which `Session` shows for a
positive idle timeout. For `BacklogServed` it assumes strong fairness of
`AcceptCompletes`: accepts may fail again and again while descriptors are short, but
not for ever; without that no loop could serve the backlog. `Benchmark` assumes that
the load balancer closes a silent connection, as the benchmark's configuration (idle
timeout 5 s) makes it, and that a process that was told to stop handles the signal and
exits. `LoadBalancer`
shows when that is so (`StopEndsProcess`); in the race of `lb_signal` it is not, and
the benchmark would wait in `waitpid()`.

Deadlock is checked in every run; where a system has ended, an action says so
(`Done`, `Ended`, `Exited`, `ConstructorThrew`).

## 4. Proofs

Checked by TLAPS, for every value of the constants that satisfies the named
assumptions of the modules.

`SessionProofs`. `SessionInv` strengthens the type invariant by what each
operation implies about the others. `DirOK`: a pending or successful write means
the buffer holds the chunk after the last one delivered, and outside a write
everything taken has been delivered or is in the queued read. `Relaying` is the
shape of the operation table before and after the connect. `AlwaysWatched` needs
`Relaying`, since re-arming happens in the write handler. `Lifetime`: destroyed
means nothing outstanding and shutting down, and `active` is 1 until then. From it
follow `SessionTypeCorrect`, `DeliveryInOrder`, `LossIsBounded` (from `DirOK`),
`RelayNeverStalls` (from `Relaying`), `OpenSessionWatched`, `ClosedSessionQuiet` (a
closed socket leaves no operation that could still succeed, also when a late handler
starts one) and `SessionImplementsContract`, the safety part of the refinement.

`HealthCheckerProofs`. `HealthMatchesFailures` is inductive with the types; the
proof is about `Failure` and `Success` and the capped counter. `NoProbeOnceStopped`
follows from `RoundEnds`.

`RoutingProofs`. The pair of P2C are two different healthy services (`P2CPick`). For
the ring the index arithmetic is related to the order of hash values without
induction over the ring: if no two entries collide, `LowerBound` of an entry's hash is
its rank (`RankIsLowerBound`), ranks are in the order of hashes (`RankOrder`) and a
bijection onto the indices (`RankBijective`, by cardinality), so `RingAt` inverts the
rank (`RingAtRank`). One turn of `ProbeIndex`, remainder included (`OneTurn`), meets
every entry once (`WalkVisitsAll`), and the walk stops at the first one that is healthy
(`WalkFindsFirst`, by the smallest step in a set of steps).

`ConsistentHashProofs`. `RingInv` is what the constructor leaves: types and no
collision. The place of an entry in the walk from a key is ordered like its distance
clockwise, wrap-around included (remainder of a negative difference), which gives
`SelectionCorrect` for rings and hash spaces of any size. `KeysStay` follows without
looking at the walk again: what comes next clockwise changes only if it is, or gives way
to, the service whose health changed.

`TcpProxyProofs`. `ProxyInv` adds `AcceptOK` (a queued successful accept has its
client, in status "accepted", and no other client has) and `BackendOK` (a live
session has a service) to the counters. Adding a client to, or taking it from,
the finite set of a service's sessions changes its cardinality by one; that is
`CountersExact`. `SessionsBalanced` needs that the chosen pair are two different
healthy services.

`LoadBalancerProofs`. `ProgramInv` is the conjunction of `ProxyInv`, `HealthInv`, the
program's types, `SignalOK` (until a signal has been handled the acceptor is open and
the checker not stopped) and `CleanExitDrained`. Each component's steps keep its own invariant by the lemmas of
its module, and the other's because of the part of the pool it leaves alone: the
checker writes health and failures, the proxy counters. `CleanExit` then needs that
`run()` returns only without `OutstandingWork`: with no accept outstanding the acceptor
cannot be open (`AlwaysAccepting`), with no live session every set of sessions is empty,
and the counters, being exact, are 0. `ComponentsCompose`,
`ProgramBalances` and `ProgramStopsProbing` carry the guarantees of the parts to the
program.

`ConfigEditorProofs`. `ValidIpv4IsAddress` holds of every text: part by part the
check and `make_address()` agree (`OctetExact`), a text without a dot at its end has
all its parts as tokens (`TokensOfText`), and a text with one has an empty last part,
which neither takes. `AddressCheckExact` carries it to what the window accepts.
`RowsAreServices` is inductive: every handler that changes the services of an open
window refreshes the rows from them, and the one that does not, the half load at
start, leaves none. `LoadsAllOrNothing` looks at each action that changes the
configuration of a window that stays open: an addition stores what was typed
(`StoredAsTyped`), a removal is `RemoveSelected`, and `OnLoadConfig` replaces it only by
what `Load()` makes of the whole file (`LoadOk`).
`EditorInv` is the full type invariant and that a closed window has no unsaved mark; it
needs what a conversion yields (`ConvertedType`, `Narrowed`), what each kind of file
holds (`FileTypes`, with `CutTypes` for those cut short) and what the removal loop
returns. That loop is proved for lists
of any length: `RemoveLoop` unfolds the recursive function (its existence included),
`LoopInv` says what is left when the rows from i on are done, `LoopKeepsRow` and
`LoopRemovesRow` are its two steps, and `RemoveSelectedExact` follows by looking at the
first place where it would fail. With `RowsAreServices` it gives `RemovesSelected`.
`EditsStayUsable` rests on `Fit`, the services a load balancer serves with:
removing one keeps the others fit (`FitRemove`, and `RemoveSelectedKeeps` for the loop),
and appending one that passed `ValidateInput()` and is no duplicate does
(`FitAppend`, with `ValidIpv4IsAddress` for its address). `AddsAsTyped` needs that
narrowing leaves a port from 1 to 65535 alone (`StoredAsTyped`) and that the range check
comes before it (`AddStep`). `SavedIsStored` assumes that
writes do not fail (with failing ones it is false: `editor_write`) and shows that
`Load()` reads back what `Save()` wrote (`StoredLoads`).

`BenchmarkProofs`. `RequestsAccounted` speaks of cardinalities and is not inductive.
`LoadInv` adds that requests are launched in order (`LaunchedInOrder`: exactly those
beyond the counter wait, exactly those with a result have ended), so that the
connections in flight are the launched requests without the ended ones and only the
set of results has to be counted (`BusyCounted`). `WaveLaunches` says what a wave
does, `FinishInv` that recording one request and launching the next keeps the load
saturated; that needs `LoadSaturated` itself, since a wave starts more than one
request only at first. From it follow `EveryRequestAccounted` and `LoadAsAsked`.
`BenchTypeCorrect` adds to the types that a phase that is to come or to end has no
result yet (`PhaseLeft`), so that `Child` is one of the processes (`ChildIsProcess`).
`ProcessInv` then says that between phases no process is left, that in a phase only its
own may hold the port, and that this one has bound it, or was gone, before the load
starts; it needs that `waitpid()` is behind `kill()`, since a process that was told to
stop still listens. It gives `PhaseMeasuresOwnLb`, under the assumption that none is
left over from before.

Every invariant and action property that a passing run checks is the statement of a
theorem. Only model-checked is what must eventually happen (`SilentSessionEnds`,
`DownDetected`, `UpRecovers`, `StopDrains`, `StopEndsProcess`,
`BacklogServed`, `BenchEnds`, and the fairness part of `ImplementsContract`): weak and
strong fairness are about ENABLED, which is out of the prover's reach. Where an
argument goes by induction over data (the ring, the removal loop, the first bad entry
of a file), the library's induction theorems cannot be instantiated; the proofs take
the smallest element of a set of counterexamples instead (`SmallestNat`,
`SmallestIndex`).

## 5. Not modelled

- The FNV-1a hash and the xoshiro generator: 64-bit arithmetic; the models take every
  hash value and every random choice instead.
- Memory orders of the atomics: one thread.
- The mock services of the benchmark (`EchoService`): whether and how a request is
  answered is left open in `Completes`. Latencies, percentiles and the printed
  report: no state depends on them. A write of the baseline that fails behind its
  opening, which nobody looks at; the next benchmark may meet such a file.
- Window layout, tab order, message boxes, logging.
- The text of YAML, TOML and JSON beyond what loads, fails, is missing or is cut
  short.
- IPv6: `make_address()` takes such texts, the IPv4 check turns them away;
  `MakeAddress` is about texts without a colon.
- The accessors of the configuration classes, which store and return.

## 6. Plan

1. *Done*: `Session` with its contract and proofs; pool, routing and ring;
   `TcpProxy`, `HealthChecker`, their proofs; `LoadBalancer`; `ConfigEditor` joined to
   `AppSettings`, `ServiceNode` and `Startup`, and its first proofs; `LoadGenerator`
   within `Benchmark`, and their proofs.
2. *Done, proved*: the composed program, the ring, the configuration tool and the
   types of the benchmark; with them every safety property of a passing run.
3. *Next*: safety lemmas behind the liveness runs (what a stop leaves outstanding only
   shrinks, apart from the race of `lb_signal`).
