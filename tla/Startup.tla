------------------------------ MODULE Startup ------------------------------
(* What main() of core/main.cpp makes of a configuration before it serves:  *)
(* the checks up to run(), and the addresses that are looked at only when   *)
(* the first probe or session needs them.                                   *)
EXTENDS ServiceNode

Algorithms == {"p2c", "consistent-hash"}    \* keys of strategyFactory

\* Services of one name have virtual nodes of one hash value, on which the
\* constructor of the ring throws.
RingCollides(services) ==
    \E i, j \in DOMAIN services : i # j /\ services[i].name = services[j].name

\* An error message and exit code 1, before a socket is opened
Refused(loaded) ==
    LET config == loaded.config
    IN  \/ ~loaded.ok
        \/ config.services = <<>>
        \/ config.settings.algorithm \notin Algorithms
        \/ config.settings.algorithm = "consistent-hash" /\ RingCollides(config.services)

\* The constructor of the proxy throws on a listen address that does not
\* parse, and when the address and port cannot be bound.
CannotListen(config, portFree) == ~MakeAddress(config.settings.address) \/ ~portFree

\* From the result of Load() to a load balancer that serves; one that ends in
\* "Fatal" before it accepts anything; or one that an exception ends at the
\* first probe or session of a service whose address does not parse.
Main(loaded, portFree) ==
    CASE Refused(loaded) -> "refused"
      [] ~Refused(loaded) /\ CannotListen(loaded.config, portFree) -> "fatal"
      [] OTHER ->
           IF \A i \in DOMAIN loaded.config.services : MakeAddress(loaded.config.services[i].ip)
           THEN "serves" ELSE "fails"
=============================================================================
