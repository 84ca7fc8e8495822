----------------------------- MODULE MCTcpProxy -----------------------------
(* TcpProxy for TLC: four clients, three services, P2C.  One of the         *)
(* services has an address that does not parse.                             *)
EXTENDS TcpProxy, TLC

CONSTANTS c1, c2, c3, c4, s1, s2, s3

\* P2C uses no hash values.
MCVNodeHash == [e \in Entries |-> 0]
MCKeyHash == [c \in Clients |-> 0]

\* Clients are alike, and so are the services with a good address.
Symmetry == Permutations(Clients) \cup Permutations(Services \ BadAddress)
=============================================================================
