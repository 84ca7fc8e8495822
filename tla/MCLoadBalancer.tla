--------------------------- MODULE MCLoadBalancer ---------------------------
(* The whole program for TLC, with one service, whose virtual node is the   *)
(* whole ring.                                                              *)
EXTENDS LoadBalancer

MCVNodeHash == [e \in Entries |-> 0]
MCKeyHash == [c \in Clients |-> 0]
=============================================================================
