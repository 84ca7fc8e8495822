-------------------------- MODULE MCConsistentHash --------------------------
(* Every ring of three services with two virtual nodes each, every subset   *)
(* of healthy services, a key on, before, between and after the entries.    *)
EXTENDS ConsistentHash, TLC

\* The services differ only in their hash values, and Init takes them all.
ServiceSymmetry == Permutations(Services)
=============================================================================
