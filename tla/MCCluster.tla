------------------------------ MODULE MCCluster ------------------------------
(* Small instances of Cluster. *)
EXTENDS Cluster

CONSTANTS p1, p2, p3, a, b

\* Two processes are given one identifier, the third has its own.
MCIdOf == [p \in Processes |-> IF p = p3 THEN b ELSE a]

\* Every job may be attempted twice.
MCMaxAttempts == [j \in Jobs |-> 2]
==============================================================================
