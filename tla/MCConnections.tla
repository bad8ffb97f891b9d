--------------------------- MODULE MCConnections ---------------------------
(***************************************************************************)
(* Instances of Connections for TLC: one key per kind of provider.         *)
(***************************************************************************)
EXTENDS Connections, TLC

CONSTANTS p1, p2, c1, c2, c3, sqlite, plugindb, pluginrpc, direct, none

\* Callers and physical connections are interchangeable.
Interchangeable == Permutations(Callers) \cup Permutations(Conns)

MCCeiling == [db |-> 2, conn |-> 1, call |-> 2]
=============================================================================
