---------------------------- MODULE MCConnections ----------------------------
(* Small instances of the connections.                                     *)
EXTENDS Connections, TLC

CONSTANTS gsc, smtp, siteA, good, better, bad, t1, t2

Symmetry == Permutations(Threads)
=============================================================================
