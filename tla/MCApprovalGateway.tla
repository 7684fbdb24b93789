------------------------- MODULE MCApprovalGateway -------------------------
(* Small instances of the approval gateway.                                *)
EXTENDS ApprovalGateway, TLC

CONSTANTS a1, t1, t2, ali

\* A green action and a red one can be decided for one tick, a yellow one for two.
ShortTtl == [green |-> 1, red |-> 1, yellow |-> 2]
\* Every action is past its deadline at the next tick.
NoTtl == [green |-> 0, red |-> 0, yellow |-> 0]

ThreadSymmetry == Permutations(Threads)
=============================================================================
