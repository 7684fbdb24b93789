--------------------------- MODULE MCApprovalCards ---------------------------
(* Small instances of the approval cards.                                  *)
EXTENDS ApprovalCards

CONSTANTS a1, t1, ali

\* Every action is past its deadline at the next tick.
NoTtl == [green |-> 0, red |-> 0, yellow |-> 0]
=============================================================================
