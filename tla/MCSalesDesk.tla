----------------------------- MODULE MCSalesDesk -----------------------------
(* Small instances of the sales desk.                                      *)
EXTENDS SalesDesk, TLC

CONSTANTS c1, c2, d1, r1, r2, t1, t2

Symmetry ==
  Permutations(Threads) \cup Permutations(Requests) \cup Permutations(Contacts)
=============================================================================
