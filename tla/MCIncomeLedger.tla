---------------------------- MODULE MCIncomeLedger ----------------------------
(* Small instances of the income ledger, and the calendar its months are of. *)
EXTENDS IncomeLedger, MCJalali, TLC

CONSTANTS i1, r1, r2, t1, t2

Symmetry == Permutations(Threads) \cup Permutations(Reminders)
=============================================================================
