---------------------------- MODULE ApprovalGate ----------------------------
(***************************************************************************)
(* What the approval gateway promises about authority, whatever happens to *)
(* its handlers: the outside world feels an action only on the strength of *)
(* the approvals given to it, and every run is paid for by an approval of  *)
(* its own (app/approvals/registry.py: "no yellow or red action without an *)
(* approved pending record"; app/approvals/risk.py: the three levels).     *)
(***************************************************************************)
EXTENDS Naturals

CONSTANTS Actions

Level == {"green", "yellow", "red"}

\* The approvals that come before a run.
Needed(level) == CASE level = "green" -> 0
                   [] level = "yellow" -> 1
                   [] level = "red" -> 2

VARIABLES
  level,      \* of each action, "none" until it is asked for
  approvals,  \* given to each action
  runs        \* of each action that the outside world felt

gateVars == <<level, approvals, runs>>

GateInit ==
  /\ level = [a \in Actions |-> "none"]
  /\ approvals = [a \in Actions |-> 0]
  /\ runs = [a \in Actions |-> 0]

Ask(a, l) ==
  /\ level[a] = "none"
  /\ level' = [level EXCEPT ![a] = l]
  /\ UNCHANGED <<approvals, runs>>

Approve(a) ==
  /\ level[a] # "none"
  /\ approvals' = [approvals EXCEPT ![a] = @ + 1]
  /\ UNCHANGED <<level, runs>>

\* The runs so far and this one, beside the approvals they need.
Run(a) ==
  /\ level[a] # "none"
  /\ runs[a] + Needed(level[a]) <= approvals[a]
  /\ runs' = [runs EXCEPT ![a] = @ + 1]
  /\ UNCHANGED <<level, approvals>>

GateNext == \E a \in Actions :
  Approve(a) \/ Run(a) \/ \E l \in Level : Ask(a, l)

GateSpec == GateInit /\ [][GateNext]_gateVars
=============================================================================
