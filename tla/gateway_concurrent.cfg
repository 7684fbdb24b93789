\* Two threads over one action; any handler may be cut short at any step.
CONSTANTS
  a1 = a1
  t1 = t1
  t2 = t2
  ali = ali
  Actions = {a1}
  Threads = {t1, t2}
  Users = {ali}
  NoUser = NoUser
  NoAction = NoAction
  Ttl <- NoTtl
  MaxCalls = 4
  MaxClock = 1
  MayDie = TRUE
SPECIFICATION Spec
SYMMETRY ThreadSymmetry
CHECK_DEADLOCK FALSE
INVARIANTS
  TypeOK
  RunsArePaidFor
  OnlyTheRequesterDecides
  ExpiredOnlyAfterDeadline
  NoLatePress
PROPERTIES
  KeepsTheGate
