\* Two threads decide the same action at the same time, nothing fails.
CONSTANTS
  a1 = a1
  t1 = t1
  t2 = t2
  ali = ali
  Actions = {a1}
  Threads = {t1, t2}
  Users = {ali}
  NoUser = NoUser
  NoAction = NoAction
  Ttl <- NoTtl
  MaxCalls = 3
  MaxClock = 0
  MayDie = FALSE
SPECIFICATION Spec
CHECK_DEADLOCK FALSE
INVARIANTS
  RepeatedDecisionRunsOnce
