\* One handler at a time over one action, none cut short.
CONSTANTS
  a1 = a1
  t1 = t1
  t2 = t2
  ali = ali
  Actions = {a1}
  Threads = {t1}
  Users = {ali}
  NoUser = NoUser
  NoAction = NoAction
  Ttl <- ShortTtl
  MaxCalls = 5
  MaxClock = 2
  MayDie = FALSE
SPECIFICATION FairSpec
CHECK_DEADLOCK FALSE
INVARIANTS
  OutcomeMatchesStatus
  AuditIsComplete
PROPERTIES
  Lifecycle
  ApprovedIsCarriedOut
