\* One thread; the process may restart between two statements of a handler.
CONSTANTS
  a1 = a1
  t1 = t1
  t2 = t2
  ali = ali
  Actions = {a1}
  Threads = {t1}
  Users = {ali}
  NoUser = NoUser
  NoAction = NoAction
  Ttl <- ShortTtl
  MaxCalls = 4
  MaxClock = 2
  MayDie = TRUE
SPECIFICATION FairSpec
CHECK_DEADLOCK FALSE
PROPERTIES
  ApprovedIsCarriedOut
