\* One handler at a time; presses are delivered at least once or lost, handlers break off.
CONSTANTS
  a1 = a1
  t1 = t1
  ali = ali
  Actions = {a1}
  Threads = {t1}
  Users = {ali}
  NoUser = NoUser
  NoAction = NoAction
  Ttl <- NoTtl
  MaxCalls = 5
  MaxClock = 1
  MayDie = TRUE
  Pressers = {ali}
  MaxPresses = 2
  MiniApp = TRUE
SPECIFICATION CardsSpec
CHECK_DEADLOCK FALSE
INVARIANTS
  CardsTypeOK
  FinalButtonIsEarned
  PlainCardIsDecided
  RepeatedDecisionRunsOnce
