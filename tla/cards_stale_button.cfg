\* Presses on the card alone, nothing fails but an answer may come late.
CONSTANTS
  a1 = a1
  t1 = t1
  ali = ali
  Actions = {a1}
  Threads = {t1}
  Users = {ali}
  NoUser = NoUser
  NoAction = NoAction
  Ttl <- NoTtl
  MaxCalls = 4
  MaxClock = 0
  MayDie = FALSE
  Pressers = {ali}
  MaxPresses = 2
  MiniApp = FALSE
SPECIFICATION CardsSpec
CHECK_DEADLOCK FALSE
INVARIANTS
  RedNeedsFinalButton
