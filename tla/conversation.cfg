\* Two threads, a message of the owner brought twice, and once more after a crash,
\* and any number of a stranger's.
CONSTANTS
  m1 = m1
  t1 = t1
  t2 = t2
  Messages = {m1}
  NoMessage = NoMessage
  Threads = {t1, t2}
  Tries = 1
  Endpoints = 1
  MaxMade = 1
  MaxDeliveries = 2
  MaxCrashes = 1
SPECIFICATION FairSpec
CHECK_DEADLOCK FALSE
INVARIANTS
  TalkTypeOK
  WorkIsBounded
  ConversationsAreFew
PROPERTIES
  DeclinesAreRare
  TokensStayNear
  EveryUpdateEnds
