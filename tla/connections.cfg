\* Two threads; a project's Google connection and a shared one.
CONSTANTS
  gsc = gsc
  smtp = smtp
  siteA = siteA
  good = good
  better = better
  bad = bad
  t1 = t1
  t2 = t2
  Slots = {gsc, smtp}
  Shared = {smtp}
  Google = gsc
  NoSlot = NoSlot
  Sites = {siteA}
  Secrets = {good, better, bad}
  Good = {good, better}
  Threads = {t1, t2}
  MaxRows = 2
  CacheMax = 1
  OverviewTtl = 1
  TokenTtl = 2
  MaxFetch = 1
  MaxCalls = 3
  MaxClock = 3
  MayFail = TRUE
SPECIFICATION Spec
SYMMETRY Symmetry
CHECK_DEADLOCK FALSE
INVARIANTS
  ConnectionsTypeOK
  StatusIsOfStored
  OldAccountFades
  CachesAreBounded
