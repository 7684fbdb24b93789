\* Two threads over two contacts, a deal and two requests; a cached body lives
\* for two ticks.
CONSTANTS
  c1 = c1
  c2 = c2
  d1 = d1
  r1 = r1
  r2 = r2
  t1 = t1
  t2 = t2
  Contacts = {c1, c2}
  Reachable = {c1, c2}
  Deals = {d1}
  Requests = {r1, r2}
  NoContact = NoContact
  NoDeal = NoDeal
  NoRequest = NoRequest
  Threads = {t1, t2}
  MaxRows = 2
  Ttl = 2
  MaxCalls = 5
  MayFail = TRUE
SPECIFICATION Spec
SYMMETRY Symmetry
CHECK_DEADLOCK FALSE
INVARIANTS
  SalesTypeOK
  EntriesAreTheirs
  HitsAreRecent
PROPERTIES
  SalesKeepTheGate
