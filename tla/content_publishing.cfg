\* Two threads over one draft and two requests; calls fail, handlers are cut short.
CONSTANTS
  d1 = d1
  r1 = r1
  r2 = r2
  s1 = s1
  s2 = s2
  t1 = t1
  t2 = t2
  Drafts = {d1}
  Requests = {r1, r2}
  Sites = {s1, s2}
  Home <- FirstSite
  Posts <- SitePosts
  Foreign <- HandMade
  Threads = {t1, t2}
  NoDraft = NoDraft
  NoRequest = NoRequest
  NoPost = NoPost
  NoSite = NoSite
  MaxCalls = 5
  MayFail = TRUE
SPECIFICATION Spec
SYMMETRY Symmetry
CHECK_DEADLOCK FALSE
INVARIANTS
  ContentTypeOK
  PublishedIsPublic
  ExecutedPublishIsPublic
  PublishedIsOwn
  OnlyPostIsLinked
  ScoreIsAudited
PROPERTIES
  ContentKeepsTheGate
