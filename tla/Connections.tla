----------------------------- MODULE Connections -----------------------------
(***************************************************************************)
(* Connections to other services and what is fetched over them:            *)
(* app/integrations/store.py, testers.py and google.py with the endpoints  *)
(* that save, test and delete a connection and show the Google overview.   *)
(*                                                                         *)
(* A slot is a service of a project, or a service shared by all; credentials*)
(* are a public part (for Google the property) and a secret one. The shape *)
(* of the data fetched is left out: an overview is whose it is and when it *)
(* runs out.                                                               *)
(***************************************************************************)
EXTENDS Naturals, FiniteSets, SequencesExt

CONSTANTS
  Slots,        \* what can be connected
  Shared,       \* the slots without a project
  Google,       \* the slot the overview is fetched over
  NoSlot,
  Sites, Secrets,
  Good,         \* the secrets the services accept
  Threads,
  MaxRows,      \* bound on the ids of rows
  CacheMax,     \* _CACHE_MAX
  OverviewTtl, TokenTtl,
  MaxFetch,     \* what the timeouts of the calls of one fetch add up to
  MaxCalls, MaxClock,
  MayFail       \* whether calls fail and handlers are cut short

ASSUME ConnectionsAssumption ==
  /\ NoSlot \notin Slots /\ Shared \subseteq Slots
  /\ Google \in Slots
  /\ Good \subseteq Secrets /\ "none" \notin Secrets
  /\ MaxRows \in Nat /\ CacheMax \in Nat \ {0}
  /\ OverviewTtl \in Nat \ {0} /\ TokenTtl \in Nat /\ MaxFetch \in Nat
  /\ MaxCalls \in Nat /\ MaxClock \in Nat
  /\ MayFail \in BOOLEAN

Ids == 1 .. MaxRows
Creds == [site : Sites \cup {"none"}, secret : Secrets \cup {"none"}]
Empty == [site |-> "none", secret |-> "none"]

VARIABLES
  slot, creds, state,  \* the table integrations; NoSlot where there is no row
  overviews, tokens,   \* the caches, in the order of insertion
  clock, pc,
  job,     \* what a handler works on: slot, row id, credentials, when it began
  calls,
  raced,   \* the threads that saw someone else write since they began
  doubt,   \* the rows whose status such a thread stored, or one of two twins
  lostAt,  \* when each account of Google was last replaced or disconnected
  served   \* the last overview served: whether its account was lost, how long ago

table  == <<slot, creds, state>>
caches == <<overviews, tokens>>
vars == <<table, caches, clock, pc, job, calls, raced, doubt, lostAt, served>>

Free == [slot |-> NoSlot, id |-> 0, creds |-> Empty, at |-> 0]

\* The server starts on an empty table, or on one with Google connected.
InitTable ==
  \/ /\ slot = [i \in Ids |-> NoSlot]
     /\ creds = [i \in Ids |-> Empty]
     /\ state = [i \in Ids |-> "pending"]
  \/ \E c \in [site : Sites, secret : Good] :
       /\ slot = [i \in Ids |-> IF i = 1 THEN Google ELSE NoSlot]
       /\ creds = [i \in Ids |-> IF i = 1 THEN c ELSE Empty]
       /\ state = [i \in Ids |-> IF i = 1 THEN "connected" ELSE "pending"]

Init ==
  /\ InitTable
  /\ overviews = <<>> /\ tokens = <<>>
  /\ clock = 0
  /\ pc = [t \in Threads |-> "idle"]
  /\ job = [t \in Threads |-> Free]
  /\ calls = 0
  /\ raced = {} /\ doubt = {}
  /\ lostAt = [c \in Creds |-> 0]
  /\ served = [lost |-> FALSE, after |-> 0]

Rows(s) == {i \in Ids : slot[i] = s}
Used == {i \in Ids : slot[i] # NoSlot}

\* The row of a slot, 0 if there is none; of two the older one.
Find(s) == IF Rows(s) = {} THEN 0 ELSE CHOOSE i \in Rows(s) : \A j \in Rows(s) : i <= j

Stored(s) == IF Find(s) = 0 THEN Empty ELSE creds[Find(s)]

\* What a tester accepts.
Works(c) == c.secret \in Good

Serve(t, next) ==
  /\ pc[t] = "idle"
  /\ calls < MaxCalls
  /\ calls' = calls + 1
  /\ pc' = [pc EXCEPT ![t] = next]

Goto(t, next) == pc' = [pc EXCEPT ![t] = next] /\ UNCHANGED calls

Release(t) ==
  /\ Goto(t, "idle")
  /\ job' = [job EXCEPT ![t] = Free]
  /\ raced' = raced \ {t}

\* A write: whoever is at work is no longer alone.
Disturb(t) == raced' = raced \cup {u \in Threads \ {t} : pc[u] # "idle"}

-----------------------------------------------------------------------------
(* Saving: looked up, merged with what is stored, written, tested.         *)

\* integrations_save up to upsert: a secret may be left blank ("none") if one
\* is stored.
SaveStart(t, s, c) ==
  /\ Serve(t, "merge")
  /\ c.secret = "none" => Stored(s).secret # "none"
  /\ job' = [job EXCEPT ![t] = [Free EXCEPT !.slot = s, !.creds = c]]
  /\ UNCHANGED <<table, caches, clock, raced, doubt, lostAt, served>>

\* upsert looks the row up again and keeps the stored secret for a blank one.
Merge(t) ==
  LET s == job[t].slot
      c == job[t].creds
  IN /\ pc[t] = "merge"
     /\ job' = [job EXCEPT
                  ![t].id = Find(s),
                  ![t].creds = IF c.secret = "none"
                               THEN [c EXCEPT !.secret = Stored(s).secret] ELSE c]
     /\ Goto(t, "write")
     /\ UNCHANGED <<table, caches, clock, raced, doubt, lostAt, served>>

\* SQLite gives a new row the largest id plus one: the id of a deleted row may
\* come back.
NextId == IF Used = {} THEN 1 ELSE 1 + CHOOSE i \in Used : \A j \in Used : j <= i

Touch(i, s, c, st) ==
  /\ slot' = [slot EXCEPT ![i] = s]
  /\ creds' = [creds EXCEPT ![i] = c]
  /\ state' = [state EXCEPT ![i] = st]
  /\ doubt' = doubt \ {i}
  /\ lostAt' = IF Stored(Google)' = Stored(Google) THEN lostAt
               ELSE [lostAt EXCEPT ![Stored(Google)] = clock]

\* UNIQUE(project_id, service) refuses a second row of a project's service;
\* NULLs are distinct.
Insert(t) ==
  /\ pc[t] = "write" /\ job[t].id = 0
  /\ job[t].slot \in Shared \/ Rows(job[t].slot) = {}
  /\ NextId \in Ids
  /\ Touch(NextId, job[t].slot, job[t].creds, "pending")
  /\ job' = [job EXCEPT ![t].id = NextId]
  /\ Disturb(t)
  /\ Goto(t, "probe")
  /\ UNCHANGED <<caches, clock, served>>

\* Variant: the status is left as it was.
UpdateKeepsStatus(t) ==
  /\ pc[t] = "write" /\ job[t].id \in Used
  /\ Touch(job[t].id, slot[job[t].id], job[t].creds, state[job[t].id])
  /\ Disturb(t)
  /\ Goto(t, "probe")
  /\ UNCHANGED <<caches, clock, job, served>>

\* The UPDATE is by id alone, whatever row has that id now.
Update(t) ==
  /\ pc[t] = "write" /\ job[t].id \in Used
  /\ Touch(job[t].id, slot[job[t].id], job[t].creds, "pending")
  /\ Disturb(t)
  /\ Goto(t, "probe")
  /\ UNCHANGED <<caches, clock, job, served>>

\* The INSERT is refused, or the row that was found is gone: an error.
WriteFails(t) ==
  /\ pc[t] = "write"
  /\ \/ job[t].id = 0 /\ job[t].slot \notin Shared /\ Rows(job[t].slot) # {}
     \/ job[t].id # 0 /\ job[t].id \notin Used
  /\ Release(t)
  /\ UNCHANGED <<table, caches, clock, doubt, lostAt, served>>

\* integrations_test: the row, by its id.
TestStart(t, i) ==
  /\ Serve(t, "probe")
  /\ i \in Used
  /\ job' = [job EXCEPT ![t] = [Free EXCEPT !.slot = slot[i], !.id = i]]
  /\ UNCHANGED <<table, caches, clock, raced, doubt, lostAt, served>>

\* Both then read the credentials by service and project, and try them.
Probe(t) ==
  /\ pc[t] = "probe"
  /\ job' = [job EXCEPT ![t].creds = Stored(job[t].slot)]
  /\ Goto(t, "verdict")
  /\ UNCHANGED <<table, caches, clock, raced, doubt, lostAt, served>>

\* Variant: a status the schema does not name.
VerdictUnknown(t) ==
  /\ pc[t] = "verdict" /\ job[t].id \in Used
  /\ state' = [state EXCEPT ![job[t].id] = "tested"]
  /\ doubt' = doubt \ {job[t].id}
  /\ Release(t)
  /\ UNCHANGED <<slot, creds, caches, clock, lostAt, served>>

\* set_status, by id alone. A test may also fail because nobody answered.
Verdict(t) ==
  LET i == job[t].id
  IN /\ pc[t] = "verdict"
     /\ \E ok \in {Works(job[t].creds)} \cup (IF MayFail THEN {FALSE} ELSE {}) :
          state' = IF i \in Used
                   THEN [state EXCEPT ![i] = IF ok THEN "connected" ELSE "error"]
                   ELSE state
     /\ doubt' = IF t \in raced \/ (i \in Used /\ Rows(slot[i]) # {i})
                 THEN doubt \cup {i} ELSE doubt \ {i}
     /\ Release(t)
     /\ UNCHANGED <<slot, creds, caches, clock, lostAt, served>>

Delete(t, i) ==
  /\ Serve(t, "idle")
  /\ i \in Used
  /\ Touch(i, NoSlot, Empty, "pending")
  /\ Disturb(t)
  /\ UNCHANGED <<caches, clock, job, served>>

-----------------------------------------------------------------------------
(* The overview: read through a cache by property, over cached tokens.     *)

\* Variant: the oldest entry goes only once the cache is past its bound.
PutLate(cache, e) ==
  LET kept == IF Len(cache) > CacheMax THEN Tail(cache) ELSE cache
  IN Append(SelectSeq(kept, LAMBDA x : x.key # e.key), e)

\* _cache_put: at the bound the oldest entry goes, even if e replaces another.
Put(cache, e) ==
  LET kept == IF Len(cache) >= CacheMax THEN Tail(cache) ELSE cache
      Same(x) == x.key = e.key
  IN IF \E i \in DOMAIN kept : Same(kept[i])
     THEN [i \in DOMAIN kept |-> IF Same(kept[i]) THEN e ELSE kept[i]]
     ELSE Append(kept, e)

\* Variant: an entry is served whenever it was stored.
HitsEver(cache, k) == {e \in ToSet(cache) : e.key = k}
Hits(cache, k) == {e \in ToSet(cache) : e.key = k /\ e.until > clock}

\* The credentials are read; the key is their property.
Begin(t, next) ==
  /\ Serve(t, next)
  /\ Find(Google) # 0
  /\ job' = [job EXCEPT ![t] = [Free EXCEPT !.creds = Stored(Google), !.at = clock]]
  /\ UNCHANGED <<table, caches, clock, raced, doubt, lostAt, served>>

\* The dashboard, the chat and the morning report ask for what is cached; a
\* forced refresh, which the dashboard alone can ask for, does not look.
AskOverview(t) == Begin(t, "look")
Refresh(t)     == Begin(t, "token")

Show(t, of) ==
  /\ served' = [lost |-> of # Stored(Google), after |-> clock - lostAt[of]]
  /\ Release(t)

Hit(t) ==
  /\ pc[t] = "look"
  /\ \E e \in Hits(overviews, job[t].creds.site) : Show(t, e.of)
  /\ UNCHANGED <<table, caches, clock, doubt, lostAt>>

Miss(t) ==
  /\ pc[t] = "look"
  /\ Hits(overviews, job[t].creds.site) = {}
  /\ Goto(t, "token")
  /\ UNCHANGED <<table, caches, clock, job, raced, doubt, lostAt, served>>

\* get_access_token: cached by the refresh token, otherwise asked for; another
\* thread may have put it by the time the answer comes.
Token(t) ==
  LET k == job[t].creds.secret
  IN /\ pc[t] = "token"
     /\ \/ Hits(tokens, k) # {} /\ UNCHANGED tokens
        \/ /\ Works(job[t].creds)
           /\ tokens' = Put(tokens, [key |-> k, until |-> clock + TokenTtl])
     /\ Goto(t, "fetch")
     /\ UNCHANGED <<table, overviews, clock, job, raced, doubt, lostAt, served>>

\* Search Console and Analytics: an error in one leaves the other, and errors
\* in most of the calls leave gaps. Any data at all is cached.
Fetch(t) ==
  /\ pc[t] = "fetch"
  /\ overviews' = Put(overviews, [key |-> job[t].creds.site, of |-> job[t].creds,
                                  until |-> clock + OverviewTtl])
  /\ Show(t, job[t].creds)
  /\ UNCHANGED <<table, tokens, clock, doubt, lostAt>>

\* A total failure is answered and not cached.
FetchFails(t) ==
  /\ \/ pc[t] = "token" /\ (MayFail \/ ~Works(job[t].creds))
     \/ pc[t] = "fetch" /\ MayFail
  /\ Release(t)
  /\ UNCHANGED <<table, caches, clock, doubt, lostAt, served>>

-----------------------------------------------------------------------------

Die(t) ==
  /\ MayFail
  /\ pc[t] # "idle"
  /\ Release(t)
  /\ UNCHANGED <<table, caches, clock, doubt, lostAt, served>>

\* The calls of a fetch have timeouts: it ends before the clock has moved by
\* more than MaxFetch.
Tick ==
  /\ clock < MaxClock
  /\ \A t \in Threads : pc[t] \in {"look", "token", "fetch"} => clock < job[t].at + MaxFetch
  /\ clock' = clock + 1
  /\ UNCHANGED <<table, caches, pc, job, calls, raced, doubt, lostAt, served>>

Arrive(t) ==
  \/ \E s \in Slots, c \in [site : Sites, secret : Secrets \cup {"none"}] : SaveStart(t, s, c)
  \/ \E i \in Ids : TestStart(t, i) \/ Delete(t, i)
  \/ AskOverview(t) \/ Refresh(t)

Work(t) ==
  \/ Merge(t) \/ Insert(t) \/ Update(t) \/ WriteFails(t) \/ Probe(t) \/ Verdict(t)
  \/ Hit(t) \/ Miss(t) \/ Token(t) \/ Fetch(t) \/ FetchFails(t)

Next == Tick \/ \E t \in Threads : Arrive(t) \/ Work(t) \/ Die(t)

Spec == Init /\ [][Next]_vars

-----------------------------------------------------------------------------
(* What must hold.                                                         *)

Steps == {"idle", "merge", "write", "probe", "verdict", "look", "token", "fetch"}

ConnectionsTypeOK ==
  /\ slot \in [Ids -> Slots \cup {NoSlot}]
  /\ creds \in [Ids -> Creds]
  /\ state \in [Ids -> {"pending", "connected", "error"}]
  /\ overviews \in Seq([key : Sites \cup {"none"}, of : Creds, until : Nat])
  /\ tokens \in Seq([key : Secrets \cup {"none"}, until : Nat])
  /\ clock \in 0 .. MaxClock
  /\ pc \in [Threads -> Steps]
  /\ job \in [Threads -> [slot : Slots \cup {NoSlot}, id : 0 .. MaxRows, creds : Creds,
                          at : 0 .. MaxClock]]
  /\ calls \in 0 .. MaxCalls
  /\ raced \subseteq Threads
  /\ doubt \subseteq 0 .. MaxRows
  /\ lostAt \in [Creds -> 0 .. MaxClock]
  /\ served \in [lost : BOOLEAN, after : Nat]

\* A connection shown as connected holds credentials that its service accepted:
\* saves reset the status, tests try what is stored, and no interruption between
\* the save and its test leaves the old verdict on new credentials. (Unless the
\* verdict came from a handler during which someone else wrote, or from a test
\* of one of two rows of a shared service.)
StatusIsOfStored == \A i \in Used \ doubt : state[i] = "connected" => Works(creds[i])

\* cache_clear is never called when credentials are replaced, but what the old
\* account saw fades out: an overview of an account that was replaced or deleted is
\* served no later than the life of an entry and one fetch after that, whatever
\* fetches were under way then.
OldAccountFades == served.lost => served.after < OverviewTtl + MaxFetch

\* Neither cache outgrows its bound, and no key is cached twice.
CachesAreBounded == \A cache \in {overviews, tokens} :
  /\ Len(cache) <= CacheMax
  /\ \A i, j \in DOMAIN cache : cache[i].key = cache[j].key => i = j
=============================================================================
