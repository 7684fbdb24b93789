--------------------------- MODULE ConnectionsProofs ---------------------------
(***************************************************************************)
(* Proofs about Connections, for any slots, accounts, threads and bounds.  *)
(***************************************************************************)
EXTENDS Connections, FiniteSetTheorems, WellFoundedInduction, SequenceTheorems, TLAPS

-----------------------------------------------------------------------------
(* The oldest row of a slot.                                               *)

\* A set of ids has a least one: of the intervals that end in its members, one
\* has none of the others inside.
LEMMA LeastExists ==
  ASSUME NEW n \in Nat, NEW S \in SUBSET (1 .. n), S # {}
  PROVE  \E i \in S : \A j \in S : i <= j
<1>. DEFINE T == {1 .. i : i \in S}
            R == StrictSubsetOrdering(1 .. n)
<1>1. IsWellFoundedOn(R, SUBSET (1 .. n))
  <2>1. IsFiniteSet(1 .. n)
    BY FS_Interval
  <2>2. FiniteSubsetsOf(1 .. n) = SUBSET (1 .. n)
    BY <2>1, FS_FiniteSubsetsOfFinite
  <2>. QED
    BY <2>2, FS_StrictSubsetOrderingWellFounded
<1>2. T \subseteq SUBSET (1 .. n) /\ T # {}
  <2>1. \A i \in S : 1 .. i \subseteq 1 .. n
    OBVIOUS
  <2>. QED
    BY <2>1
<1>3. PICK x \in T : \A y \in T : ~(<<y, x>> \in R)
  <2>. HIDE DEF T, R
  <2>. QED
    BY <1>1, <1>2, WFMin
<1>4. PICK i \in S : x = 1 .. i
  OBVIOUS
<1>5. ASSUME NEW j \in S, ~(i <= j) PROVE FALSE
  <2>1. (1 .. j) \in T /\ 1 .. j \subseteq 1 .. i /\ i \notin 1 .. j /\ i \in 1 .. i
    BY <1>5
  <2>2. <<1 .. j, 1 .. i>> \in R
    BY <1>2, <1>4, <2>1 DEF StrictSubsetOrdering
  <2>. QED
    BY <1>3, <1>4, <2>1, <2>2
<1>. QED
  BY <1>5

\* Whatever the table, the row that is found is one of the slot's.
LEMMA FindIsRow ==
  ASSUME NEW s, Rows(s) # {}
  PROVE  Find(s) \in Rows(s)
<1>1. MaxRows \in Nat /\ Rows(s) \in SUBSET (1 .. MaxRows)
  BY ConnectionsAssumption DEF Rows, Ids
<1>2. \E i \in Rows(s) : \A j \in Rows(s) : i <= j
  BY <1>1, LeastExists
<1>. QED
  BY <1>2 DEF Find

LEMMA FindTypes == \A s : Find(s) \in 0 .. MaxRows /\ (Find(s) # 0 => Find(s) \in Ids)
<1>1. SUFFICES ASSUME NEW s
               PROVE  Find(s) \in 0 .. MaxRows /\ (Find(s) # 0 => Find(s) \in Ids)
  OBVIOUS
<1>2. CASE Rows(s) = {}
  BY <1>2, ConnectionsAssumption DEF Find
<1>3. CASE Rows(s) # {}
  BY <1>3, FindIsRow, ConnectionsAssumption DEF Rows, Ids
<1>. QED
  BY <1>2, <1>3

LEMMA OnlyRowIsFound ==
  ASSUME NEW i \in Ids, NEW s, Rows(s) = {i}
  PROVE  Find(s) = i
BY FindIsRow, ConnectionsAssumption DEF Rows

-----------------------------------------------------------------------------
(* The caches.                                                             *)

Bounded(cache) ==
  /\ Len(cache) <= CacheMax
  /\ \A i, j \in DOMAIN cache : cache[i].key = cache[j].key => i = j

\* _cache_put keeps a cache within its bound and free of twins.
LEMMA PutTypes ==
  ASSUME NEW Item, NEW cache \in Seq(Item), NEW e \in Item, Bounded(cache)
  PROVE  /\ Put(cache, e) \in Seq(Item) /\ Bounded(Put(cache, e))
         /\ \A x \in ToSet(Put(cache, e)) : x = e \/ x \in ToSet(cache)
<1>. DEFINE kept == IF Len(cache) >= CacheMax THEN Tail(cache) ELSE cache
            Same(x) == x.key = e.key
<1>1. /\ kept \in Seq(Item) /\ Len(kept) < CacheMax /\ Bounded(kept)
      /\ \A i \in DOMAIN kept : \E j \in DOMAIN cache : kept[i] = cache[j]
  <2>1. Len(cache) \in Nat /\ CacheMax \in Nat \ {0} /\ DOMAIN cache = 1 .. Len(cache)
    BY ConnectionsAssumption
  <2>2. CASE Len(cache) < CacheMax
    BY <2>1, <2>2
  <2>3. CASE Len(cache) >= CacheMax
    <3>1. cache # <<>> /\ kept = Tail(cache)
      BY <2>1, <2>3
    <3>2. /\ Tail(cache) \in Seq(Item) /\ Len(Tail(cache)) = Len(cache) - 1
          /\ DOMAIN Tail(cache) = 1 .. Len(cache) - 1
          /\ \A i \in 1 .. Len(cache) - 1 : Tail(cache)[i] = cache[i + 1]
      BY <2>1, <3>1, HeadTailProperties, LenProperties
    <3>3. \A i \in 1 .. Len(cache) - 1 : i + 1 \in DOMAIN cache
      BY <2>1
    <3>4. Bounded(Tail(cache))
      BY <2>1, <2>3, <3>2, <3>3 DEF Bounded
    <3>5. Len(Tail(cache)) < CacheMax
      BY <2>1, <2>3, <3>2 DEF Bounded
    <3>. QED
      BY <3>1, <3>2, <3>3, <3>4, <3>5
  <2>. QED
    BY <2>1, <2>2, <2>3
<1>2. Put(cache, e) = IF \E i \in DOMAIN kept : Same(kept[i])
                      THEN [i \in DOMAIN kept |-> IF Same(kept[i]) THEN e ELSE kept[i]]
                      ELSE Append(kept, e)
  BY DEF Put
<1>. HIDE DEF kept
<1>3. DOMAIN kept = 1 .. Len(kept) /\ Len(kept) \in Nat /\ kept \in [1 .. Len(kept) -> Item]
  BY <1>1, LenProperties
<1>4. CASE \E i \in DOMAIN kept : Same(kept[i])
  <2>. DEFINE new == [i \in DOMAIN kept |-> IF Same(kept[i]) THEN e ELSE kept[i]]
  <2>1. Put(cache, e) = new
    BY <1>2, <1>4
  <2>2. new \in [1 .. Len(kept) -> Item]
    BY <1>3
  <2>3. new \in Seq(Item) /\ Len(new) = Len(kept)
    BY <1>3, <2>2
  <2>4. \A i \in DOMAIN new : i \in DOMAIN kept /\ new[i].key = kept[i].key
    OBVIOUS
  <2>5. Bounded(new)
    BY <1>1, <2>3, <2>4, <1>3, ConnectionsAssumption DEF Bounded
  <2>6. \A x \in ToSet(new) : x = e \/ x \in ToSet(cache)
    BY <1>1 DEF ToSet
  <2>. QED
    BY <2>1, <2>3, <2>5, <2>6
<1>5. CASE ~(\E i \in DOMAIN kept : Same(kept[i]))
  <2>. DEFINE new == Append(kept, e)
  <2>1. Put(cache, e) = new
    BY <1>2, <1>5
  <2>2. /\ new \in Seq(Item) /\ Len(new) = Len(kept) + 1 /\ DOMAIN new = 1 .. Len(kept) + 1
        /\ new[Len(kept) + 1] = e /\ \A i \in 1 .. Len(kept) : new[i] = kept[i]
    BY <1>1, <1>3
  <2>. HIDE DEF new
  <2>3. Bounded(new)
    BY <1>1, <1>3, <1>5, <2>2, ConnectionsAssumption DEF Bounded
  <2>4. \A x \in ToSet(new) : x = e \/ x \in ToSet(cache)
    BY <1>1, <1>3, <2>2 DEF ToSet
  <2>. QED
    BY <2>1, <2>2, <2>3, <2>4
<1>. QED
  BY <1>4, <1>5

-----------------------------------------------------------------------------
(* Types.                                                                  *)

Overview == [key : Sites \cup {"none"}, of : Creds, until : Nat]
Access   == [key : Secrets \cup {"none"}, until : Nat]
Job      == [slot : Slots \cup {NoSlot}, id : 0 .. MaxRows, creds : Creds, at : 0 .. MaxClock]

TableOK ==
  /\ slot \in [Ids -> Slots \cup {NoSlot}]
  /\ creds \in [Ids -> Creds]
  /\ state \in [Ids -> {"pending", "connected", "error"}]

CachesOK ==
  /\ overviews \in Seq(Overview) /\ Bounded(overviews)
  /\ tokens \in Seq(Access) /\ Bounded(tokens)

ThreadsOK ==
  /\ pc \in [Threads -> Steps]
  /\ job \in [Threads -> Job]
  /\ calls \in 0 .. MaxCalls
  /\ raced \subseteq Threads

GhostsOK ==
  /\ clock \in 0 .. MaxClock
  /\ doubt \subseteq 0 .. MaxRows
  /\ lostAt \in [Creds -> 0 .. MaxClock] /\ \A c \in Creds : lostAt[c] <= clock
  /\ served \in [lost : BOOLEAN, after : Nat]

TypeInv == TableOK /\ CachesOK /\ ThreadsOK /\ GhostsOK

LEMMA TypesMeanOK == TypeInv => ConnectionsTypeOK /\ CachesAreBounded
BY DEF TypeInv, TableOK, CachesOK, ThreadsOK, GhostsOK, Overview, Access, Job, Bounded,
       ConnectionsTypeOK, CachesAreBounded

LEMMA StoredTypes == TableOK => \A s : Stored(s) \in Creds
BY FindTypes DEF TableOK, Stored, Empty, Creds

LEMMA InitTypes == Init => TypeInv
<1> SUFFICES ASSUME Init PROVE TypeInv
  OBVIOUS
<1>1. Empty \in Creds /\ [site : Sites, secret : Good] \subseteq Creds
  BY ConnectionsAssumption DEF Empty, Creds
<1>2. TableOK
  BY <1>1, ConnectionsAssumption DEF Init, InitTable, TableOK
<1>3. CachesOK
  <2>1. \A S : <<>> \in Seq(S)
    BY EmptySeq
  <2>2. Bounded(<<>>)
    BY ConnectionsAssumption DEF Bounded
  <2>. QED
    BY <2>1, <2>2 DEF Init, CachesOK
<1>4. ThreadsOK
  BY <1>1, ConnectionsAssumption DEF Init, ThreadsOK, Job, Free, Steps
<1>5. GhostsOK
  BY ConnectionsAssumption DEF Init, GhostsOK
<1>. QED
  BY <1>2, <1>3, <1>4, <1>5 DEF TypeInv

\* A handler that ends, is served, or moves on with a job.
LEMMA ReleaseTypes ==
  ASSUME ThreadsOK, NEW t \in Threads, Release(t)
  PROVE  ThreadsOK'
<1>1. Free \in Job
  BY ConnectionsAssumption DEF Free, Job, Empty, Creds
<1>. QED
  BY <1>1 DEF ThreadsOK, Release, Goto, Steps

LEMMA ServeTypes ==
  ASSUME ThreadsOK, NEW t \in Threads, NEW next \in Steps, NEW j \in Job, Serve(t, next),
         job' = job \/ job' = [job EXCEPT ![t] = j], raced' \subseteq Threads
  PROVE  ThreadsOK'
BY ConnectionsAssumption DEF ThreadsOK, Serve

LEMMA GotoTypes ==
  ASSUME ThreadsOK, NEW t \in Threads, NEW next \in Steps, NEW j \in Job, Goto(t, next),
         job' = [job EXCEPT ![t] = j], raced' \subseteq Threads
  PROVE  ThreadsOK'
BY DEF ThreadsOK, Goto

\* A write to a row.
LEMMA TouchTypes ==
  ASSUME TypeInv, NEW i \in Ids, NEW s \in Slots \cup {NoSlot}, NEW c \in Creds,
         NEW st \in {"pending", "connected", "error"}, Touch(i, s, c, st),
         UNCHANGED <<clock, served>>
  PROVE  TableOK' /\ GhostsOK'
<1>1. TableOK'
  BY DEF TypeInv, TableOK, Touch
<1>2. Stored(Google) \in Creds
  BY StoredTypes DEF TypeInv
<1>3. lostAt' \in [Creds -> 0 .. MaxClock] /\ \A d \in Creds : lostAt'[d] <= clock
  BY <1>2, ConnectionsAssumption DEF TypeInv, GhostsOK, Touch
<1>. QED
  BY <1>1, <1>3 DEF TypeInv, GhostsOK, Touch

LEMMA NextTypes == TypeInv /\ [Next]_vars => TypeInv'
<1> SUFFICES ASSUME TypeInv, [Next]_vars PROVE TypeInv'
  OBVIOUS
<1> USE DEF TypeInv, table, caches
<1>f. Free \in Job /\ Empty \in Creds
  BY ConnectionsAssumption DEF Free, Job, Empty, Creds
<1>j. ASSUME NEW t \in Threads PROVE job[t] \in Job /\ job = [job EXCEPT ![t] = job[t]]
  BY DEF ThreadsOK
<1>s. \A s : Stored(s) \in Creds
  BY StoredTypes
<1>1. ASSUME NEW t \in Threads, NEW s \in Slots, NEW c \in [site : Sites, secret : Secrets \cup {"none"}],
             SaveStart(t, s, c)
      PROVE  TypeInv'
  <2>1. [Free EXCEPT !.slot = s, !.creds = c] \in Job
    BY <1>f DEF Job, Creds
  <2>2. ThreadsOK'
    BY <1>1, <2>1, ServeTypes DEF SaveStart, Steps, ThreadsOK
  <2>. QED
    BY <1>1, <2>2 DEF SaveStart, TableOK, CachesOK, GhostsOK
<1>2. ASSUME NEW t \in Threads, NEW i \in Ids, TestStart(t, i) PROVE TypeInv'
  <2>1. [Free EXCEPT !.slot = slot[i], !.id = i] \in Job
    <3>1. slot[i] \in Slots \cup {NoSlot} /\ i \in 0 .. MaxRows
      BY ConnectionsAssumption DEF TableOK, Ids
    <3>. QED
      BY <1>f, <3>1 DEF Job
  <2>2. ThreadsOK'
    BY <1>2, <2>1, ServeTypes DEF TestStart, Steps, ThreadsOK
  <2>. QED
    BY <1>2, <2>2 DEF TestStart, TableOK, CachesOK, GhostsOK
<1>3. ASSUME NEW t \in Threads, NEW i \in Ids, Delete(t, i) PROVE TypeInv'
  <2>1. TableOK' /\ GhostsOK'
    BY <1>3, <1>f, TouchTypes DEF Delete
  <2>2. ThreadsOK'
    BY <1>3, <1>f, ServeTypes DEF Delete, Disturb, Steps, ThreadsOK
  <2>. QED
    BY <1>3, <2>1, <2>2 DEF Delete, CachesOK
<1>4. ASSUME NEW t \in Threads, NEW next \in {"look", "token"}, Begin(t, next) PROVE TypeInv'
  <2>1. [Free EXCEPT !.creds = Stored(Google), !.at = clock] \in Job
    BY <1>f, <1>s DEF Job, GhostsOK
  <2>2. ThreadsOK'
    BY <1>4, <2>1, ServeTypes DEF Begin, Steps, ThreadsOK
  <2>. QED
    BY <1>4, <2>2 DEF Begin, TableOK, CachesOK, GhostsOK
<1>5. ASSUME NEW t \in Threads, Merge(t) PROVE TypeInv'
  <2>. DEFINE c == job[t].creds
              d == IF c.secret = "none" THEN [c EXCEPT !.secret = Stored(job[t].slot).secret] ELSE c
              j == [job[t] EXCEPT !.id = Find(job[t].slot), !.creds = d]
  <2>1. c \in Creds /\ Stored(job[t].slot).secret \in Secrets \cup {"none"}
    BY <1>j, <1>s DEF Job, Creds
  <2>2. d \in Creds
    BY <2>1 DEF Creds
  <2>3. job' = [job EXCEPT ![t] = j]
    BY <1>5, <1>j DEF Merge, ThreadsOK
  <2>4. j \in Job
    <3>1. Find(job[t].slot) \in 0 .. MaxRows
      BY FindTypes
    <3>. HIDE DEF d
    <3>. QED
      BY <1>j, <2>2, <3>1 DEF Job
  <2>. HIDE DEF j
  <2>5. ThreadsOK'
    BY <1>5, <2>3, <2>4, GotoTypes DEF Merge, Steps, ThreadsOK
  <2>. QED
    BY <1>5, <2>5 DEF Merge, TableOK, CachesOK, GhostsOK
<1>6. ASSUME NEW t \in Threads, Insert(t) PROVE TypeInv'
  <2>1. job[t].slot \in Slots \cup {NoSlot} /\ job[t].creds \in Creds
    BY <1>j DEF Job
  <2>2. TableOK' /\ GhostsOK'
    BY <1>6, <2>1, TouchTypes DEF Insert
  <2>. DEFINE j == [job[t] EXCEPT !.id = NextId]
  <2>3. j \in Job /\ job' = [job EXCEPT ![t] = j]
    <3>1. NextId \in 0 .. MaxRows
      BY <1>6, ConnectionsAssumption DEF Insert, Ids
    <3>. QED
      BY <1>6, <1>j, <3>1 DEF Insert, Job, ThreadsOK
  <2>. HIDE DEF j
  <2>4. ThreadsOK'
    BY <1>6, <2>3, GotoTypes DEF Insert, Disturb, Steps, ThreadsOK
  <2>. QED
    BY <1>6, <2>2, <2>4 DEF Insert, CachesOK
<1>7. ASSUME NEW t \in Threads, Update(t) PROVE TypeInv'
  <2>1. job[t].creds \in Creds /\ job[t].id \in Ids /\ slot[job[t].id] \in Slots \cup {NoSlot}
    BY <1>7, <1>j DEF Update, Job, Used, TableOK
  <2>2. TableOK' /\ GhostsOK'
    BY <1>7, <2>1, TouchTypes DEF Update
  <2>3. ThreadsOK'
    BY <1>7, <1>j, GotoTypes DEF Update, Disturb, Steps, ThreadsOK
  <2>. QED
    BY <1>7, <2>2, <2>3 DEF Update, CachesOK
<1>8. ASSUME NEW t \in Threads, WriteFails(t) \/ FetchFails(t) \/ Die(t) PROVE TypeInv'
  <2>1. ThreadsOK'
    BY <1>8, ReleaseTypes DEF WriteFails, FetchFails, Die
  <2>. QED
    BY <1>8, <2>1 DEF WriteFails, FetchFails, Die, TableOK, CachesOK, GhostsOK
<1>9. ASSUME NEW t \in Threads, Probe(t) PROVE TypeInv'
  <2>. DEFINE j == [job[t] EXCEPT !.creds = Stored(job[t].slot)]
  <2>1. j \in Job /\ job' = [job EXCEPT ![t] = j]
    BY <1>9, <1>j, <1>s DEF Probe, Job, ThreadsOK
  <2>. HIDE DEF j
  <2>2. ThreadsOK'
    BY <1>9, <2>1, GotoTypes DEF Probe, Steps, ThreadsOK
  <2>. QED
    BY <1>9, <2>2 DEF Probe, TableOK, CachesOK, GhostsOK
<1>10. ASSUME NEW t \in Threads, Verdict(t) PROVE TypeInv'
  <2>1. ThreadsOK'
    BY <1>10, ReleaseTypes DEF Verdict
  <2>2. TableOK'
    BY <1>10 DEF Verdict, TableOK
  <2>3. doubt' \subseteq 0 .. MaxRows
    BY <1>10, <1>j DEF Verdict, GhostsOK, Job
  <2>. QED
    BY <1>10, <2>1, <2>2, <2>3 DEF Verdict, CachesOK, GhostsOK
<1>11. ASSUME NEW t \in Threads, NEW c \in Creds, Show(t, c), UNCHANGED <<doubt, lostAt, clock>>
       PROVE  ThreadsOK' /\ GhostsOK'
  <2>1. ThreadsOK'
    BY <1>11, ReleaseTypes DEF Show
  <2>2. clock - lostAt[c] \in Nat
    BY ConnectionsAssumption DEF GhostsOK
  <2>. QED
    BY <1>11, <2>1, <2>2 DEF Show, GhostsOK
<1>12. ASSUME NEW t \in Threads, Hit(t) PROVE TypeInv'
  <2>1. PICK e \in Hits(overviews, job[t].creds.site) : Show(t, e.of)
    BY <1>12 DEF Hit
  <2>2. e.of \in Creds
    <3>1. PICK i \in DOMAIN overviews : e = overviews[i]
      BY <2>1 DEF Hits, ToSet
    <3>2. overviews[i] \in Overview
      BY ElementOfSeq, LenProperties DEF CachesOK
    <3>. QED
      BY <3>1, <3>2 DEF Overview
  <2>. QED
    BY <1>11, <1>12, <2>1, <2>2 DEF Hit, TableOK, CachesOK
<1>13. ASSUME NEW t \in Threads, Miss(t) PROVE TypeInv'
  <2>1. ThreadsOK'
    BY <1>13, <1>j, GotoTypes DEF Miss, Steps, ThreadsOK
  <2>. QED
    BY <1>13, <2>1 DEF Miss, TableOK, CachesOK, GhostsOK
<1>14. ASSUME NEW t \in Threads, Token(t) PROVE TypeInv'
  <2>1. ThreadsOK'
    BY <1>14, <1>j, GotoTypes DEF Token, Steps, ThreadsOK
  <2>2. [key |-> job[t].creds.secret, until |-> clock + TokenTtl] \in Access
    BY <1>j, ConnectionsAssumption DEF Access, Job, Creds, GhostsOK
  <2>3. CachesOK'
    BY <1>14, <2>2, PutTypes DEF Token, CachesOK, Bounded
  <2>. QED
    BY <1>14, <2>1, <2>3 DEF Token, TableOK, GhostsOK
<1>15. ASSUME NEW t \in Threads, Fetch(t) PROVE TypeInv'
  <2>1. job[t].creds \in Creds
    BY <1>j DEF Job
  <2>2. [key |-> job[t].creds.site, of |-> job[t].creds, until |-> clock + OverviewTtl] \in Overview
    BY <2>1, ConnectionsAssumption DEF Overview, Creds, GhostsOK
  <2>3. CachesOK'
    BY <1>15, <2>2, PutTypes DEF Fetch, CachesOK, Bounded
  <2>. QED
    BY <1>11, <1>15, <2>1, <2>3 DEF Fetch, TableOK
<1>16. CASE Tick
  BY <1>16, ConnectionsAssumption DEF Tick, TableOK, CachesOK, ThreadsOK, GhostsOK
<1>17. CASE UNCHANGED vars
  BY <1>17 DEF vars, TableOK, CachesOK, ThreadsOK, GhostsOK
<1>. QED
  BY <1>1, <1>2, <1>3, <1>4, <1>5, <1>6, <1>7, <1>8, <1>9, <1>10, <1>12, <1>13, <1>14, <1>15,
     <1>16, <1>17
     DEF Next, Arrive, Work, AskOverview, Refresh

LEMMA TypeInvariant == Spec => []TypeInv
BY InitTypes, NextTypes, PTL DEF Spec

\* Types are kept, for any slots, accounts and threads.
THEOREM ConnectionsTypeCorrect == Spec => []ConnectionsTypeOK
BY TypeInvariant, TypesMeanOK, PTL

\* _cache_put bounds both caches and never stores a key twice, whatever order
\* the fetches end in.
THEOREM CachesAreBoundedCorrect == Spec => []CachesAreBounded
BY TypeInvariant, TypesMeanOK, PTL

-----------------------------------------------------------------------------
(* Verdicts. A handler that saw nobody else write still works on the row it *)
(* found, and what it tests is what that slot holds.                        *)

StatusInv ==
  /\ StatusIsOfStored
  /\ \A t \in Threads \ raced :
       /\ pc[t] \in {"write", "probe", "verdict"} /\ job[t].id \in Used =>
            slot[job[t].id] = job[t].slot
       /\ pc[t] = "verdict" => job[t].creds = Stored(job[t].slot)

\* Steps that write no row and bring no handler nearer to a verdict.
LEMMA StatusStays ==
  ASSUME StatusInv, UNCHANGED table, doubt' = doubt,
         \A t \in Threads : pc'[t] \in {"write", "probe", "verdict"} =>
           pc'[t] = pc[t] /\ job'[t] = job[t] /\ (t \in raced => t \in raced')
  PROVE  StatusInv'
<1>1. StatusIsOfStored' /\ Used' = Used
  BY DEF StatusInv, StatusIsOfStored, Used, table
<1>2. \A s : Stored(s)' = Stored(s)
  BY DEF Stored, Find, Rows, table
<1>3. slot' = slot
  BY DEF table
<1>4. ASSUME NEW u \in Threads \ raced'
      PROVE  /\ pc'[u] \in {"write", "probe", "verdict"} /\ job'[u].id \in Used =>
                  slot[job'[u].id] = job'[u].slot
             /\ pc'[u] = "verdict" => job'[u].creds = Stored(job'[u].slot)
  BY <1>4 DEF StatusInv
<1>. QED
  BY <1>1, <1>2, <1>3, <1>4 DEF StatusInv

\* A step of t that writes no row and keeps what is known of its job.
LEMMA OneMoves ==
  ASSUME StatusInv, NEW t \in Threads, UNCHANGED <<table, doubt, raced>>,
         \A u \in Threads \ {t} : pc'[u] = pc[u] /\ job'[u] = job[u],
         pc'[t] \in {"write", "probe", "verdict"} /\ job'[t].id \in Used /\ t \notin raced =>
           slot[job'[t].id] = job'[t].slot,
         pc'[t] = "verdict" /\ t \notin raced => job'[t].creds = Stored(job'[t].slot)
  PROVE  StatusInv'
<1>1. StatusIsOfStored' /\ Used' = Used
  BY DEF StatusInv, StatusIsOfStored, Used, table
<1>2. \A s : Stored(s)' = Stored(s)
  BY DEF Stored, Find, Rows, table
<1>3. slot' = slot /\ raced' = raced
  BY DEF table
<1>4. ASSUME NEW u \in Threads \ raced
      PROVE  /\ pc'[u] \in {"write", "probe", "verdict"} /\ job'[u].id \in Used =>
                  slot[job'[u].id] = job'[u].slot
             /\ pc'[u] = "verdict" => job'[u].creds = Stored(job'[u].slot)
  BY <1>4 DEF StatusInv
<1>. QED
  BY <1>1, <1>2, <1>3, <1>4 DEF StatusInv

\* A write by t: all others that are at work have been disturbed.
LEMMA TouchStatus ==
  ASSUME TypeInv, StatusInv, NEW t \in Threads, NEW i \in Ids, NEW s, NEW c, NEW st,
         Touch(i, s, c, st), Disturb(t), st = "pending",
         \A u \in Threads \ {t} : pc'[u] = pc[u] /\ job'[u] = job[u],
         pc'[t] # "verdict",
         pc'[t] \in {"write", "probe"} => job'[t].id = i /\ (t \notin raced => s = job'[t].slot)
  PROVE  StatusInv'
<1>1. /\ slot' = [slot EXCEPT ![i] = s] /\ slot \in [Ids -> Slots \cup {NoSlot}]
      /\ state' = [state EXCEPT ![i] = "pending"] /\ state \in [Ids -> {"pending", "connected", "error"}]
      /\ creds' = [creds EXCEPT ![i] = c] /\ creds \in [Ids -> Creds]
      /\ doubt' = doubt \ {i}
  BY DEF Touch, TypeInv, TableOK
<1>2. StatusIsOfStored'
  BY <1>1 DEF StatusInv, StatusIsOfStored, Used, Works
<1>3. raced' = raced \cup {u \in Threads \ {t} : pc[u] # "idle"}
  BY DEF Disturb
<1>4. \A u \in Threads \ raced' : pc'[u] \in {"write", "probe", "verdict"} =>
        u = t /\ t \notin raced
  BY <1>3
<1>5. slot'[i] = s
  BY <1>1
<1>. QED
  BY <1>2, <1>4, <1>5 DEF StatusInv

LEMMA NextStatus == TypeInv /\ StatusInv /\ [Next]_vars => StatusInv'
<1> SUFFICES ASSUME TypeInv, StatusInv, [Next]_vars PROVE StatusInv'
  OBVIOUS
<1> USE DEF table, caches
<1>1. ASSUME NEW t \in Threads, NEW s \in Slots,
             NEW c \in [site : Sites, secret : Secrets \cup {"none"}], SaveStart(t, s, c)
      PROVE  StatusInv'
  BY <1>1, StatusStays DEF SaveStart, Serve, TypeInv, ThreadsOK
<1>2. ASSUME NEW t \in Threads, NEW i \in Ids, TestStart(t, i) PROVE StatusInv'
  <2>1. job'[t].id = i /\ job'[t].slot = slot[i] /\ pc'[t] = "probe"
        /\ \A u \in Threads \ {t} : pc'[u] = pc[u] /\ job'[u] = job[u]
    BY <1>2 DEF TestStart, Serve, Free, TypeInv, ThreadsOK
  <2>. QED
    BY <1>2, <2>1, OneMoves DEF TestStart
<1>3. ASSUME NEW t \in Threads, NEW i \in Ids, Delete(t, i) PROVE StatusInv'
  BY <1>3, TouchStatus DEF Delete, Serve, TypeInv, ThreadsOK
<1>4. ASSUME NEW t \in Threads, NEW next \in {"look", "token"}, Begin(t, next)
      PROVE  StatusInv'
  BY <1>4, StatusStays DEF Begin, Serve, TypeInv, ThreadsOK
<1>5. ASSUME NEW t \in Threads, Merge(t) PROVE StatusInv'
  <2>1. job'[t].id = Find(job[t].slot) /\ job'[t].slot = job[t].slot /\ pc'[t] = "write"
        /\ \A u \in Threads \ {t} : pc'[u] = pc[u] /\ job'[u] = job[u]
    BY <1>5 DEF Merge, Goto, TypeInv, ThreadsOK, Job
  <2>2. Find(job[t].slot) \in Used => slot[Find(job[t].slot)] = job[t].slot
    <3>1. CASE Rows(job[t].slot) = {}
      BY <3>1 DEF Find, Used, Ids
    <3>2. CASE Rows(job[t].slot) # {}
      BY <3>2, FindIsRow DEF Rows
    <3>. QED
      BY <3>1, <3>2
  <2>3. UNCHANGED <<table, raced, doubt>>
    BY <1>5 DEF Merge
  <2>. QED
    BY <2>1, <2>2, <2>3, OneMoves
<1>6. ASSUME NEW t \in Threads, Insert(t) PROVE StatusInv'
  <2>1. job'[t].id = NextId /\ job'[t].slot = job[t].slot /\ pc'[t] = "probe"
        /\ \A u \in Threads \ {t} : pc'[u] = pc[u] /\ job'[u] = job[u]
    BY <1>6 DEF Insert, Goto, TypeInv, ThreadsOK, Job
  <2>. QED
    BY <1>6, <2>1, TouchStatus DEF Insert
<1>7. ASSUME NEW t \in Threads, Update(t) PROVE StatusInv'
  <2>1. job' = job /\ pc'[t] = "probe" /\ \A u \in Threads \ {t} : pc'[u] = pc[u]
    BY <1>7 DEF Update, Goto, TypeInv, ThreadsOK
  <2>2. job[t].id \in Ids /\ (t \notin raced => slot[job[t].id] = job[t].slot)
    BY <1>7 DEF Update, Used, StatusInv
  <2>. QED
    BY <1>7, <2>1, <2>2, TouchStatus DEF Update
<1>8. ASSUME NEW t \in Threads, Release(t), UNCHANGED <<table, doubt>> PROVE StatusInv'
  BY <1>8, StatusStays DEF Release, Goto, TypeInv, ThreadsOK
<1>9. ASSUME NEW t \in Threads, Probe(t) PROVE StatusInv'
  <2>1. /\ job'[t].id = job[t].id /\ job'[t].slot = job[t].slot
        /\ job'[t].creds = Stored(job[t].slot) /\ pc[t] = "probe" /\ pc'[t] = "verdict"
        /\ \A u \in Threads \ {t} : pc'[u] = pc[u] /\ job'[u] = job[u]
    BY <1>9 DEF Probe, Goto, TypeInv, ThreadsOK, Job
  <2>2. UNCHANGED <<table, raced, doubt>>
    BY <1>9 DEF Probe
  <2>3. job[t].id \in Used /\ t \notin raced => slot[job[t].id] = job[t].slot
    BY <2>1 DEF StatusInv
  <2>. QED
    BY <2>1, <2>2, <2>3, OneMoves
<1>10. ASSUME NEW t \in Threads, Verdict(t) PROVE StatusInv'
  <2>. DEFINE i == job[t].id
  <2>1. /\ pc[t] = "verdict" /\ UNCHANGED <<slot, creds>> /\ raced' = raced \ {t}
        /\ pc'[t] = "idle" /\ \A u \in Threads \ {t} : pc'[u] = pc[u] /\ job'[u] = job[u]
    BY <1>10 DEF Verdict, Release, Goto, TypeInv, ThreadsOK
  <2>2. PICK ok \in {Works(job[t].creds), FALSE} :
          state' = IF i \in Used THEN [state EXCEPT ![i] = IF ok THEN "connected" ELSE "error"]
                   ELSE state
    <3>1. {Works(job[t].creds)} \cup (IF MayFail THEN {FALSE} ELSE {}) \subseteq {Works(job[t].creds), FALSE}
      OBVIOUS
    <3>. QED
      BY <1>10, <3>1 DEF Verdict
  <2>3. doubt' = IF t \in raced \/ (i \in Used /\ Rows(slot[i]) # {i})
                 THEN doubt \cup {i} ELSE doubt \ {i}
    BY <1>10 DEF Verdict
  <2>4. \A j \in Used : j # i => state'[j] = state[j] /\ (j \in doubt' <=> j \in doubt)
    BY <2>2, <2>3 DEF TypeInv, TableOK, Used
  <2>5. ASSUME i \in Used \ doubt', state'[i] = "connected" PROVE Works(creds[i])
    <3>1. t \notin raced /\ Rows(slot[i]) = {i}
      BY <2>3, <2>5
    <3>2. job[t].creds = Stored(job[t].slot) /\ job[t].slot = slot[i]
      BY <2>1, <2>5, <3>1 DEF StatusInv
    <3>3. Find(slot[i]) = i /\ i # 0
      BY <2>5, <3>1, OnlyRowIsFound DEF Used, Ids
    <3>4. job[t].creds = creds[i]
      BY <3>2, <3>3 DEF Stored
    <3>5. ok
      BY <2>2, <2>5 DEF TypeInv, TableOK, Used
    <3>. QED
      BY <2>2, <3>4, <3>5
  <2>6. StatusIsOfStored'
    BY <2>1, <2>4, <2>5 DEF StatusInv, StatusIsOfStored, Used
  <2>. QED
    BY <2>1, <2>6 DEF StatusInv, Used, Stored, Find, Rows
<1>11. ASSUME NEW t \in Threads,
              Hit(t) \/ Fetch(t) \/ FetchFails(t) \/ WriteFails(t) \/ Die(t)
       PROVE  StatusInv'
  BY <1>8, <1>11 DEF Hit, Fetch, Show, FetchFails, WriteFails, Die
<1>12. ASSUME NEW t \in Threads, Miss(t) \/ Token(t) PROVE StatusInv'
  BY <1>12, StatusStays DEF Miss, Token, Goto, TypeInv, ThreadsOK
<1>13. CASE Tick \/ UNCHANGED vars
  BY <1>13, StatusStays DEF Tick, vars
<1>. QED
  BY <1>1, <1>2, <1>3, <1>4, <1>5, <1>6, <1>7, <1>9, <1>10, <1>11, <1>12, <1>13
     DEF Next, Arrive, Work, AskOverview, Refresh

\* For any slots, accounts and threads: a connection shown as connected holds
\* credentials its service accepted, unless its status is in doubt.
THEOREM StatusIsOfStoredCorrect == Spec => []StatusIsOfStored
<1>1. Init => StatusInv
  BY ConnectionsAssumption
     DEF Init, InitTable, StatusInv, StatusIsOfStored, Used, Works
<1>2. StatusInv => StatusIsOfStored
  BY DEF StatusInv
<1>. QED
  BY <1>1, <1>2, NextStatus, TypeInvariant, PTL DEF Spec
-----------------------------------------------------------------------------
(* Lost accounts. An overview that is cached, or about to be, is of the     *)
(* account that is stored or of one that was lost late enough.              *)

Fetching == {"look", "token", "fetch"}

CachedInTime == \A o \in ToSet(overviews) :
  /\ o.until <= clock + OverviewTtl
  /\ o.of = Stored(Google) \/ o.until <= lostAt[o.of] + OverviewTtl + MaxFetch

FetchedInTime == \A t \in Threads : pc[t] \in Fetching =>
  /\ job[t].at <= clock /\ clock <= job[t].at + MaxFetch
  /\ job[t].creds = Stored(Google) \/ job[t].at <= lostAt[job[t].creds]

FadesInv == OldAccountFades /\ CachedInTime /\ FetchedInTime

LEMMA OverviewTypes == TypeInv => \A o \in ToSet(overviews) : o.of \in Creds /\ o.until \in Nat
<1> SUFFICES ASSUME TypeInv, NEW o \in ToSet(overviews) PROVE o.of \in Creds /\ o.until \in Nat
  OBVIOUS
<1>1. PICK i \in DOMAIN overviews : o = overviews[i]
  BY DEF ToSet
<1>2. overviews[i] \in Overview
  BY ElementOfSeq, LenProperties DEF TypeInv, CachesOK
<1>. QED
  BY <1>1, <1>2 DEF Overview

LEMMA JobTypes == TypeInv => \A t \in Threads : job[t].creds \in Creds /\ job[t].at \in Nat
BY ConnectionsAssumption DEF TypeInv, ThreadsOK, Job

\* Steps that neither write a row nor touch the overviews, and begin no fetch.
LEMMA FadesStays ==
  ASSUME FadesInv, UNCHANGED table, overviews' = overviews, clock' = clock, lostAt' = lostAt,
         served' = served,
         \A t \in Threads : pc'[t] \in Fetching => pc[t] \in Fetching /\ job'[t] = job[t]
  PROVE  FadesInv'
<1>1. Stored(Google)' = Stored(Google)
  BY DEF Stored, Find, Rows, table
<1>. QED
  BY <1>1 DEF FadesInv, OldAccountFades, CachedInTime, FetchedInTime

\* A write may take the account of Google away, and notes when.
LEMMA TouchFades ==
  ASSUME TypeInv, FadesInv, NEW i, NEW s, NEW c, NEW st, Touch(i, s, c, st),
         UNCHANGED <<overviews, clock, served>>,
         \A t \in Threads : pc'[t] \in Fetching => pc[t] \in Fetching /\ job'[t] = job[t]
  PROVE  FadesInv'
<1>. DEFINE old == Stored(Google)
            new == Stored(Google)'
<1>1. lostAt' = IF new = old THEN lostAt ELSE [lostAt EXCEPT ![old] = clock]
  BY DEF Touch
<1>2. /\ old \in Creds /\ clock \in Nat /\ lostAt \in [Creds -> Nat]
      /\ \A d \in Creds : lostAt[d] <= clock
      /\ OverviewTtl \in Nat /\ MaxFetch \in Nat
  BY StoredTypes, ConnectionsAssumption DEF TypeInv, GhostsOK
<1>. HIDE DEF old, new
<1>3. \A d \in Creds : lostAt[d] <= lostAt'[d] /\ lostAt'[d] \in Nat
  BY <1>1, <1>2
<1>4. \A d \in Creds : d = old => d = new \/ lostAt'[d] = clock
  BY <1>1, <1>2
<1>5. CachedInTime'
  <2>1. ASSUME NEW o \in ToSet(overviews)
        PROVE  /\ o.until <= clock + OverviewTtl
               /\ o.of = new \/ o.until <= lostAt'[o.of] + OverviewTtl + MaxFetch
    <3>1. /\ o.of \in Creds /\ o.until \in Nat /\ o.until <= clock + OverviewTtl
          /\ o.of = old \/ o.until <= lostAt[o.of] + OverviewTtl + MaxFetch
      BY OverviewTypes DEF FadesInv, CachedInTime, old
    <3>2. lostAt[o.of] \in Nat /\ lostAt'[o.of] \in Nat /\ lostAt[o.of] <= lostAt'[o.of]
      BY <1>2, <1>3, <3>1
    <3>3. o.of = old => o.of = new \/ lostAt'[o.of] = clock
      BY <1>4, <3>1
    <3>. QED
      BY <1>2, <3>1, <3>2, <3>3
  <2>. QED
    BY <2>1 DEF CachedInTime, new
<1>6. FetchedInTime'
  <2>1. ASSUME NEW t \in Threads, pc[t] \in Fetching
        PROVE  /\ job[t].at <= clock /\ clock <= job[t].at + MaxFetch
               /\ job[t].creds = new \/ job[t].at <= lostAt'[job[t].creds]
    <3>1. /\ job[t].creds \in Creds /\ job[t].at \in Nat
          /\ job[t].at <= clock /\ clock <= job[t].at + MaxFetch
          /\ job[t].creds = old \/ job[t].at <= lostAt[job[t].creds]
      BY <2>1, JobTypes DEF FadesInv, FetchedInTime, old
    <3>2. lostAt[job[t].creds] \in Nat /\ lostAt'[job[t].creds] \in Nat
          /\ lostAt[job[t].creds] <= lostAt'[job[t].creds]
      BY <1>2, <1>3, <3>1
    <3>3. job[t].creds = old => job[t].creds = new \/ lostAt'[job[t].creds] = clock
      BY <1>4, <3>1
    <3>. QED
      BY <1>2, <3>1, <3>2, <3>3
  <2>. QED
    BY <2>1 DEF FetchedInTime, new
<1>. QED
  BY <1>5, <1>6 DEF FadesInv, OldAccountFades

\* An overview that is shown, from the cache or as fetched.
LEMMA ShowFades ==
  ASSUME TypeInv, FadesInv, NEW t \in Threads, NEW c \in Creds, Show(t, c), UNCHANGED table,
         UNCHANGED <<clock, lostAt>>, CachedInTime',
         c = Stored(Google) \/ clock < lostAt[c] + OverviewTtl + MaxFetch
  PROVE  FadesInv'
<1>1. Stored(Google)' = Stored(Google)
  BY DEF Stored, Find, Rows, table
<1>2. clock \in Nat /\ lostAt[c] \in Nat /\ OverviewTtl \in Nat /\ MaxFetch \in Nat
  BY ConnectionsAssumption DEF TypeInv, GhostsOK
<1>3. OldAccountFades'
  <2>1. served'.lost = (c # Stored(Google)) /\ served'.after = clock - lostAt[c]
    BY DEF Show
  <2>2. c # Stored(Google) => clock - lostAt[c] < OverviewTtl + MaxFetch
    BY <1>2
  <2>. QED
    BY <2>1, <2>2 DEF OldAccountFades
<1>4. \A u \in Threads : pc'[u] \in Fetching => pc[u] \in Fetching /\ job'[u] = job[u]
  BY DEF Show, Release, Goto, Fetching, TypeInv, ThreadsOK
<1>5. FetchedInTime'
  BY <1>1, <1>4 DEF FadesInv, FetchedInTime
<1>. QED
  BY <1>3, <1>5 DEF FadesInv

LEMMA NextFades == TypeInv /\ FadesInv /\ [Next]_vars => FadesInv'
<1> SUFFICES ASSUME TypeInv, FadesInv, [Next]_vars PROVE FadesInv'
  OBVIOUS
<1> USE DEF caches
<1>1. ASSUME NEW t \in Threads, NEW s \in Slots,
             NEW c \in [site : Sites, secret : Secrets \cup {"none"}], SaveStart(t, s, c)
      PROVE  FadesInv'
  BY <1>1, FadesStays DEF SaveStart, Serve, Fetching, TypeInv, ThreadsOK
<1>2. ASSUME NEW t \in Threads, NEW i \in Ids, TestStart(t, i) PROVE FadesInv'
  BY <1>2, FadesStays DEF TestStart, Serve, Fetching, TypeInv, ThreadsOK
<1>3. ASSUME NEW t \in Threads, NEW i \in Ids, Delete(t, i) PROVE FadesInv'
  BY <1>3, TouchFades DEF Delete, Serve, Fetching, TypeInv, ThreadsOK
<1>4. ASSUME NEW t \in Threads, NEW next \in Fetching, Begin(t, next) PROVE FadesInv'
  <2>1. Stored(Google)' = Stored(Google)
    BY <1>4 DEF Begin, Stored, Find, Rows, table
  <2>2. /\ pc' = [pc EXCEPT ![t] = next]
        /\ job' = [job EXCEPT ![t] = [Free EXCEPT !.creds = Stored(Google), !.at = clock]]
    BY <1>4 DEF Begin, Serve
  <2>3. \A u \in Threads \ {t} : pc'[u] = pc[u] /\ job'[u] = job[u]
    BY <2>2 DEF TypeInv, ThreadsOK
  <2>4. job'[t].creds = Stored(Google) /\ job'[t].at = clock
    BY <2>2 DEF TypeInv, ThreadsOK, Free
  <2>5. clock \in Nat /\ MaxFetch \in Nat /\ UNCHANGED <<overviews, clock, lostAt, served>>
    BY <1>4, ConnectionsAssumption DEF Begin, TypeInv, GhostsOK
  <2>6. FetchedInTime'
    BY <2>1, <2>3, <2>4, <2>5 DEF FadesInv, FetchedInTime
  <2>. QED
    BY <2>1, <2>5, <2>6 DEF FadesInv, OldAccountFades, CachedInTime
<1>5. ASSUME NEW t \in Threads, Merge(t) \/ Probe(t) PROVE FadesInv'
  BY <1>5, FadesStays DEF Merge, Probe, Goto, Fetching, TypeInv, ThreadsOK
<1>6. ASSUME NEW t \in Threads, Insert(t) PROVE FadesInv'
  BY <1>6, TouchFades DEF Insert, Goto, Fetching, TypeInv, ThreadsOK
<1>7. ASSUME NEW t \in Threads, Update(t) PROVE FadesInv'
  BY <1>7, TouchFades DEF Update, Goto, Fetching, TypeInv, ThreadsOK
<1>8. ASSUME NEW t \in Threads, WriteFails(t) \/ FetchFails(t) \/ Die(t) PROVE FadesInv'
  BY <1>8, FadesStays
     DEF WriteFails, FetchFails, Die, Release, Goto, Fetching, TypeInv, ThreadsOK
<1>9. ASSUME NEW t \in Threads, Verdict(t) PROVE FadesInv'
  <2>1. Stored(Google)' = Stored(Google)
    BY <1>9 DEF Verdict, Stored, Find, Rows
  <2>2. \A u \in Threads : pc'[u] \in Fetching => pc[u] \in Fetching /\ job'[u] = job[u]
    BY <1>9 DEF Verdict, Release, Goto, Fetching, TypeInv, ThreadsOK
  <2>3. UNCHANGED <<overviews, clock, lostAt, served>>
    BY <1>9 DEF Verdict
  <2>. QED
    BY <2>1, <2>2, <2>3 DEF FadesInv, OldAccountFades, CachedInTime, FetchedInTime
<1>10. ASSUME NEW t \in Threads, Hit(t) PROVE FadesInv'
  <2>1. PICK e \in Hits(overviews, job[t].creds.site) : Show(t, e.of)
    BY <1>10 DEF Hit
  <2>2. /\ e \in ToSet(overviews) /\ e.until > clock /\ e.of \in Creds /\ e.until \in Nat
        /\ e.of = Stored(Google) \/ e.until <= lostAt[e.of] + OverviewTtl + MaxFetch
    BY <2>1, OverviewTypes DEF Hits, FadesInv, CachedInTime
  <2>3. clock \in Nat /\ lostAt[e.of] \in Nat /\ OverviewTtl \in Nat /\ MaxFetch \in Nat
    BY <2>2, ConnectionsAssumption DEF TypeInv, GhostsOK
  <2>4. UNCHANGED <<table, overviews, clock, lostAt>> /\ Stored(Google)' = Stored(Google)
    BY <1>10 DEF Hit, Stored, Find, Rows, table
  <2>5. CachedInTime'
    BY <2>4 DEF FadesInv, CachedInTime
  <2>6. e.of = Stored(Google) \/ clock < lostAt[e.of] + OverviewTtl + MaxFetch
    BY <2>2, <2>3
  <2>. QED
    BY <2>1, <2>2, <2>4, <2>5, <2>6, ShowFades
<1>11. ASSUME NEW t \in Threads, Miss(t) \/ Token(t) PROVE FadesInv'
  BY <1>11, FadesStays DEF Miss, Token, Goto, Fetching, TypeInv, ThreadsOK
<1>12. ASSUME NEW t \in Threads, Fetch(t) PROVE FadesInv'
  <2>. DEFINE c == job[t].creds
              e == [key |-> c.site, of |-> c, until |-> clock + OverviewTtl]
  <2>1. /\ c \in Creds /\ job[t].at \in Nat /\ job[t].at <= clock /\ clock <= job[t].at + MaxFetch
        /\ c = Stored(Google) \/ job[t].at <= lostAt[c]
    BY <1>12, JobTypes DEF Fetch, Fetching, FadesInv, FetchedInTime
  <2>2. /\ clock \in Nat /\ lostAt[c] \in Nat /\ OverviewTtl \in Nat \ {0} /\ MaxFetch \in Nat
    BY <2>1, ConnectionsAssumption DEF TypeInv, GhostsOK
  <2>3. c = Stored(Google) \/ clock < lostAt[c] + OverviewTtl + MaxFetch
    BY <2>1, <2>2
  <2>4. /\ UNCHANGED <<table, clock, lostAt>> /\ Stored(Google)' = Stored(Google)
        /\ overviews' = Put(overviews, e) /\ Show(t, c)
    BY <1>12 DEF Fetch, Stored, Find, Rows, table
  <2>5. e.of = c /\ e.until = clock + OverviewTtl /\ e \in Overview
    BY <2>1, <2>2 DEF Overview, Creds
  <2>. HIDE DEF e, c
  <2>6. \A x \in ToSet(overviews') : x = e \/ x \in ToSet(overviews)
    BY <2>4, <2>5, PutTypes DEF TypeInv, CachesOK
  <2>7. e.until <= lostAt[c] + OverviewTtl + MaxFetch \/ c = Stored(Google)
    BY <2>2, <2>3, <2>1, <2>5 DEF c
  <2>8. CachedInTime'
    BY <2>2, <2>4, <2>5, <2>6, <2>7 DEF FadesInv, CachedInTime
  <2>. QED
    BY <2>1, <2>3, <2>4, <2>8, ShowFades
<1>13. CASE Tick
  <2>1. /\ clock' = clock + 1 /\ clock \in Nat /\ OverviewTtl \in Nat /\ MaxFetch \in Nat
        /\ UNCHANGED <<overviews, lostAt, served, pc, job>> /\ Stored(Google)' = Stored(Google)
        /\ \A t \in Threads : pc[t] \in Fetching => clock < job[t].at + MaxFetch
    BY <1>13, ConnectionsAssumption
       DEF Tick, Fetching, TypeInv, GhostsOK, Stored, Find, Rows, table
  <2>2. CachedInTime'
    BY <2>1, OverviewTypes DEF FadesInv, CachedInTime
  <2>3. FetchedInTime'
    BY <2>1, JobTypes DEF FadesInv, FetchedInTime
  <2>. QED
    BY <2>1, <2>2, <2>3 DEF FadesInv, OldAccountFades
<1>14. CASE UNCHANGED vars
  BY <1>14, FadesStays DEF vars
<1>. QED
  BY <1>1, <1>2, <1>3, <1>4, <1>5, <1>6, <1>7, <1>8, <1>9, <1>10, <1>11, <1>12, <1>13, <1>14
     DEF Next, Arrive, Work, AskOverview, Refresh, Fetching

\* For any accounts, threads and times: what an account that was replaced or
\* disconnected had seen is no longer served once an entry's life and one fetch
\* have passed.
THEOREM OldAccountFadesCorrect == Spec => []OldAccountFades
<1>1. Init => FadesInv
  BY DEF Init, FadesInv, OldAccountFades, CachedInTime, FetchedInTime, Fetching, ToSet
<1>2. FadesInv => OldAccountFades
  BY DEF FadesInv
<1>. QED
  BY <1>1, <1>2, NextFades, TypeInvariant, PTL DEF Spec
===============================================================================
