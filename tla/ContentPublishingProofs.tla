------------------------ MODULE ContentPublishingProofs ------------------------
(***************************************************************************)
(* Proofs about ContentPublishing, for any drafts, requests, posts and     *)
(* threads.                                                                *)
(***************************************************************************)
EXTENDS ContentPublishing, FiniteSetTheorems, SequenceTheorems, TLAPS

-----------------------------------------------------------------------------
(* Types, in parts: the drafts, the requests, the site, the threads.       *)

DraftsOK ==
  /\ dstatus \in [Drafts -> Stored \cup {"none", "deleted"}]
  /\ text \in [Drafts -> Nat]
  /\ link \in [Drafts -> Posts \cup {NoPost}]
  /\ score \in [Drafts -> Nat]
  /\ audits \in Seq([draft : Drafts, text : Nat])
  /\ tracked \subseteq Drafts
  /\ claimed \subseteq Drafts
  /\ site \in [Drafts -> Sites]
  /\ moved \subseteq Drafts

RequestsOK ==
  /\ rstate \in [Requests -> {"none", "pending", "confirming", "closed", "approved",
                              "executed", "failed"}]
  /\ kind \in [Requests -> Kind]
  /\ about \in [Requests -> Drafts \cup {NoDraft}]
  /\ count \in [Requests -> Nat]
  /\ given \in [Requests -> Nat]

SiteOK ==
  /\ post \in [Posts -> {"none", "draft", "publish"}]
  /\ felt \in [Requests -> Nat]
  /\ owner \in [Posts -> Drafts \cup {NoDraft}]
  /\ publisher \in [Posts -> SUBSET Requests]

ReadType == [count : Nat, link : Posts \cup {NoPost}, site : Sites \cup {NoSite}, text : Nat]

ThreadsOK ==
  /\ pc \in [Threads -> Steps]
  /\ req \in [Threads -> Requests \cup {NoRequest}]
  /\ draft \in [Threads -> Drafts \cup {NoDraft}]
  /\ read \in [Threads -> ReadType]
  /\ got \in [Threads -> Posts \cup {NoPost}]
  /\ calls \in 0 .. MaxCalls

\* What a thread works on is there: its request was asked for, its draft was
\* read or inserted, and the site named the post it is about to store.
Aims(t, n, q, d, g) ==
  /\ q # NoRequest => rstate[q] # "none"
  /\ n \notin {"idle", "audit", "score"} => q # NoRequest
  /\ n \in {"audit", "score", "track", "call", "keep", "drop"} => d \in Drafts
  /\ n = "keep" => g \in Posts
AimsOK == \A t \in Threads : Aims(t, pc[t], req[t], draft[t], got[t])

TypeInv == DraftsOK /\ RequestsOK /\ SiteOK /\ ThreadsOK /\ AimsOK

LEMMA TypesMeanOK == TypeInv => ContentTypeOK
BY DEF TypeInv, DraftsOK, RequestsOK, SiteOK, ThreadsOK, ReadType, ContentTypeOK

LEMMA InitTypes == Init => TypeInv
<1> SUFFICES ASSUME Init PROVE TypeInv
  OBVIOUS
<1>1. DraftsOK
  BY ContentAssumption DEF Init, DraftsOK, Stored
<1>2. RequestsOK /\ SiteOK
  BY DEF Init, RequestsOK, SiteOK, Kind
<1>3. ThreadsOK /\ AimsOK
  BY ContentAssumption DEF Init, ThreadsOK, AimsOK, Aims, ReadType, Nothing, Steps
<1>. QED
  BY <1>1, <1>2, <1>3 DEF TypeInv

\* One step of one thread, as its program counter and locals see it.
Moves(t, n, q, d, x, g) ==
  /\ pc' = [pc EXCEPT ![t] = n]
  /\ req' = [req EXCEPT ![t] = q]
  /\ draft' = [draft EXCEPT ![t] = d]
  /\ read' = [read EXCEPT ![t] = x]
  /\ got' = [got EXCEPT ![t] = g]

LEMMA MoveTypes ==
  ASSUME ThreadsOK, AimsOK, RequestsOK, NEW t \in Threads, NEW n \in Steps,
         NEW q \in Requests \cup {NoRequest}, NEW d \in Drafts \cup {NoDraft},
         NEW x \in ReadType, NEW g \in Posts \cup {NoPost},
         Moves(t, n, q, d, x, g), calls' \in 0 .. MaxCalls,
         \A r \in Requests : rstate[r] # "none" => rstate'[r] # "none",
         Aims(t, n, q, d, g)
  PROVE  ThreadsOK' /\ AimsOK'
<1>1. ThreadsOK'
  BY DEF ThreadsOK, Moves
<1>2. ASSUME NEW u \in Threads PROVE Aims(u, pc[u], req[u], draft[u], got[u])'
  <2>1. CASE u = t
    <3>1. pc'[t] = n /\ req'[t] = q /\ draft'[t] = d /\ got'[t] = g
      BY DEF ThreadsOK, Moves
    <3>. QED
      BY <2>1, <3>1, ContentAssumption DEF Aims
  <2>2. CASE u # t
    <3>1. pc'[u] = pc[u] /\ req'[u] = req[u] /\ draft'[u] = draft[u] /\ got'[u] = got[u]
      BY <2>2 DEF ThreadsOK, Moves
    <3>2. req[u] \in Requests \cup {NoRequest} /\ Aims(u, pc[u], req[u], draft[u], got[u])
      BY DEF ThreadsOK, AimsOK
    <3>. QED
      BY <3>1, <3>2, ContentAssumption DEF Aims
  <2>. QED
    BY <2>1, <2>2
<1>. QED
  BY <1>1, <1>2 DEF AimsOK

\* What a thread has in hand.
LEMMA InHand ==
  ASSUME ThreadsOK, NEW t \in Threads
  PROVE  /\ pc[t] \in Steps /\ req[t] \in Requests \cup {NoRequest}
         /\ draft[t] \in Drafts \cup {NoDraft} /\ read[t] \in ReadType
         /\ got[t] \in Posts \cup {NoPost}
         /\ req = [req EXCEPT ![t] = req[t]] /\ draft = [draft EXCEPT ![t] = draft[t]]
         /\ read = [read EXCEPT ![t] = read[t]] /\ got = [got EXCEPT ![t] = got[t]]
BY DEF ThreadsOK

\* The four ways a handler moves: it begins, goes on, ends, or passes by.
LEMMA GotoTypes ==
  ASSUME ThreadsOK, AimsOK, RequestsOK, NEW t \in Threads, NEW n \in Steps, Goto(t, n),
         UNCHANGED locals, \A r \in Requests : rstate[r] # "none" => rstate'[r] # "none",
         Aims(t, n, req[t], draft[t], got[t])
  PROVE  ThreadsOK' /\ AimsOK'
<1>1. Moves(t, n, req[t], draft[t], read[t], got[t]) /\ calls' \in 0 .. MaxCalls
  BY InHand DEF Moves, Goto, locals, ThreadsOK
<1>. QED
  BY <1>1, InHand, MoveTypes

LEMMA ReleaseTypes ==
  ASSUME ThreadsOK, AimsOK, RequestsOK, NEW t \in Threads, Release(t),
         \A r \in Requests : rstate[r] # "none" => rstate'[r] # "none"
  PROVE  ThreadsOK' /\ AimsOK'
<1>1. Moves(t, "idle", NoRequest, NoDraft, Nothing, NoPost) /\ calls' \in 0 .. MaxCalls
  BY DEF Moves, Release, Goto, ThreadsOK
<1>2. "idle" \in Steps /\ Nothing \in ReadType /\ Aims(t, "idle", NoRequest, NoDraft, NoPost)
  BY DEF Steps, Nothing, ReadType, Aims
<1>. QED
  BY <1>1, <1>2, MoveTypes

LEMMA PassTypes ==
  ASSUME ThreadsOK, AimsOK, RequestsOK, NEW t \in Threads, Serve(t, "idle"), UNCHANGED locals,
         \A r \in Requests : rstate[r] # "none" => rstate'[r] # "none"
  PROVE  ThreadsOK' /\ AimsOK'
<1>1. Moves(t, "idle", req[t], draft[t], read[t], got[t]) /\ calls' \in 0 .. MaxCalls
  BY InHand, ContentAssumption DEF Moves, Serve, locals, ThreadsOK
<1>2. "idle" \in Steps /\ Aims(t, "idle", req[t], draft[t], got[t])
  BY DEF Steps, AimsOK, Aims
<1>. QED
  BY <1>1, <1>2, InHand, MoveTypes
LEMMA ObeyTypes ==
  ASSUME TypeInv, NEW t \in Threads, req[t] \in Requests, NEW p \in Posts, Obey(t, p)
  PROVE  SiteOK'
<1>1. draft[t] \in Drafts \cup {NoDraft}
  BY DEF TypeInv, ThreadsOK
<1>. QED
  BY <1>1 DEF TypeInv, SiteOK, Obey, Felt

\* A call is about a post of the site.
LEMMA TargetTypes ==
  ASSUME TypeInv, NEW t \in Threads
  PROVE  Target(t) \subseteq Posts
BY DEF Target, Fresh

LEMMA ArriveTypes ==
  ASSUME TypeInv, NEW t \in Threads, Arrive(t)
  PROVE  TypeInv'
<1> USE DEF TypeInv, content, place, requests, made
<1>1. ASSUME NEW d \in Drafts, Edit(t, d) PROVE TypeInv'
  <2>1. DraftsOK'
    <3>. DEFINE states == Stored \cup {"none", "deleted"}
    <3>a. text \in [Drafts -> Nat] /\ dstatus \in [Drafts -> states] /\ claimed \subseteq Drafts
      BY DEF DraftsOK
    <3>1. text' \in [Drafts -> Nat]
      BY ONLY <1>1, <3>a DEF Edit
    <3>2. dstatus' \in [Drafts -> states] /\ claimed' \subseteq Drafts
      BY ONLY <1>1, <3>a DEF Edit
    <3>. QED
      BY <1>1, <3>1, <3>2 DEF Edit, DraftsOK
  <2>2. ThreadsOK' /\ AimsOK'
    BY <1>1, PassTypes DEF Edit
  <2>. QED
    BY <1>1, <2>1, <2>2 DEF Edit, RequestsOK, SiteOK
<1>2. ASSUME NEW d \in Drafts, AuditStart(t, d) PROVE TypeInv'
  <2>. DEFINE x == [read[t] EXCEPT !.text = text[d]]
  <2>1. x \in ReadType
    <3>1. read[t] \in ReadType /\ text[d] \in Nat
      BY InHand DEF DraftsOK
    <3>. QED
      BY ONLY <3>1 DEF ReadType
  <2>2. Moves(t, "audit", req[t], d, x, got[t]) /\ calls' \in 0 .. MaxCalls
    BY <1>2, InHand, ContentAssumption DEF Moves, AuditStart, Serve, ThreadsOK
  <2>3. "audit" \in Steps /\ Aims(t, "audit", req[t], d, got[t])
    BY DEF Steps, AimsOK, Aims
  <2>4. \A r \in Requests : rstate'[r] = rstate[r]
    BY <1>2 DEF AuditStart
  <2>. HIDE DEF x
  <2>5. ThreadsOK' /\ AimsOK'
    BY <2>1, <2>2, <2>3, <2>4, InHand, MoveTypes
  <2>. QED
    BY <1>2, <2>5 DEF AuditStart, DraftsOK, RequestsOK, SiteOK
<1>3. ASSUME NEW r \in Requests, NEW k \in Kind, NEW d \in Drafts \cup {NoDraft}, Ask(t, r, k, d)
      PROVE  TypeInv'
  <2>1. RequestsOK'
    BY <1>3 DEF Ask, RequestsOK
  <2>2. ThreadsOK' /\ AimsOK'
    BY <1>3, PassTypes DEF Ask, RequestsOK
  <2>. QED
    BY <1>3, <2>1, <2>2 DEF Ask, DraftsOK, SiteOK
<1>4. ASSUME NEW r \in Requests, NEW next \in {"grant", "close"}, Press(t, r, next)
      PROVE  TypeInv'
  <2>. DEFINE x == [read[t] EXCEPT !.count = count[r]]
  <2>1. x \in ReadType
    BY InHand DEF ReadType, RequestsOK
  <2>2. Moves(t, next, r, draft[t], x, got[t]) /\ calls' \in 0 .. MaxCalls
    BY <1>4, InHand, ContentAssumption DEF Moves, Press, Serve, ThreadsOK
  <2>3. next \in Steps /\ Aims(t, next, r, draft[t], got[t])
    BY <1>4, ContentAssumption DEF Steps, Aims, Press
  <2>4. \A q \in Requests : rstate'[q] = rstate[q]
    BY <1>4 DEF Press
  <2>. HIDE DEF x
  <2>5. ThreadsOK' /\ AimsOK'
    BY <2>1, <2>2, <2>3, <2>4, InHand, MoveTypes
  <2>. QED
    BY <1>4, <2>5 DEF Press, DraftsOK, RequestsOK, SiteOK
<1>. QED
  BY <1>1, <1>2, <1>3, <1>4 DEF Arrive, AskArticle, AskRewrite, AskAbout, Kind

\* A thread past its check has a request; one at work on a draft has the draft.
LEMMA HasRequest ==
  ASSUME TypeInv, NEW t \in Threads, pc[t] \notin {"idle", "audit", "score"}
  PROVE  req[t] \in Requests /\ req[t] # NoRequest /\ rstate[req[t]] # "none"
BY DEF TypeInv, AimsOK, Aims, ThreadsOK

LEMMA DecideTypes ==
  ASSUME TypeInv, NEW t \in Threads, Decide(t)
  PROVE  TypeInv'
<1> USE DEF TypeInv, content, place, made
<1>1. req[t] \in Requests /\ rstate[req[t]] # "none"
  <2>1. pc[t] \in {"grant", "close", "store", "fail"}
    BY DEF Decide, GrantStep, GrantFinal, Close, Succeed, Fail
  <2>. QED
    BY <2>1, HasRequest
<1>2. ASSUME NEW st \in {"confirming", "approved", "closed", "executed", "failed"},
             rstate' = [rstate EXCEPT ![req[t]] = st]
      PROVE  \A r \in Requests : rstate[r] # "none" => rstate'[r] # "none"
  BY <1>2 DEF RequestsOK
<1>3. CASE GrantStep(t) \/ Close(t) \/ Succeed(t) \/ Fail(t)
  <2>1. RequestsOK'
    <3>1. read[t].count + 1 \in Nat
      BY InHand DEF ReadType
    <3>. QED
      BY <1>1, <1>3, <3>1 DEF GrantStep, Count, Close, Succeed, Fail, Store, RequestsOK
  <2>2. ThreadsOK' /\ AimsOK'
    BY <1>2, <1>3, ReleaseTypes DEF GrantStep, Count, Close, Succeed, Fail, Store
  <2>. QED
    BY <1>3, <2>1, <2>2
       DEF GrantStep, Count, Close, Succeed, Fail, Store, DraftsOK, SiteOK
<1>4. CASE GrantFinal(t)
  <2>1. RequestsOK'
    <3>1. read[t].count + 1 \in Nat
      BY InHand DEF ReadType
    <3>. QED
      BY <1>1, <1>4, <3>1 DEF GrantFinal, Count, RequestsOK
  <2>2. "run" \in Steps /\ Aims(t, "run", req[t], draft[t], got[t])
    BY <1>1, ContentAssumption DEF Steps, Aims
  <2>3. ThreadsOK' /\ AimsOK'
    BY <1>2, <1>4, <2>2, GotoTypes DEF GrantFinal, Count
  <2>. QED
    BY <1>4, <2>1, <2>3 DEF GrantFinal, Count, DraftsOK, SiteOK
<1>. QED
  BY <1>3, <1>4 DEF Decide

LEMMA ExecuteTypes ==
  ASSUME TypeInv, NEW t \in Threads, Execute(t)
  PROVE  TypeInv'
<1> USE DEF TypeInv, content, place, requests, made
<1>a. Aims(t, pc[t], req[t], draft[t], got[t])
  BY DEF AimsOK
<1>r. ASSUME UNCHANGED rstate PROVE \A r \in Requests : rstate[r] # "none" => rstate'[r] # "none"
  BY <1>r
<1>1. CASE Write(t) \/ TrackFails(t) \/ Raise(t) \/ KeepFails(t)
  <2>1. PICK n \in Steps : Goto(t, n) /\ Aims(t, n, req[t], draft[t], got[t])
    BY <1>1, <1>a DEF Write, TrackFails, Raise, KeepFails, Running, Rescue, Steps, Aims
  <2>2. ThreadsOK' /\ AimsOK'
    BY <1>1, <1>r, <2>1, GotoTypes DEF Write, TrackFails, Raise, KeepFails
  <2>. QED
    BY <1>1, <2>2
       DEF Write, TrackFails, Raise, KeepFails, DraftsOK, RequestsOK, SiteOK
<1>2. ASSUME NEW d \in Drafts, Insert(t, d) PROVE TypeInv'
  <2>1. req[t] \in Requests
    BY <1>2, HasRequest DEF Insert
  <2>2. DraftsOK'
    BY <1>2 DEF Insert, DraftsOK, Stored
  <2>3. SiteOK'
    BY <1>2, <2>1 DEF Insert, Felt, SiteOK
  <2>4. Moves(t, "track", req[t], d, read[t], got[t]) /\ calls' \in 0 .. MaxCalls
    BY <1>2, InHand DEF Moves, Insert, Goto, ThreadsOK
  <2>5. "track" \in Steps /\ Aims(t, "track", req[t], d, got[t])
    BY <1>2, <1>a DEF Insert, Steps, Aims
  <2>6. UNCHANGED rstate
    BY <1>2 DEF Insert
  <2>7. ThreadsOK' /\ AimsOK'
    BY <1>r, <2>4, <2>5, <2>6, InHand, MoveTypes
  <2>. QED
    BY <1>2, <2>2, <2>3, <2>7 DEF Insert, RequestsOK
<1>3. CASE Track(t)
  <2>1. draft[t] \in Drafts /\ req[t] # NoRequest
    BY <1>3, <1>a DEF Track, Aims
  <2>2. DraftsOK'
    BY <1>3, <2>1 DEF Track, DraftsOK
  <2>3. PICK n \in Steps, x \in ReadType :
          Moves(t, n, req[t], draft[t], x, got[t]) /\ n \in {"audit", "store"}
    <3>1. CASE Exists(draft[t])
      <4>. DEFINE x == [read[t] EXCEPT !.text = text[draft[t]]]
      <4>1. x \in ReadType
        <5>1. read[t] \in ReadType /\ text[draft[t]] \in Nat
          BY <2>1, InHand DEF DraftsOK
        <5>. QED
          BY ONLY <5>1 DEF ReadType
      <4>2. Moves(t, "audit", req[t], draft[t], x, got[t])
        BY <1>3, <3>1, InHand DEF Moves, Track, Goto
      <4>. QED
        BY <4>1, <4>2 DEF Steps
    <3>2. CASE ~Exists(draft[t])
      <4>1. Moves(t, "store", req[t], draft[t], read[t], got[t])
        BY <1>3, <3>2, InHand DEF Moves, Track, Goto
      <4>. QED
        BY <4>1, InHand DEF Steps
    <3>. QED
      BY <3>1, <3>2
  <2>4. Aims(t, n, req[t], draft[t], got[t]) /\ UNCHANGED rstate /\ calls' \in 0 .. MaxCalls
    BY <1>3, <1>a, <2>1, <2>3 DEF Track, Goto, Aims, ThreadsOK
  <2>5. ThreadsOK' /\ AimsOK'
    BY <1>r, <2>3, <2>4, InHand, MoveTypes
  <2>. QED
    BY <1>3, <2>2, <2>5 DEF Track, RequestsOK, SiteOK
<1>4. CASE AuditInsert(t)
  <2>1. draft[t] \in Drafts /\ read[t].text \in Nat
    BY <1>4, <1>a, InHand DEF AuditInsert, Aims, ReadType
  <2>2. DraftsOK'
    BY <1>4, <2>1 DEF AuditInsert, DraftsOK
  <2>3. "score" \in Steps /\ Aims(t, "score", req[t], draft[t], got[t])
    BY <1>4, <1>a DEF AuditInsert, Steps, Aims
  <2>4. ThreadsOK' /\ AimsOK'
    BY <1>4, <1>r, <2>3, GotoTypes DEF AuditInsert
  <2>. QED
    BY <1>4, <2>2, <2>4 DEF AuditInsert, RequestsOK, SiteOK
<1>5. CASE AuditScore(t)
  <2>1. draft[t] \in Drafts /\ read[t].text + 1 \in Nat
    BY <1>5, <1>a, InHand DEF AuditScore, Aims, ReadType
  <2>2. DraftsOK'
    BY <1>5, <2>1 DEF AuditScore, DraftsOK
  <2>3. ThreadsOK' /\ AimsOK'
    <3>1. UNCHANGED rstate
      BY <1>5 DEF AuditScore
    <3>2. CASE req[t] = NoRequest
      BY <1>5, <1>r, <3>1, <3>2, ReleaseTypes DEF AuditScore
    <3>3. CASE req[t] # NoRequest
      <4>1. "store" \in Steps /\ Aims(t, "store", req[t], draft[t], got[t])
        BY <1>a, <3>3 DEF Steps, Aims
      <4>. QED
        BY <1>5, <1>r, <3>1, <3>3, <4>1, GotoTypes DEF AuditScore
    <3>. QED
      BY <3>2, <3>3
  <2>. QED
    BY <1>5, <2>2, <2>3 DEF AuditScore, RequestsOK, SiteOK
<1>6. CASE Delete(t)
  <2>1. req[t] \in Requests /\ req[t] # NoRequest
    BY <1>6, HasRequest DEF Delete, Running
  <2>2. DraftsOK'
    BY <1>6 DEF Delete, DraftsOK
  <2>3. SiteOK'
    BY <1>6, <2>1 DEF Delete, Felt, SiteOK
  <2>4. "store" \in Steps /\ Aims(t, "store", req[t], draft[t], got[t])
    BY <1>a, <2>1 DEF Steps, Aims
  <2>5. ThreadsOK' /\ AimsOK'
    BY <1>6, <1>r, <2>4, GotoTypes DEF Delete
  <2>. QED
    BY <1>6, <2>2, <2>3, <2>5 DEF Delete, RequestsOK
<1>7. CASE Fetch(t)
  <2>. DEFINE d == about[req[t]]
              x == [read[t] EXCEPT !.link = link[d], !.site = site[d]]
  <2>1. req[t] \in Requests /\ req[t] # NoRequest /\ d \in Drafts
    BY <1>7, HasRequest DEF Fetch, Exists
  <2>2. x \in ReadType
    <3>1. read[t] \in ReadType /\ link[d] \in Posts \cup {NoPost} /\ site[d] \in Sites
      BY <2>1, InHand DEF DraftsOK
    <3>. QED
      BY ONLY <3>1 DEF ReadType
  <2>3. Moves(t, "call", req[t], d, x, got[t]) /\ calls' \in 0 .. MaxCalls
    BY <1>7, InHand DEF Moves, Fetch, Goto, ThreadsOK
  <2>4. "call" \in Steps /\ Aims(t, "call", req[t], d, got[t]) /\ UNCHANGED rstate
    BY <1>7, <1>a, <2>1 DEF Fetch, Steps, Aims
  <2>. HIDE DEF x, d
  <2>5. ThreadsOK' /\ AimsOK'
    BY <1>r, <2>1, <2>2, <2>3, <2>4, InHand, MoveTypes
  <2>. QED
    BY <1>7, <2>5 DEF Fetch, DraftsOK, RequestsOK, SiteOK
<1>8. CASE CallAnswered(t)
  <2>1. PICK p \in Target(t) : Obey(t, p) /\ got' = [got EXCEPT ![t] = p]
    BY <1>8 DEF CallAnswered
  <2>2. p \in Posts
    BY TargetTypes
  <2>3. req[t] \in Requests
    BY <1>8, HasRequest DEF CallAnswered
  <2>4. SiteOK'
    BY <2>1, <2>2, <2>3, ObeyTypes
  <2>5. Moves(t, "keep", req[t], draft[t], read[t], p) /\ calls' \in 0 .. MaxCalls
    BY <1>8, <2>1, InHand DEF Moves, CallAnswered, Goto, ThreadsOK
  <2>6. "keep" \in Steps /\ Aims(t, "keep", req[t], draft[t], p) /\ UNCHANGED rstate
    BY <1>8, <1>a, <2>2 DEF CallAnswered, Steps, Aims
  <2>7. ThreadsOK' /\ AimsOK'
    BY <1>r, <2>2, <2>5, <2>6, InHand, MoveTypes
  <2>. QED
    BY <1>8, <2>4, <2>7 DEF CallAnswered, DraftsOK, RequestsOK
<1>9. CASE CallFails(t)
  <2>1. SiteOK'
    <3>1. req[t] \in Requests
      BY <1>9, HasRequest DEF CallFails
    <3>2. CASE UNCHANGED <<post, made>>
      BY <3>2 DEF SiteOK
    <3>3. CASE \E p \in Target(t) : Obey(t, p)
      BY <3>1, <3>3, TargetTypes, ObeyTypes
    <3>. QED
      BY <1>9, <3>2, <3>3 DEF CallFails
  <2>2. Rescue(t) \in Steps /\ Aims(t, Rescue(t), req[t], draft[t], got[t])
    BY <1>9, <1>a DEF CallFails, Rescue, Steps, Aims
  <2>3. ThreadsOK' /\ AimsOK'
    BY <1>9, <1>r, <2>2, GotoTypes DEF CallFails
  <2>. QED
    BY <1>9, <2>1, <2>3 DEF CallFails, DraftsOK, RequestsOK
<1>10. CASE Keep(t) \/ Drop(t)
  <2>1. draft[t] \in Drafts /\ req[t] # NoRequest /\ (pc[t] = "keep" => got[t] \in Posts)
    BY <1>10, <1>a DEF Keep, Drop, Aims
  <2>2. DraftsOK'
    <3>1. CASE Keep(t) /\ Exists(draft[t])
      <4>1. dstatus' \in [Drafts -> Stored \cup {"none", "deleted"}] /\ claimed' \subseteq Drafts
        <5>1. \E st \in Stored : dstatus' = [dstatus EXCEPT ![draft[t]] = st]
          BY <3>1 DEF Keep, Stored
        <5>2. claimed' = claimed \cup {draft[t]} \/ claimed' = claimed \ {draft[t]}
          BY <3>1 DEF Keep
        <5>. QED
          BY <2>1, <5>1, <5>2 DEF DraftsOK
      <4>2. link' \in [Drafts -> Posts \cup {NoPost}]
        BY <2>1, <3>1 DEF Keep, DraftsOK
      <4>. QED
        BY <3>1, <4>1, <4>2 DEF Keep, DraftsOK
    <3>2. CASE Keep(t) /\ ~Exists(draft[t])
      BY <3>2 DEF Keep, DraftsOK
    <3>3. CASE Drop(t)
      BY <2>1, <3>3 DEF Drop, DraftsOK, Stored
    <3>. QED
      BY <1>10, <3>1, <3>2, <3>3
  <2>3. "store" \in Steps /\ Aims(t, "store", req[t], draft[t], got[t])
    BY <1>a, <2>1 DEF Steps, Aims
  <2>4. ThreadsOK' /\ AimsOK'
    BY <1>10, <1>r, <2>3, GotoTypes DEF Keep, Drop
  <2>. QED
    BY <1>10, <2>2, <2>4 DEF Keep, Drop, RequestsOK, SiteOK
<1>. QED
  BY <1>1, <1>2, <1>3, <1>4, <1>5, <1>6, <1>7, <1>8, <1>9, <1>10 DEF Execute

LEMMA NextTypes == TypeInv /\ [Next]_vars => TypeInv'
<1> SUFFICES ASSUME TypeInv, [Next]_vars PROVE TypeInv'
  OBVIOUS
<1>1. ASSUME NEW t \in Threads, Die(t) PROVE TypeInv'
  <2>1. ThreadsOK' /\ AimsOK'
    BY <1>1, ReleaseTypes DEF Die, requests, TypeInv
  <2>. QED
    BY <1>1, <2>1
       DEF Die, TypeInv, DraftsOK, RequestsOK, SiteOK, content, place, requests, made
<1>2. CASE UNCHANGED vars
  BY <1>2 DEF vars, TypeInv, DraftsOK, RequestsOK, SiteOK, ThreadsOK, AimsOK, Aims,
              content, place, requests, locals, made
<1>. QED
  BY <1>1, <1>2, ArriveTypes, DecideTypes, ExecuteTypes DEF Next

LEMMA TypeInvariant == Spec => []TypeInv
BY InitTypes, NextTypes, PTL DEF Spec

\* Types are kept, for any drafts, requests, posts and threads.
THEOREM ContentTypeCorrect == Spec => []ContentTypeOK
BY TypeInvariant, TypesMeanOK, PTL
-----------------------------------------------------------------------------
(* What steps leave alone.                                                 *)

Step(t) == Arrive(t) \/ Decide(t) \/ Execute(t) \/ Die(t)

\* A step of a thread moves that thread alone.
LEMMA OthersStay ==
  ASSUME TypeInv, NEW t \in Threads, Step(t), NEW u \in Threads \ {t}
  PROVE  pc'[u] = pc[u] /\ req'[u] = req[u] /\ draft'[u] = draft[u]
         /\ read'[u] = read[u] /\ got'[u] = got[u]
<1> USE DEF TypeInv, ThreadsOK, locals
<1>1. ASSUME Release(t)
      PROVE  pc'[u] = pc[u] /\ req'[u] = req[u] /\ draft'[u] = draft[u]
             /\ read'[u] = read[u] /\ got'[u] = got[u]
  BY <1>1 DEF Release, Goto
<1>2. CASE Arrive(t)
  BY <1>2 DEF Arrive, Edit, AuditStart, AskArticle, AskRewrite, AskAbout, Ask, Press, Serve
<1>3. CASE Decide(t)
  BY <1>1, <1>3 DEF Decide, GrantStep, GrantFinal, Count, Close, Succeed, Fail, Store, Goto
<1>4. CASE AuditScore(t)
  BY <1>1, <1>4 DEF AuditScore, Goto
<1>5. CASE Execute(t) /\ ~AuditScore(t)
  BY <1>5 DEF Execute, Write, Insert, Track, TrackFails, AuditInsert, Raise, Delete, Fetch,
     CallAnswered, CallFails, Keep, KeepFails, Drop, Goto
<1>6. CASE Die(t)
  BY <1>1, <1>6 DEF Die
<1>. QED
  BY <1>2, <1>3, <1>4, <1>5, <1>6 DEF Step

\* A request keeps what it is about.
LEMMA RequestStays ==
  ASSUME TypeInv, NEW t \in Threads, Step(t), NEW r \in Requests, rstate[r] # "none"
  PROVE  kind'[r] = kind[r] /\ about'[r] = about[r]
<1> USE DEF TypeInv, RequestsOK, requests
<1>1. CASE Arrive(t)
  BY <1>1 DEF Arrive, Edit, AuditStart, AskArticle, AskRewrite, AskAbout, Ask, Press
<1>2. CASE Decide(t)
  BY <1>2 DEF Decide, GrantStep, GrantFinal, Count, Close, Succeed, Fail, Store
<1>3. CASE Execute(t)
  BY <1>3 DEF Execute, Write, Insert, Track, TrackFails, AuditInsert, AuditScore, Raise,
     Delete, Fetch, CallAnswered, CallFails, Keep, KeepFails, Drop
<1>4. CASE Die(t)
  BY <1>4 DEF Die
<1>. QED
  BY <1>1, <1>2, <1>3, <1>4 DEF Step

\* The site changes by what it is asked.
LEMMA SiteStays ==
  ASSUME NEW t \in Threads, Step(t)
  PROVE  \/ UNCHANGED <<post, owner, publisher>>
         \/ pc[t] = "call" /\ \E p \in Target(t) : Obey(t, p)
<1> USE DEF made
<1>1. CASE Arrive(t)
  BY <1>1 DEF Arrive, Edit, AuditStart, AskArticle, AskRewrite, AskAbout, Ask, Press
<1>2. CASE Decide(t)
  BY <1>2 DEF Decide, GrantStep, GrantFinal, Count, Close, Succeed, Fail, Store
<1>3. CASE Execute(t)
  BY <1>3 DEF Execute, Write, Insert, Track, TrackFails, AuditInsert, AuditScore, Raise,
     Delete, Fetch, CallAnswered, CallFails, Keep, KeepFails, Drop
<1>4. CASE Die(t)
  BY <1>4 DEF Die
<1>. QED
  BY <1>1, <1>2, <1>3, <1>4 DEF Step

\* What is public stays public, and whoever made it so is remembered.
LEMMA PublicStays ==
  ASSUME TypeInv, NEW t \in Threads, Step(t), NEW p \in Posts
  PROVE  /\ post[p] = "publish" => post'[p] = "publish"
         /\ publisher[p] \subseteq publisher'[p]
<1>1. CASE UNCHANGED <<post, owner, publisher>>
  BY <1>1
<1>2. ASSUME pc[t] = "call", NEW q \in Target(t), Obey(t, q)
      PROVE  /\ post[p] = "publish" => post'[p] = "publish"
             /\ publisher[p] \subseteq publisher'[p]
  <2>1. q \in Posts /\ (kind[req[t]] # "publish" => post[q] = "none")
    BY <1>2, TargetTypes DEF Target, Fresh
  <2>2. post[p] = "publish" => post'[p] = "publish"
    BY <1>2, <2>1 DEF Obey, TypeInv, SiteOK
  <2>3. publisher[p] \subseteq publisher'[p]
    BY <1>2, <2>1 DEF Obey, TypeInv, SiteOK
  <2>. QED
    BY <2>2, <2>3
<1>. QED
  BY <1>1, <1>2, SiteStays

-----------------------------------------------------------------------------
(* Scores. A thread about to store one has stored its audit.               *)

Audited(d, v) == \E i \in DOMAIN audits : audits[i] = [draft |-> d, text |-> v]

ScoreInv ==
  /\ ScoreIsAudited
  /\ \A t \in Threads : pc[t] = "score" => Audited(draft[t], read[t].text)

\* An audit that is appended is there, and so are those before it.
LEMMA AuditsGrow ==
  ASSUME TypeInv, NEW t \in Threads, AuditInsert(t)
  PROVE  /\ \A i \in DOMAIN audits : i \in DOMAIN audits' /\ audits'[i] = audits[i]
         /\ \E i \in DOMAIN audits' : audits'[i] = [draft |-> draft[t], text |-> read[t].text]
<1>. DEFINE a == [draft |-> draft[t], text |-> read[t].text]
            Item == [draft : Drafts, text : Nat]
<1>1. audits \in Seq(Item) /\ audits' = Append(audits, a)
  BY DEF AuditInsert, TypeInv, DraftsOK
<1>2. a \in Item
  <2>1. draft[t] \in Drafts /\ read[t].text \in Nat
    BY InHand DEF AuditInsert, TypeInv, AimsOK, Aims, ReadType
  <2>. QED
    BY <2>1
<1>3. Len(audits) \in Nat /\ DOMAIN audits = 1 .. Len(audits)
  BY <1>1, LenProperties
<1>. HIDE DEF a, Item
<1>4. /\ DOMAIN audits' = 1 .. Len(audits) + 1 /\ audits'[Len(audits) + 1] = a
      /\ \A i \in 1 .. Len(audits) : audits'[i] = audits[i]
  BY <1>1, <1>2, <1>3, AppendProperties
<1>. QED
  BY <1>3, <1>4 DEF a

LEMMA AuditsStay ==
  ASSUME TypeInv, NEW t \in Threads, Step(t), NEW d, NEW v, Audited(d, v)
  PROVE  Audited(d, v)'
<1>1. CASE audits' = audits
  BY <1>1 DEF Audited
<1>2. CASE AuditInsert(t)
  BY <1>2, AuditsGrow DEF Audited
<1>3. audits' = audits \/ AuditInsert(t)
  <2> USE DEF content, place
  <2>1. CASE Arrive(t)
    BY <2>1 DEF Arrive, Edit, AuditStart, AskArticle, AskRewrite, AskAbout, Ask, Press
  <2>2. CASE Decide(t)
    BY <2>2 DEF Decide, GrantStep, GrantFinal, Count, Close, Succeed, Fail, Store
  <2>3. CASE Execute(t)
    BY <2>3 DEF Execute, Write, Insert, Track, TrackFails, AuditScore, Raise,
       Delete, Fetch, CallAnswered, CallFails, Keep, KeepFails, Drop
  <2>4. CASE Die(t)
    BY <2>4 DEF Die
  <2>. QED
    BY <2>1, <2>2, <2>3, <2>4 DEF Step
<1>. QED
  BY <1>1, <1>2, <1>3

LEMMA NextScores == TypeInv /\ ScoreInv /\ [Next]_vars => ScoreInv'
<1> SUFFICES ASSUME TypeInv, ScoreInv, [Next]_vars PROVE ScoreInv'
  OBVIOUS
<1>1. ASSUME NEW t \in Threads, Step(t) PROVE ScoreInv'
  <2>1. ASSUME NEW d \in Drafts, score'[d] # 0 PROVE Audited(d, score[d] - 1)'
    <3>1. CASE score'[d] = score[d]
      <4>1. Audited(d, score[d] - 1)
        BY <2>1, <3>1 DEF ScoreInv, ScoreIsAudited, Audited
      <4>2. \A v : Audited(d, v) => Audited(d, v)'
        BY <1>1, AuditsStay
      <4>. QED
        BY <3>1, <4>1, <4>2 DEF Audited
    <3>2. CASE AuditScore(t) /\ score' = [score EXCEPT ![draft[t]] = read[t].text + 1]
      <4>1. Audited(draft[t], read[t].text) /\ read[t].text \in Nat
        BY <3>2, InHand DEF AuditScore, ScoreInv, TypeInv, ReadType
      <4>2. CASE d = draft[t]
        <5>1. score'[d] - 1 = read[t].text
          BY <3>2, <4>1, <4>2 DEF TypeInv, DraftsOK
        <5>. QED
          <6>1. \A v : Audited(d, v) => Audited(d, v)'
            BY <1>1, AuditsStay
          <6>. QED
            BY <4>1, <4>2, <5>1, <6>1 DEF Audited
      <4>3. CASE d # draft[t]
        BY <3>1, <3>2, <4>3 DEF TypeInv, DraftsOK
      <4>. QED
        BY <4>2, <4>3
    <3>3. score' = score \/ (AuditScore(t) /\ score' = [score EXCEPT ![draft[t]] = read[t].text + 1])
      <4> USE DEF content, place
      <4>1. CASE Arrive(t)
        BY <4>1 DEF Arrive, Edit, AuditStart, AskArticle, AskRewrite, AskAbout, Ask, Press
      <4>2. CASE Decide(t)
        BY <4>2 DEF Decide, GrantStep, GrantFinal, Count, Close, Succeed, Fail, Store
      <4>3. CASE AuditScore(t)
        BY <4>3 DEF AuditScore
      <4>4. CASE Execute(t) /\ ~AuditScore(t)
        BY <4>4 DEF Execute, Write, Insert, Track, TrackFails, AuditInsert, Raise,
           Delete, Fetch, CallAnswered, CallFails, Keep, KeepFails, Drop
      <4>5. CASE Die(t)
        BY <4>5 DEF Die
      <4>. QED
        BY <1>1, <4>1, <4>2, <4>3, <4>4, <4>5 DEF Step
    <3>. QED
      BY <3>1, <3>2, <3>3
  <2>2. ASSUME NEW u \in Threads \ {t}, pc'[u] = "score" PROVE Audited(draft[u], read[u].text)'
    BY <1>1, <2>2, OthersStay, AuditsStay DEF ScoreInv
  <2>3. ASSUME pc'[t] = "score" PROVE Audited(draft[t], read[t].text)'
    <3>1. AuditInsert(t)
      <4> USE DEF TypeInv, ThreadsOK
      <4>1. CASE Arrive(t)
        BY <2>3, <4>1 DEF Arrive, Edit, AuditStart, AskArticle, AskRewrite, AskAbout, Ask,
           Press, Serve
      <4>2. CASE Decide(t)
        BY <2>3, <4>2 DEF Decide, GrantStep, GrantFinal, Count, Close, Succeed, Fail, Store,
           Release, Goto
      <4>3. CASE Execute(t) /\ ~AuditInsert(t)
        BY <2>3, <4>3 DEF Execute, Write, Insert, Track, TrackFails, AuditScore, Raise,
           Delete, Fetch, CallAnswered, CallFails, Keep, KeepFails, Drop, Rescue, Release, Goto
      <4>4. CASE Die(t)
        BY <2>3, <4>4 DEF Die, Release, Goto
      <4>. QED
        BY <1>1, <4>1, <4>2, <4>3, <4>4 DEF Step
    <3>2. UNCHANGED <<draft, read>>
      BY <3>1 DEF AuditInsert, locals
    <3>. QED
      BY <3>1, <3>2, AuditsGrow DEF Audited
  <2>4. ScoreIsAudited'
    BY <2>1 DEF ScoreIsAudited, Audited
  <2>5. \A u \in Threads : pc'[u] = "score" => Audited(draft[u], read[u].text)'
    BY <2>2, <2>3
  <2>. QED
    BY <2>4, <2>5 DEF ScoreInv
<1>2. CASE UNCHANGED vars
  BY <1>2 DEF vars, content, place, locals, ScoreInv, ScoreIsAudited, Audited
<1>. QED
  BY <1>1, <1>2 DEF Next, Step

\* For any drafts and threads: a score speaks of a text that a stored audit
\* rated, whichever of its steps failed.
THEOREM ScoreIsAuditedCorrect == Spec => []ScoreIsAudited
<1>1. Init => ScoreInv
  BY DEF Init, ScoreInv, ScoreIsAudited
<1>2. ScoreInv => ScoreIsAudited
  BY DEF ScoreInv
<1>. QED
  BY <1>1, <1>2, NextScores, TypeInvariant, PTL DEF Spec
-----------------------------------------------------------------------------
(* Publication. A thread about to record one has an answer of the site, and *)
(* the executors that swallow errors belong to other kinds of requests.     *)

Public(r) == \E p \in Posts : r \in publisher[p]

Lawful(n, q, g) ==
  /\ n = "idle" => q = NoRequest
  /\ q # NoRequest =>
       /\ n \in {"insert", "track", "audit", "score"} => kind[q] = "generate"
       /\ n = "drop" => kind[q] = "post"
       /\ kind[q] = "publish" /\ n \in {"keep", "store"} => Public(q)
       /\ kind[q] = "publish" /\ n = "keep" => post[g] = "publish"

LawInv == \A t \in Threads : Lawful(pc[t], req[t], got[t])

LEMMA LawOfOthers ==
  ASSUME TypeInv, LawInv, NEW t \in Threads, Step(t), NEW u \in Threads \ {t}
  PROVE  Lawful(pc[u], req[u], got[u])'
<1>1. /\ pc'[u] = pc[u] /\ req'[u] = req[u] /\ got'[u] = got[u]
      /\ req[u] \in Requests \cup {NoRequest} /\ Lawful(pc[u], req[u], got[u])
      /\ Aims(u, pc[u], req[u], draft[u], got[u])
  BY OthersStay, InHand DEF LawInv, TypeInv, AimsOK
<1>2. CASE req[u] = NoRequest
  BY <1>1, <1>2 DEF Lawful
<1>3. CASE req[u] # NoRequest
  <2>1. req[u] \in Requests /\ kind'[req[u]] = kind[req[u]]
    BY <1>1, <1>3, RequestStays DEF Aims
  <2>2. Public(req[u]) => Public(req[u])'
    <3>1. \A p \in Posts : publisher[p] \subseteq publisher'[p]
      BY PublicStays
    <3>2. Public(req[u]) => \E p \in Posts : req[u] \in publisher'[p]
      BY <3>1 DEF Public
    <3>. QED
      BY <1>1, <3>2 DEF Public
  <2>3. pc[u] = "keep" /\ post[got[u]] = "publish" => post'[got[u]] = "publish"
    BY <1>1, PublicStays DEF Aims
  <2>4. Public(req[u])' <=> \E p \in Posts : req[u] \in publisher'[p]
    BY <1>1 DEF Public
  <2>. QED
    BY <1>1, <1>3, <2>1, <2>2, <2>3, <2>4 DEF Lawful, Public
<1>. QED
  BY <1>2, <1>3

\* The thread that steps.
LEMMA OwnLaw ==
  ASSUME TypeInv, LawInv, NEW t \in Threads, Step(t)
  PROVE  Lawful(pc[t], req[t], got[t])'
<1> USE DEF TypeInv, requests, made
<1>t. pc \in [Threads -> Steps] /\ req \in [Threads -> Requests \cup {NoRequest}]
      /\ got \in [Threads -> Posts \cup {NoPost}]
  BY DEF ThreadsOK
<1>l. Lawful(pc[t], req[t], got[t])
  BY DEF LawInv
<1>0. ASSUME Release(t) PROVE Lawful(pc[t], req[t], got[t])'
  <2>1. pc'[t] = "idle" /\ req'[t] = NoRequest
    BY <1>0, <1>t DEF Release, Goto
  <2>. QED
    BY <2>1 DEF Lawful
<1>1. CASE Arrive(t)
  <2>1. pc[t] = "idle" /\ req[t] = NoRequest
    BY <1>1, <1>l DEF Arrive, Edit, AuditStart, AskArticle, AskRewrite, AskAbout, Ask, Press,
       Serve, Lawful
  <2>2. CASE \E r \in Requests, next \in {"grant", "close"} : Press(t, r, next)
    <3>1. pc'[t] \in {"grant", "close"}
      BY <1>t, <2>2 DEF Press, Serve
    <3>. QED
      BY <3>1 DEF Lawful
  <2>3. CASE ~(\E r \in Requests, next \in {"grant", "close"} : Press(t, r, next))
    <3>1. req' = req
      BY <1>1, <2>3 DEF Arrive, Edit, AuditStart, AskArticle, AskRewrite, AskAbout, Ask, locals
    <3>. QED
      BY <2>1, <3>1 DEF Lawful
  <2>. QED
    BY <2>2, <2>3
<1>2. CASE Decide(t)
  <2>1. CASE GrantFinal(t)
    <3>1. pc'[t] = "run"
      BY <1>t, <2>1 DEF GrantFinal, Goto
    <3>. QED
      BY <3>1 DEF Lawful
  <2>. QED
    BY <1>0, <1>2, <2>1 DEF Decide, GrantStep, Close, Succeed, Fail, Store
<1>3. ASSUME UNCHANGED <<kind, req>>, pc'[t] \in {"insert", "call", "store", "fail"},
             pc'[t] = "insert" => kind[req[t]] = "generate",
             pc'[t] = "store" /\ req[t] # NoRequest => kind[req[t]] # "publish"
      PROVE  Lawful(pc[t], req[t], got[t])'
  BY <1>3 DEF Lawful
<1>4. CASE Write(t) \/ Raise(t) \/ Delete(t) \/ Fetch(t) \/ Drop(t)
  <2>1. UNCHANGED <<kind, req>> /\ pc'[t] \in {"insert", "call", "store", "fail"}
    BY <1>4, <1>t DEF Write, Raise, Delete, Fetch, Drop, Goto, locals
  <2>2. pc'[t] = "insert" => kind[req[t]] = "generate"
    BY <1>4, <1>t DEF Write, Raise, Delete, Fetch, Drop, Goto, Running
  <2>3. pc'[t] = "store" /\ req[t] # NoRequest => kind[req[t]] # "publish"
    BY <1>4, <1>t, <1>l DEF Write, Raise, Delete, Fetch, Drop, Goto, Running, Lawful
  <2>. QED
    BY <1>3, <2>1, <2>2, <2>3
<1>5. CASE TrackFails(t) \/ AuditInsert(t) \/ Track(t) \/ \E d \in Drafts : Insert(t, d)
  <2>1. UNCHANGED <<kind, req>> /\ pc'[t] \in {"score", "track", "audit", "store"}
    BY <1>5, <1>t DEF TrackFails, AuditInsert, Track, Insert, Goto, locals
  <2>2. req[t] # NoRequest => kind[req[t]] = "generate"
    BY <1>5, <1>l DEF TrackFails, AuditInsert, Track, Insert, Lawful
  <2>. QED
    BY <2>1, <2>2 DEF Lawful
<1>6. CASE AuditScore(t)
  <2>1. CASE req[t] = NoRequest
    BY <1>0, <1>6, <2>1 DEF AuditScore
  <2>2. CASE req[t] # NoRequest
    <3>1. UNCHANGED <<kind, req>> /\ pc'[t] = "store" /\ kind[req[t]] = "generate"
      BY <1>6, <1>l, <1>t, <2>2 DEF AuditScore, Goto, locals, Lawful
    <3>. QED
      BY <3>1 DEF Lawful
  <2>. QED
    BY <2>1, <2>2
<1>7. CASE CallAnswered(t)
  <2>1. PICK p \in Target(t) : Obey(t, p) /\ got' = [got EXCEPT ![t] = p]
    BY <1>7 DEF CallAnswered
  <2>2. /\ UNCHANGED <<kind, req>> /\ pc'[t] = "keep" /\ got'[t] = p /\ p \in Posts
        /\ req[t] \in Requests
    BY <1>7, <1>t, <2>1, TargetTypes, HasRequest DEF CallAnswered, Goto
  <2>3. kind[req[t]] = "publish" => post'[p] = "publish" /\ req[t] \in publisher'[p]
    BY <2>1, <2>2 DEF Obey, SiteOK
  <2>. QED
    BY <2>2, <2>3 DEF Lawful, Public
<1>8. CASE CallFails(t) \/ KeepFails(t)
  <2>1. /\ UNCHANGED <<kind, req>> /\ pc'[t] \in {"drop", "fail"}
        /\ pc'[t] = "drop" => kind[req[t]] = "post"
    BY <1>8, <1>t DEF CallFails, KeepFails, Goto, Rescue, locals
  <2>. QED
    BY <2>1 DEF Lawful
<1>9. CASE Keep(t)
  <2>1. UNCHANGED <<kind, req, publisher>> /\ pc'[t] = "store" /\ pc[t] = "keep"
    BY <1>9, <1>t DEF Keep, Goto, locals
  <2>. QED
    BY <1>l, <2>1 DEF Lawful, Public
<1>10. CASE Die(t)
  BY <1>0, <1>10 DEF Die
<1>. QED
  BY <1>1, <1>2, <1>4, <1>5, <1>6, <1>7, <1>8, <1>9, <1>10 DEF Step, Execute

LEMMA NextLaw == TypeInv /\ LawInv /\ [Next]_vars => LawInv'
<1> SUFFICES ASSUME TypeInv, LawInv, [Next]_vars PROVE LawInv'
  OBVIOUS
<1>1. ASSUME NEW t \in Threads, Step(t) PROVE LawInv'
  BY <1>1, LawOfOthers, OwnLaw DEF LawInv
<1>2. CASE UNCHANGED vars
  BY <1>2 DEF vars, requests, locals, made, LawInv, Lawful, Public
<1>. QED
  BY <1>1, <1>2 DEF Next, Step

\* An outcome is stored by the thread that ran the request.
LEMMA ExecutedBySucceed ==
  ASSUME TypeInv, NEW t \in Threads, Step(t), NEW r \in Requests, rstate'[r] = "executed"
  PROVE  rstate[r] = "executed" \/ (Succeed(t) /\ r = req[t])
<1> USE DEF requests, TypeInv, RequestsOK
<1>1. CASE Arrive(t)
  BY <1>1 DEF Arrive, Edit, AuditStart, AskArticle, AskRewrite, AskAbout, Ask, Press
<1>2. CASE Decide(t)
  BY <1>2 DEF Decide, GrantStep, GrantFinal, Count, Close, Succeed, Fail, Store
<1>3. CASE Execute(t)
  BY <1>3 DEF Execute, Write, Insert, Track, TrackFails, AuditInsert, AuditScore,
     Raise, Delete, Fetch, CallAnswered, CallFails, Keep, KeepFails, Drop
<1>4. CASE Die(t)
  BY <1>4 DEF Die
<1>. QED
  BY <1>1, <1>2, <1>3, <1>4 DEF Step

\* What content.publish recorded on a draft, and on its request.
PublicInv ==
  /\ \A d \in claimed : dstatus[d] = "published" /\ link[d] \in Posts /\ post[link[d]] = "publish"
  /\ ExecutedPublishIsPublic

LEMMA NextPublic == TypeInv /\ LawInv /\ PublicInv /\ [Next]_vars => PublicInv'
<1> SUFFICES ASSUME TypeInv, LawInv, PublicInv, [Next]_vars PROVE PublicInv'
  OBVIOUS
<1> USE DEF TypeInv
<1>1. ASSUME NEW t \in Threads, Step(t), NEW d \in claimed'
      PROVE  dstatus'[d] = "published" /\ link'[d] \in Posts /\ post'[link'[d]] = "publish"
  <2>1. CASE d \in claimed /\ dstatus'[d] = dstatus[d] /\ link'[d] = link[d]
    BY <1>1, <2>1, PublicStays DEF PublicInv
  <2>2. CASE Keep(t) /\ d = draft[t] /\ Exists(d)
    <3>1. kind[req[t]] = "publish"
      BY <1>1, <2>2 DEF Keep
    <3>2. req[t] # NoRequest /\ got[t] \in Posts /\ post[got[t]] = "publish"
      BY <2>2, <3>1 DEF Keep, LawInv, Lawful, AimsOK, Aims
    <3>3. post' = post /\ dstatus'[d] = "published" /\ link'[d] = got[t]
      BY <2>2, <3>1 DEF Keep, DraftsOK, Exists
    <3>. QED
      BY <3>2, <3>3
  <2>3. \/ d \in claimed /\ dstatus'[d] = dstatus[d] /\ link'[d] = link[d]
        \/ Keep(t) /\ d = draft[t] /\ Exists(d)
    <3> USE DEF content, place
    <3>1. CASE \E e \in Drafts : Edit(t, e)
      BY <1>1, <3>1 DEF Edit, DraftsOK
    <3>2. CASE Arrive(t) /\ ~(\E e \in Drafts : Edit(t, e))
      BY <1>1, <3>2 DEF Arrive, AuditStart, AskArticle, AskRewrite, AskAbout, Ask, Press
    <3>3. CASE Decide(t)
      BY <1>1, <3>3 DEF Decide, GrantStep, GrantFinal, Count, Close, Succeed, Fail, Store
    <3>4. ASSUME NEW e \in Drafts, Insert(t, e)
          PROVE  d \in claimed /\ dstatus'[d] = dstatus[d] /\ link'[d] = link[d]
      <4>1. claimed' = claimed /\ link' = link /\ dstatus[e] = "none"
            /\ dstatus' = [dstatus EXCEPT ![e] = "draft"]
        BY <3>4 DEF Insert
      <4>2. dstatus[d] = "published"
        BY <1>1, <4>1 DEF PublicInv
      <4>. QED
        BY <1>1, <4>1, <4>2 DEF DraftsOK
    <3>5. CASE Delete(t) \/ Drop(t)
      BY <1>1, <3>5 DEF Delete, Drop, DraftsOK
    <3>6. CASE Keep(t)
      BY <1>1, <3>6 DEF Keep, DraftsOK
    <3>7. CASE \/ Write(t) \/ Track(t) \/ TrackFails(t) \/ AuditInsert(t) \/ AuditScore(t)
               \/ Raise(t) \/ Fetch(t) \/ CallAnswered(t) \/ CallFails(t) \/ KeepFails(t)
      BY <1>1, <3>7 DEF Write, Track, TrackFails, AuditInsert, AuditScore, Raise, Fetch,
         CallAnswered, CallFails, KeepFails
    <3>8. CASE Die(t)
      BY <1>1, <3>8 DEF Die
    <3>. QED
      BY <1>1, <3>1, <3>2, <3>3, <3>4, <3>5, <3>6, <3>7, <3>8 DEF Step, Execute
  <2>. QED
    BY <2>1, <2>2, <2>3
<1>2. ASSUME NEW t \in Threads, Step(t), NEW r \in Requests, kind'[r] = "publish",
             rstate'[r] = "executed"
      PROVE  \E p \in Posts : r \in publisher'[p]
  <2>1. Public(r)
    <3>1. CASE rstate[r] = "executed"
      BY <1>2, <3>1, RequestStays DEF PublicInv, ExecutedPublishIsPublic, Public
    <3>2. CASE Succeed(t) /\ r = req[t]
      <4>1. kind[r] = "publish" /\ pc[t] = "store" /\ r # NoRequest
        BY <1>2, <3>2, ContentAssumption DEF Succeed, Store
      <4>. QED
        BY <3>2, <4>1 DEF LawInv, Lawful
    <3>3. rstate[r] = "executed" \/ (Succeed(t) /\ r = req[t])
      BY <1>2, ExecutedBySucceed
    <3>. QED
      BY <3>1, <3>2, <3>3
  <2>. QED
    BY <1>2, <2>1, PublicStays DEF Public
<1>3. CASE UNCHANGED vars
  BY <1>3 DEF vars, content, place, requests, made, PublicInv, ExecutedPublishIsPublic
<1>4. CASE Next
  BY <1>1, <1>2, <1>4 DEF Next, Step, PublicInv, ExecutedPublishIsPublic
<1>. QED
  BY <1>3, <1>4

LEMMA PublicInvariant == Spec => []PublicInv
<1>1. Init => LawInv
  BY DEF Init, LawInv, Lawful
<1>2. Init => PublicInv
  BY DEF Init, PublicInv, ExecutedPublishIsPublic
<1>. QED
  BY <1>1, <1>2, NextLaw, NextPublic, TypeInvariant, PTL DEF Spec

\* For any drafts, requests and threads: a draft that content.publish stored as
\* published has a post that visitors can see.
THEOREM PublishedIsPublicCorrect == Spec => []PublishedIsPublic
<1>1. PublicInv => PublishedIsPublic
  BY ContentAssumption DEF PublicInv, PublishedIsPublic
<1>. QED
  BY <1>1, PublicInvariant, PTL

\* A publication recorded as executed made a post public, however its calls
\* fail and whoever runs it again.
THEOREM ExecutedPublishCorrect == Spec => []ExecutedPublishIsPublic
<1>1. PublicInv => ExecutedPublishIsPublic
  BY DEF PublicInv
<1>. QED
  BY <1>1, PublicInvariant, PTL
-----------------------------------------------------------------------------
(* Links. Every post that a draft of its first project or a thread at work  *)
(* on it knows was made for that draft and is on its project's site, so its *)
(* number names no other post there, and the only post made for the draft   *)
(* is the only one that its row can name.                                   *)

MadeFor(p, d) == p \in Posts /\ owner[p] = d
Mine(p, d)    == MadeFor(p, d) /\ p[1] = site[d]

\* A draft that content.publish worked on: its row is there or gone for good,
\* and a row that is there names a post.
Kept(d) == d \in Drafts /\ dstatus[d] # "none" /\ (Exists(d) => link[d] # NoPost)

\* What a thread at step n, on request q and draft d, read as the link x and the
\* site s, and got as the answer g.
Holds(n, q, d, x, s, g) ==
  /\ n \in {"call", "keep"} => d = about[q] /\ d \in Drafts /\ dstatus[d] # "none"
  /\ n \in {"call", "keep"} /\ d \notin moved => s = site[d] /\ (x # NoPost => Mine(x, d))
  /\ n = "keep" /\ d \notin moved => Mine(g, d)
  /\ n = "store" /\ kind[q] = "publish" => Kept(about[q])

MakersInv ==
  /\ \A p \in Posts : owner[p] # NoDraft => post[p] # "none"
  /\ \A p \in Posts : \A r \in publisher[p] :
       kind[r] = "publish" /\ rstate[r] # "none" /\ about[r] \in Drafts

LinkInv ==
  /\ MakersInv
  /\ PublishedIsOwn
  /\ \A d \in Drafts : d \notin moved /\ link[d] # NoPost => Mine(link[d], d)
  /\ \A t \in Threads :
       Holds(pc[t], req[t], draft[t], read[t].link, read[t].site, got[t])
  /\ \A r \in Requests : rstate[r] = "executed" /\ kind[r] = "publish" => Kept(about[r])

\* A request that was asked for keeps its row.
LEMMA AskedStays ==
  ASSUME TypeInv, NEW t \in Threads, Step(t), NEW r \in Requests, rstate[r] # "none"
  PROVE  rstate'[r] # "none"
<1> USE DEF requests, TypeInv, RequestsOK
<1>1. CASE Arrive(t)
  BY <1>1 DEF Arrive, Edit, AuditStart, AskArticle, AskRewrite, AskAbout, Ask, Press
<1>2. CASE Decide(t)
  BY <1>2 DEF Decide, GrantStep, GrantFinal, Count, Close, Succeed, Fail, Store
<1>3. CASE Execute(t)
  BY <1>3 DEF Execute, Write, Insert, Track, TrackFails, AuditInsert, AuditScore,
     Raise, Delete, Fetch, CallAnswered, CallFails, Keep, KeepFails, Drop
<1>4. CASE Die(t)
  BY <1>4 DEF Die
<1>. QED
  BY <1>1, <1>2, <1>3, <1>4 DEF Step

\* A call is made for the request in hand: about its draft's post, or a new one.
LEMMA CallMakes ==
  ASSUME TypeInv, LinkInv, NEW t \in Threads, pc[t] = "call", NEW p \in Target(t), Obey(t, p)
  PROVE  /\ p \in Posts /\ req[t] \in Requests /\ rstate[req[t]] # "none"
         /\ draft[t] \in Drafts /\ draft[t] = about[req[t]]
         /\ draft[t] \notin moved =>
              (post[p] = "none" \/ owner[p] = draft[t]) /\ p[1] = site[draft[t]]
         /\ \A q \in Posts : owner'[q] = IF q = p /\ post[q] = "none" THEN draft[t] ELSE owner[q]
         /\ \A q \in Posts : post'[q] # "none" \/ (q # p /\ post'[q] = post[q])
         /\ \A q \in Posts \ {p} : publisher'[q] = publisher[q]
         /\ publisher'[p] = publisher[p] \cup (IF kind[req[t]] = "publish" THEN {req[t]} ELSE {})
<1>1. p \in Posts /\ req[t] \in Requests /\ rstate[req[t]] # "none"
  BY TargetTypes, HasRequest
<1>2. Holds(pc[t], req[t], draft[t], read[t].link, read[t].site, got[t]) /\ MakersInv
  BY DEF LinkInv
<1>3. draft[t] \in Drafts /\ draft[t] = about[req[t]]
  BY <1>2 DEF Holds
<1>4. ASSUME draft[t] \notin moved
      PROVE  (post[p] = "none" \/ owner[p] = draft[t]) /\ p[1] = site[draft[t]]
  <2>1. read[t].site = site[draft[t]]
    BY <1>2, <1>4 DEF Holds
  <2>2. CASE p \in Fresh(read[t].site)
    BY <2>1, <2>2 DEF Fresh
  <2>3. CASE read[t].link # NoPost /\ p = <<read[t].site, read[t].link[2]>>
    <3>1. Mine(read[t].link, draft[t])
      BY <1>2, <1>4, <2>3 DEF Holds
    <3>2. PICK x \in Posts : x = read[t].link
      BY <3>1 DEF Mine, MadeFor
    <3>3. x \in Sites \X Nat
      BY <3>2, ContentAssumption
    <3>4. p = x
      BY <2>1, <2>3, <3>1, <3>2, <3>3 DEF Mine
    <3>. QED
      BY <3>1, <3>2, <3>4 DEF Mine, MadeFor
  <2>. QED
    BY <2>2, <2>3 DEF Target
<1>5. /\ owner' = [owner EXCEPT ![p] = IF post[p] = "none" THEN draft[t] ELSE @]
      /\ post' = [post EXCEPT ![p] = IF kind[req[t]] = "publish" THEN "publish" ELSE "draft"]
      /\ publisher' = [publisher EXCEPT ![p] =
                         IF kind[req[t]] = "publish" THEN @ \cup {req[t]} ELSE @]
  BY DEF Obey
<1>6. \A q \in Posts : owner'[q] = IF q = p /\ post[q] = "none" THEN draft[t] ELSE owner[q]
  BY <1>5 DEF TypeInv, SiteOK
<1>7. \A q \in Posts : post'[q] # "none" \/ (q # p /\ post'[q] = post[q])
  BY <1>5 DEF TypeInv, SiteOK
<1>8. /\ \A q \in Posts \ {p} : publisher'[q] = publisher[q]
      /\ publisher'[p] = publisher[p] \cup (IF kind[req[t]] = "publish" THEN {req[t]} ELSE {})
  BY <1>1, <1>5 DEF TypeInv, SiteOK
<1>. QED
  BY <1>1, <1>3, <1>4, <1>6, <1>7, <1>8

\* A draft of its first project is on its first site.
LEMMA PlaceStays ==
  ASSUME TypeInv, NEW t \in Threads, Step(t), NEW d \in Drafts, d \notin moved'
  PROVE  d \notin moved /\ site'[d] = site[d]
<1> USE DEF TypeInv, DraftsOK, content, place
<1>1. CASE \E e \in Drafts : Edit(t, e)
  BY <1>1 DEF Edit
<1>2. CASE Arrive(t) /\ ~(\E e \in Drafts : Edit(t, e))
  BY <1>2 DEF Arrive, AuditStart, AskArticle, AskRewrite, AskAbout, Ask, Press
<1>3. CASE Decide(t)
  BY <1>3 DEF Decide, GrantStep, GrantFinal, Count, Close, Succeed, Fail, Store
<1>4. CASE Execute(t)
  BY <1>4 DEF Execute, Write, Insert, Track, TrackFails, AuditInsert, AuditScore,
     Raise, Delete, Fetch, CallAnswered, CallFails, Keep, KeepFails, Drop
<1>5. CASE Die(t)
  BY <1>5 DEF Die
<1>. QED
  BY <1>1, <1>2, <1>3, <1>4, <1>5 DEF Step

\* Who publishes a post keeps its request.
LEMMA NextMakers ==
  ASSUME TypeInv, LinkInv, NEW t \in Threads, Step(t)
  PROVE  MakersInv'
<1>1. MakersInv
  BY DEF LinkInv
<1>2. CASE UNCHANGED <<post, owner, publisher>>
  <2>1. ASSUME NEW p \in Posts, NEW r \in publisher[p]
        PROVE  kind'[r] = "publish" /\ rstate'[r] # "none" /\ about'[r] \in Drafts
    BY <1>1, <2>1, AskedStays, RequestStays DEF MakersInv, TypeInv, SiteOK
  <2>. QED
    BY <1>1, <1>2, <2>1 DEF MakersInv
<1>3. ASSUME pc[t] = "call", NEW p \in Target(t), Obey(t, p) PROVE MakersInv'
  <2>1. ASSUME NEW q \in Posts, owner'[q] # NoDraft PROVE post'[q] # "none"
    BY <1>1, <1>3, <2>1, CallMakes DEF MakersInv
  <2>2. ASSUME NEW q \in Posts, NEW r \in publisher'[q]
        PROVE  kind'[r] = "publish" /\ rstate'[r] # "none" /\ about'[r] \in Drafts
    <3>1. r \in publisher[q] \/ (kind[req[t]] = "publish" /\ r = req[t])
      BY <1>3, <2>2, CallMakes
    <3>2. r \in Requests /\ kind[r] = "publish" /\ rstate[r] # "none" /\ about[r] \in Drafts
      BY <1>1, <1>3, <3>1, CallMakes DEF MakersInv, TypeInv, SiteOK
    <3>. QED
      BY <3>2, AskedStays, RequestStays
  <2>. QED
    BY <2>1, <2>2 DEF MakersInv
<1>. QED
  BY <1>2, <1>3, SiteStays

\* Whom a post was made for stays so.
LEMMA MadeForStays ==
  ASSUME TypeInv, LinkInv, NEW t \in Threads, Step(t), NEW p \in Posts, owner[p] # NoDraft
  PROVE  owner'[p] = owner[p]
<1>1. post[p] # "none"
  BY DEF LinkInv, MakersInv
<1>2. ASSUME pc[t] = "call", NEW q \in Target(t), Obey(t, q) PROVE owner'[p] = owner[p]
  BY <1>1, <1>2, CallMakes
<1>. QED
  BY <1>2, SiteStays

LEMMA MineStays ==
  ASSUME TypeInv, LinkInv, NEW t \in Threads, Step(t), NEW d \in Drafts, d \notin moved', NEW p,
         Mine(p, d)
  PROVE  Mine(p, d)'
<1>1. p \in Posts /\ owner[p] = d /\ owner[p] # NoDraft
  BY ContentAssumption DEF Mine, MadeFor
<1>2. owner'[p] = owner[p]
  BY <1>1, MadeForStays
<1>3. site'[d] = site[d]
  BY PlaceStays
<1>. QED
  BY <1>1, <1>2, <1>3 DEF Mine, MadeFor

\* A post that a request makes public was made for its draft.
LEMMA NextOwn ==
  ASSUME TypeInv, LinkInv, NEW t \in Threads, Step(t)
  PROVE  PublishedIsOwn'
<1> SUFFICES ASSUME NEW p \in Posts, NEW r \in publisher'[p], about'[r] \notin moved'
             PROVE  owner'[p] = about'[r]
  BY DEF PublishedIsOwn
<1>1. MakersInv /\ PublishedIsOwn
  BY DEF LinkInv
<1>2. CASE r \in publisher[p]
  <2>1. r \in Requests /\ rstate[r] # "none" /\ about[r] \in Drafts
    BY <1>1, <1>2 DEF MakersInv, TypeInv, SiteOK
  <2>2. about'[r] = about[r]
    BY <2>1, RequestStays
  <2>3. about[r] \notin moved
    BY <2>1, <2>2, PlaceStays
  <2>4. owner[p] = about[r] /\ owner[p] # NoDraft
    BY <1>1, <1>2, <2>1, <2>3, ContentAssumption DEF PublishedIsOwn
  <2>. QED
    BY <2>2, <2>4, MadeForStays
<1>3. CASE r \notin publisher[p]
  <2>1. CASE UNCHANGED <<post, owner, publisher>>
    BY <1>3, <2>1
  <2>2. ASSUME pc[t] = "call", NEW q \in Target(t), Obey(t, q) PROVE owner'[p] = about'[r]
    <3>1. p = q /\ r = req[t]
      BY <1>3, <2>2, CallMakes
    <3>2. r \in Requests /\ rstate[r] # "none" /\ draft[t] = about[r] /\ about[r] \in Drafts
      BY <2>2, <3>1, CallMakes
    <3>3. about'[r] = about[r]
      BY <3>2, RequestStays
    <3>4. draft[t] \notin moved
      BY <3>2, <3>3, PlaceStays
    <3>5. owner'[p] = draft[t]
      BY <2>2, <3>1, <3>4, CallMakes
    <3>. QED
      BY <3>2, <3>3, <3>5
  <2>. QED
    BY <2>1, <2>2, SiteStays
<1>. QED
  BY <1>2, <1>3

\* A row that is gone does not come back, and its link is what it was or the
\* post that was just stored.
LEMMA DraftStays ==
  ASSUME TypeInv, NEW t \in Threads, Step(t), NEW d \in Drafts
  PROVE  /\ dstatus[d] # "none" => dstatus'[d] # "none" /\ (Exists(d)' => Exists(d))
         /\ link'[d] = link[d] \/ (Keep(t) /\ d = draft[t] /\ link'[d] = got[t])
<1> USE DEF TypeInv, DraftsOK, content, place, Stored, Exists
<1>1. CASE \E e \in Drafts : Edit(t, e)
  BY <1>1 DEF Edit
<1>2. CASE Arrive(t) /\ ~(\E e \in Drafts : Edit(t, e))
  BY <1>2 DEF Arrive, AuditStart, AskArticle, AskRewrite, AskAbout, Ask, Press
<1>3. CASE Decide(t)
  BY <1>3 DEF Decide, GrantStep, GrantFinal, Count, Close, Succeed, Fail, Store
<1>4. CASE \E e \in Drafts : Insert(t, e)
  BY <1>4 DEF Insert
<1>5. CASE Delete(t) \/ Drop(t)
  BY <1>5 DEF Delete, Drop
<1>6. CASE Keep(t)
  BY <1>6 DEF Keep
<1>7. CASE \/ Write(t) \/ Track(t) \/ TrackFails(t) \/ AuditInsert(t) \/ AuditScore(t)
           \/ Raise(t) \/ Fetch(t) \/ CallAnswered(t) \/ CallFails(t) \/ KeepFails(t)
  BY <1>7 DEF Write, Track, TrackFails, AuditInsert, AuditScore, Raise, Fetch,
     CallAnswered, CallFails, KeepFails
<1>8. CASE Die(t)
  BY <1>8 DEF Die
<1>. QED
  BY <1>1, <1>2, <1>3, <1>4, <1>5, <1>6, <1>7, <1>8 DEF Step, Execute

\* What a thread about to store a post has in hand.
LEMMA KeepHolds ==
  ASSUME TypeInv, LinkInv, NEW t \in Threads, Keep(t)
  PROVE  /\ req[t] \in Requests /\ draft[t] = about[req[t]] /\ draft[t] \in Drafts
         /\ dstatus[draft[t]] # "none"
         /\ draft[t] \notin moved => Mine(got[t], draft[t])
         /\ got[t] \in Posts /\ got[t] # NoPost
<1>1. pc[t] = "keep"
  BY DEF Keep
<1>2. Holds(pc[t], req[t], draft[t], read[t].link, read[t].site, got[t])
  BY DEF LinkInv
<1>3. req[t] \in Requests
  BY <1>1, HasRequest
<1>4. draft[t] \in Drafts /\ got[t] \in Posts
  BY <1>1 DEF TypeInv, AimsOK, Aims
<1>. QED
  BY <1>1, <1>2, <1>3, <1>4, ContentAssumption DEF Holds

LEMMA KeptStays ==
  ASSUME TypeInv, LinkInv, NEW t \in Threads, Step(t), NEW d, Kept(d)
  PROVE  Kept(d)'
<1>1. d \in Drafts
  BY DEF Kept
<1>2. link[d] # NoPost => link'[d] # NoPost
  BY <1>1, DraftStays, KeepHolds
<1>3. dstatus'[d] # "none" /\ (Exists(d)' => Exists(d))
  BY <1>1, DraftStays DEF Kept
<1>. QED
  BY <1>1, <1>2, <1>3 DEF Kept

\* A link is to a post that was made for the draft.
LEMMA NextLinks ==
  ASSUME TypeInv, LinkInv, NEW t \in Threads, Step(t), NEW d \in Drafts, d \notin moved',
         link'[d] # NoPost
  PROVE  Mine(link[d], d)'
<1>1. d \notin moved
  BY PlaceStays
<1>2. PICK p : p = link'[d]
  OBVIOUS
<1>3. Mine(p, d)
  <2>1. CASE link'[d] = link[d]
    BY <1>1, <1>2, <2>1 DEF LinkInv
  <2>2. CASE Keep(t) /\ d = draft[t] /\ link'[d] = got[t]
    BY <1>1, <1>2, <2>2, KeepHolds
  <2>. QED
    BY <2>1, <2>2, DraftStays
<1>4. Mine(p, d)'
  BY <1>3, MineStays
<1>. QED
  BY <1>2, <1>4 DEF Mine, MadeFor

\* What a thread holds stays true while others step.
LEMMA HoldsStays ==
  ASSUME TypeInv, LinkInv, NEW t \in Threads, Step(t), NEW n, NEW q \in Requests, NEW d, NEW x,
         NEW s, NEW g, rstate[q] # "none", Holds(n, q, d, x, s, g)
  PROVE  Holds(n, q, d, x, s, g)'
<1>1. kind'[q] = kind[q] /\ about'[q] = about[q]
  BY RequestStays
<1>2. ASSUME n \in {"call", "keep"}
      PROVE  d = about'[q] /\ d \in Drafts /\ dstatus'[d] # "none"
  BY <1>1, <1>2, DraftStays DEF Holds
<1>3. ASSUME n \in {"call", "keep"}, d \notin moved'
      PROVE  /\ d \notin moved /\ s = site'[d]
             /\ x # NoPost => Mine(x, d)'
             /\ n = "keep" => Mine(g, d)'
  <2>1. d \in Drafts
    BY <1>3 DEF Holds
  <2>2. d \notin moved /\ site'[d] = site[d]
    BY <1>3, <2>1, PlaceStays
  <2>3. s = site[d] /\ (x # NoPost => Mine(x, d)) /\ (n = "keep" => Mine(g, d))
    BY <1>3, <2>2 DEF Holds
  <2>4. \A p : Mine(p, d) => Mine(p, d)'
    BY <1>3, <2>1, MineStays
  <2>. QED
    BY <2>2, <2>3, <2>4 DEF Mine, MadeFor
<1>4. \A e : Kept(e) => Kept(e)'
  BY KeptStays
<1>5. Kept(about[q]) => Kept(about[q])'
  BY <1>1, <1>4 DEF Kept, Exists
<1>. QED
  BY <1>1, <1>2, <1>3, <1>5 DEF Holds

\* The thread that steps.
LEMMA OwnHolds ==
  ASSUME TypeInv, LawInv, LinkInv, NEW t \in Threads, Step(t)
  PROVE  Holds(pc[t], req[t], draft[t], read[t].link, read[t].site, got[t])'
<1> USE DEF TypeInv, requests
<1>t. /\ pc \in [Threads -> Steps] /\ req \in [Threads -> Requests \cup {NoRequest}]
      /\ draft \in [Threads -> Drafts \cup {NoDraft}]
      /\ read \in [Threads -> ReadType] /\ got \in [Threads -> Posts \cup {NoPost}]
  BY DEF ThreadsOK
<1>l. Lawful(pc[t], req[t], got[t]) /\ Aims(t, pc[t], req[t], draft[t], got[t])
  BY DEF LawInv, AimsOK
<1>0. ASSUME pc'[t] \notin {"call", "keep", "store"}
      PROVE  Holds(pc[t], req[t], draft[t], read[t].link, read[t].site, got[t])'
  BY <1>0 DEF Holds
<1>1. CASE Arrive(t) \/ Decide(t) \/ Die(t)
  <2>1. pc'[t] \notin {"call", "keep", "store"}
    BY <1>1, <1>t DEF Arrive, Edit, AuditStart, AskArticle, AskRewrite, AskAbout, Ask, Press,
       Serve, Decide, GrantStep, GrantFinal, Close, Succeed, Fail, Store, Die, Release, Goto
  <2>. QED
    BY <1>0, <2>1
<1>2. CASE \/ Write(t) \/ AuditInsert(t) \/ Raise(t) \/ CallFails(t) \/ KeepFails(t)
           \/ \E d \in Drafts : Insert(t, d)
  <2>1. pc'[t] \notin {"call", "keep", "store"}
    BY <1>2, <1>t DEF Write, AuditInsert, Raise, CallFails, KeepFails, Insert, Goto, Rescue
  <2>. QED
    BY <1>0, <2>1
<1>3. CASE Track(t) \/ TrackFails(t) \/ Delete(t) \/ Drop(t)
  <2>1. kind'[req'[t]] # "publish" /\ pc'[t] \notin {"call", "keep"}
    BY <1>3, <1>t, <1>l
       DEF Track, TrackFails, Delete, Drop, Running, Goto, Lawful, Aims, locals
  <2>. QED
    BY <2>1 DEF Holds
<1>4. CASE AuditScore(t)
  <2>1. CASE req[t] = NoRequest
    BY <1>0, <1>4, <1>t, <2>1 DEF AuditScore, Release, Goto
  <2>2. CASE req[t] # NoRequest
    <3>1. kind'[req'[t]] # "publish" /\ pc'[t] = "store"
      BY <1>4, <1>t, <1>l, <2>2 DEF AuditScore, Goto, Lawful, locals
    <3>. QED
      BY <3>1 DEF Holds
  <2>. QED
    BY <2>1, <2>2
<1>5. CASE Fetch(t)
  <2>. DEFINE d == about[req[t]]
  <2>1. /\ pc'[t] = "call" /\ req' = req /\ draft'[t] = d
        /\ read'[t].link = link[d] /\ read'[t].site = site[d]
        /\ UNCHANGED <<about, dstatus, owner, site, moved>>
    BY <1>5, <1>t DEF Fetch, Goto, ReadType, content, place, made
  <2>2. d \in Drafts /\ dstatus[d] # "none"
    BY <1>5 DEF Fetch, Exists, Stored
  <2>3. d \notin moved /\ link[d] # NoPost => Mine(link[d], d)
    BY <2>2 DEF LinkInv
  <2>. QED
    BY <2>1, <2>2, <2>3 DEF Holds, Mine, MadeFor
<1>6. CASE CallAnswered(t)
  <2>1. PICK p \in Target(t) : Obey(t, p) /\ got' = [got EXCEPT ![t] = p]
    BY <1>6 DEF CallAnswered
  <2>2. pc[t] = "call" /\ p \in Posts /\ req[t] \in Requests /\ rstate[req[t]] # "none"
    BY <1>6, <2>1, CallMakes DEF CallAnswered
  <2>3. /\ pc'[t] = "keep" /\ req' = req /\ draft' = draft /\ read' = read /\ got'[t] = p
        /\ about' = about /\ moved' = moved /\ site' = site /\ req[t] # NoRequest
    BY <1>6, <1>t, <2>1, <2>2, ContentAssumption DEF CallAnswered, Goto, content, place
  <2>4. /\ draft[t] = about[req[t]] /\ draft[t] \in Drafts
        /\ Holds("call", req[t], draft[t], read[t].link, read[t].site, got[t])
    BY <2>2 DEF LinkInv, Holds
  <2>5. Holds("call", req[t], draft[t], read[t].link, read[t].site, got[t])'
    <3>1. PICK q \in Requests : q = req[t]
      BY <2>2
    <3>2. PICK d \in Drafts : d = draft[t]
      BY <2>4
    <3>3. PICK x, s : x = read[t].link /\ s = read[t].site
      OBVIOUS
    <3>4. PICK g : g = got[t]
      OBVIOUS
    <3>5. rstate[q] # "none" /\ Holds("call", q, d, x, s, g)
      BY <2>2, <2>4, <3>1, <3>2, <3>3, <3>4
    <3>6. Holds("call", q, d, x, s, g)'
      BY <3>5, HoldsStays
    <3>. QED
      BY <2>3, <3>1, <3>2, <3>3, <3>6 DEF Holds, Mine, MadeFor
  <2>6. ASSUME draft[t] \notin moved PROVE Mine(p, draft[t])'
    <3>1. owner'[p] = draft[t] /\ p[1] = site[draft[t]]
      BY <2>1, <2>2, <2>6, CallMakes
    <3>. QED
      BY <2>2, <2>3, <3>1 DEF Mine, MadeFor
  <2>. QED
    BY <2>3, <2>5, <2>6 DEF Holds, Mine, MadeFor
<1>7. CASE Keep(t)
  <2>1. /\ pc'[t] = "store" /\ req' = req /\ about' = about /\ draft[t] = about[req[t]]
        /\ draft[t] \in Drafts /\ dstatus[draft[t]] # "none" /\ got[t] # NoPost
    BY <1>7, <1>t, KeepHolds DEF Keep, Goto, locals
  <2>2. Exists(draft[t]) =>
          dstatus'[draft[t]] # "none" /\ link'[draft[t]] = got[t]
    BY <1>7, <2>1 DEF Keep, DraftsOK
  <2>3. ~Exists(draft[t]) => dstatus' = dstatus
    BY <1>7 DEF Keep
  <2>. QED
    BY <2>1, <2>2, <2>3 DEF Holds, Kept, Exists
<1>. QED
  BY <1>1, <1>2, <1>3, <1>4, <1>5, <1>6, <1>7 DEF Step, Execute

LEMMA NextHolds ==
  ASSUME TypeInv, LawInv, LinkInv, NEW t \in Threads, Step(t), NEW u \in Threads
  PROVE  Holds(pc[u], req[u], draft[u], read[u].link, read[u].site, got[u])'
<1>1. CASE u = t
  BY <1>1, OwnHolds
<1>2. CASE u # t
  <2>1. /\ pc'[u] = pc[u] /\ req'[u] = req[u] /\ draft'[u] = draft[u]
        /\ read'[u] = read[u] /\ got'[u] = got[u]
    BY <1>2, OthersStay
  <2>2. CASE pc[u] \in {"call", "keep", "store"}
    <3>1. req[u] \in Requests /\ rstate[req[u]] # "none"
      BY <2>2, HasRequest
    <3>3. Holds(pc[u], req[u], draft[u], read[u].link, read[u].site, got[u])
      BY DEF LinkInv
    <3>4. PICK n : n = pc[u]
      OBVIOUS
    <3>5. PICK q \in Requests : q = req[u]
      BY <3>1
    <3>6. PICK d : d = draft[u]
      OBVIOUS
    <3>7. PICK x, s : x = read[u].link /\ s = read[u].site
      OBVIOUS
    <3>8. PICK g : g = got[u]
      OBVIOUS
    <3>9. Holds(n, q, d, x, s, g)'
      BY <3>1, <3>3, <3>4, <3>5, <3>6, <3>7, <3>8, HoldsStays
    <3>. QED
      BY <2>1, <3>4, <3>5, <3>6, <3>7, <3>8, <3>9 DEF Holds, Mine, MadeFor, Kept, Exists
  <2>3. CASE pc[u] \notin {"call", "keep", "store"}
    BY <2>1, <2>3 DEF Holds
  <2>. QED
    BY <2>2, <2>3
<1>. QED
  BY <1>1, <1>2

LEMMA NextLinkInv == TypeInv /\ LawInv /\ LinkInv /\ [Next]_vars => LinkInv'
<1> SUFFICES ASSUME TypeInv, LawInv, LinkInv, [Next]_vars PROVE LinkInv'
  OBVIOUS
<1>1. ASSUME NEW t \in Threads, Step(t) PROVE LinkInv'
  <2>1. MakersInv'
    BY <1>1, NextMakers
  <2>2. PublishedIsOwn' /\ \A d \in Drafts :
          d \notin moved' /\ link'[d] # NoPost => Mine(link[d], d)'
    BY <1>1, NextLinks, NextOwn
  <2>3. \A u \in Threads : Holds(pc[u], req[u], draft[u], read[u].link, read[u].site, got[u])'
    BY <1>1, NextHolds
  <2>4. ASSUME NEW r \in Requests, rstate'[r] = "executed", kind'[r] = "publish"
        PROVE  Kept(about[r])'
    <3>1. rstate[r] = "executed" \/ (Succeed(t) /\ r = req[t])
      BY <1>1, <2>4, ExecutedBySucceed
    <3>2. rstate[r] # "none"
      BY <3>1, HasRequest DEF Succeed
    <3>3. kind[r] = "publish" /\ about'[r] = about[r]
      BY <1>1, <2>4, <3>2, RequestStays
    <3>4. Kept(about[r])
      <4>1. CASE rstate[r] = "executed"
        BY <3>3, <4>1 DEF LinkInv
      <4>2. CASE Succeed(t) /\ r = req[t]
        BY <3>3, <4>2 DEF LinkInv, Holds, Succeed
      <4>. QED
        BY <3>1, <4>1, <4>2
    <3>5. \A d : Kept(d) => Kept(d)'
      BY <1>1, KeptStays
    <3>. QED
      BY <3>3, <3>4, <3>5 DEF Kept, Exists
  <2>. QED
    BY <2>1, <2>2, <2>3, <2>4 DEF LinkInv
<1>2. CASE UNCHANGED vars
  BY <1>2 DEF vars, content, place, requests, locals, made, LinkInv, MakersInv, Mine, MadeFor,
              Kept, Holds, Exists, PublishedIsOwn
<1>. QED
  BY <1>1, <1>2 DEF Next, Step

LEMMA LinkInvariant == Spec => []LinkInv
<1>1. Init => LawInv
  BY DEF Init, LawInv, Lawful
<1>2. Init => LinkInv
  <2>1. Init => \A d \in Drafts : link[d] # NoPost => Mine(link[d], d)
    BY DEF Init, Mine, MadeFor
  <2>. QED
    BY <2>1, ContentAssumption DEF Init, LinkInv, MakersInv, Holds, PublishedIsOwn
<1>. QED
  BY <1>1, <1>2, NextLaw, NextLinkInv, TypeInvariant, PTL DEF Spec

\* For any drafts, sites, posts and threads: content.publish makes public what
\* was made for its draft, unless the draft's project was changed.
THEOREM PublishedIsOwnCorrect == Spec => []PublishedIsOwn
<1>1. LinkInv => PublishedIsOwn
  BY DEF LinkInv
<1>. QED
  BY <1>1, LinkInvariant, PTL

\* For any drafts, requests, posts and threads: once a publication is recorded
\* as executed, the draft that is still there, in its first project, names the
\* post, if it is the only one made for it, whichever calls failed or overlapped
\* on the way.
THEOREM OnlyPostIsLinkedCorrect == Spec => []OnlyPostIsLinked
<1>1. TypeInv /\ LinkInv => OnlyPostIsLinked
  <2>. SUFFICES ASSUME TypeInv, LinkInv, NEW p \in Posts, NEW r \in Requests,
                       r \in publisher[p], rstate[r] = "executed", Exists(about[r]),
                       about[r] \notin moved,
                       \A q \in Posts \ {p} : owner[q] # about[r]
                PROVE  link[about[r]] = p
    BY DEF OnlyPostIsLinked
  <2>1. kind[r] = "publish"
    BY DEF LinkInv, MakersInv
  <2>2. about[r] \in Drafts /\ link[about[r]] # NoPost
    BY <2>1 DEF LinkInv, Kept
  <2>3. Mine(link[about[r]], about[r])
    BY <2>2 DEF LinkInv
  <2>. QED
    BY <2>3 DEF Mine, MadeFor
<1>. QED
  BY <1>1, LinkInvariant, TypeInvariant, PTL
-----------------------------------------------------------------------------
(* Authority. Every run that was granted and is not felt yet has an        *)
(* approval of its own beside those of the runs before it; a red request    *)
(* keeps one more, given by whoever first raised its count.                 *)

Ahead == {"run", "insert", "call"}
Working(r) == {t \in Threads : req[t] = r /\ pc[t] \in Ahead}
Spent(r) == felt[r] + Cardinality(Working(r))
Seen(r) == count[r] # 0 \/ \E t \in Threads : req[t] = r /\ read[t].count # 0

PaidFor(r) ==
  /\ Spent(r) <= given[r]
  /\ kind[r] = "publish" /\ Seen(r) => Spent(r) + 1 <= given[r]
  /\ rstate[r] = "none" => count[r] = 0

PaidInv ==
  /\ \A r \in Requests : PaidFor(r)
  /\ \A t \in Threads : pc[t] \in Ahead /\ kind[req[t]] = "publish" => read[t].count # 0

LEMMA WorkingFinite ==
  ASSUME NEW r
  PROVE  IsFiniteSet(Working(r)) /\ Cardinality(Working(r)) \in Nat
<1>1. Working(r) \subseteq Threads
  BY DEF Working
<1>. QED
  BY <1>1, ContentAssumption, FS_Subset, FS_CardinalityType

LEMMA WorkingFiniteNext ==
  ASSUME NEW r
  PROVE  IsFiniteSet(Working(r)') /\ Cardinality(Working(r)') \in Nat
<1>1. Working(r)' \subseteq Threads
  BY DEF Working
<1>. QED
  BY <1>1, ContentAssumption, FS_Subset, FS_CardinalityType

LEMMA SpentShrinks ==
  ASSUME NEW r, felt[r] \in Nat, felt'[r] = felt[r], Working(r)' \subseteq Working(r)
  PROVE  Spent(r)' <= Spent(r)
<1>1. Cardinality(Working(r)') <= Cardinality(Working(r))
  BY WorkingFinite, FS_Subset
<1>. QED
  BY <1>1, WorkingFinite, WorkingFiniteNext DEF Spent

LEMMA SpentByGrant ==
  ASSUME NEW r, felt[r] \in Nat, felt'[r] = felt[r], NEW t, Working(r)' \subseteq Working(r) \cup {t}
  PROVE  Spent(r)' <= Spent(r) + 1
<1>1. /\ IsFiniteSet(Working(r) \cup {t})
      /\ Cardinality(Working(r) \cup {t}) \in Nat
      /\ Cardinality(Working(r) \cup {t}) <= Cardinality(Working(r)) + 1
  <2>1. /\ IsFiniteSet(Working(r) \cup {t})
        /\ Cardinality(Working(r) \cup {t}) =
             IF t \in Working(r) THEN Cardinality(Working(r)) ELSE Cardinality(Working(r)) + 1
    BY WorkingFinite, FS_AddElement
  <2>. QED
    BY <2>1, WorkingFinite
<1>2. Cardinality(Working(r)') <= Cardinality(Working(r) \cup {t})
  BY <1>1, FS_Subset
<1>. QED
  BY <1>1, <1>2, WorkingFinite, WorkingFiniteNext DEF Spent

LEMMA SpentByRun ==
  ASSUME NEW r, felt[r] \in Nat, felt'[r] = felt[r] + 1, NEW t \in Working(r),
         Working(r)' \subseteq Working(r) \ {t}
  PROVE  Spent(r)' <= Spent(r)
<1>1. IsFiniteSet(Working(r) \ {t}) /\ Cardinality(Working(r) \ {t}) = Cardinality(Working(r)) - 1
  BY WorkingFinite, FS_RemoveElement
<1>2. Cardinality(Working(r)') <= Cardinality(Working(r)) - 1
  BY <1>1, FS_Subset
<1>. QED
  BY <1>2, WorkingFinite, WorkingFiniteNext DEF Spent

Grant(t) == GrantStep(t) \/ GrantFinal(t)

\* What a step does to the approvals and to what is felt.
LEMMA GivenStays ==
  ASSUME NEW t \in Threads, Step(t), ~Grant(t)
  PROVE  UNCHANGED <<given, count>>
<1> USE DEF requests
<1>1. CASE Arrive(t)
  BY <1>1 DEF Arrive, Edit, AuditStart, AskArticle, AskRewrite, AskAbout, Ask, Press
<1>2. CASE Decide(t)
  BY <1>2 DEF Grant, Decide, Close, Succeed, Fail, Store
<1>3. CASE Execute(t)
  BY <1>3 DEF Execute, Write, Insert, Track, TrackFails, AuditInsert, AuditScore, Raise,
     Delete, Fetch, CallAnswered, CallFails, Keep, KeepFails, Drop
<1>4. CASE Die(t)
  BY <1>4 DEF Die
<1>. QED
  BY <1>1, <1>2, <1>3, <1>4 DEF Step

LEMMA FeltByRun ==
  ASSUME TypeInv, NEW t \in Threads, Step(t), felt' # felt
  PROVE  /\ Felt(t) /\ pc[t] \in Ahead /\ pc'[t] \notin Ahead /\ ~Grant(t)
         /\ UNCHANGED <<rstate, kind>>
<1> USE DEF made, requests, TypeInv, ThreadsOK, Ahead
<1>1. ~Arrive(t) /\ ~Decide(t) /\ ~Die(t)
  BY DEF Arrive, Edit, AuditStart, AskArticle, AskRewrite, AskAbout, Ask, Press,
     Decide, GrantStep, GrantFinal, Count, Close, Succeed, Fail, Store, Die
<1>2. CASE Execute(t)
  BY <1>1, <1>2 DEF Decide, Grant, Execute, Write, Insert, Track, TrackFails, AuditInsert,
     AuditScore, Raise, Delete, Fetch, CallAnswered, CallFails, Keep, KeepFails, Drop,
     Obey, Running, Goto, Rescue
<1>. QED
  BY <1>1, <1>2 DEF Step

\* A thread is about to be felt only once it was granted, and keeps the count
\* it decided on.
LEMMA AheadByGrant ==
  ASSUME TypeInv, NEW t \in Threads, Step(t), pc'[t] \in Ahead, ~GrantFinal(t)
  PROVE  pc[t] \in Ahead /\ req'[t] = req[t] /\ read'[t].count = read[t].count
<1> USE DEF TypeInv, ThreadsOK, ReadType, Ahead, locals
<1>1. CASE Arrive(t)
  BY <1>1 DEF Arrive, Edit, AuditStart, AskArticle, AskRewrite, AskAbout, Ask, Press, Serve
<1>2. CASE Decide(t)
  BY <1>2 DEF Decide, GrantStep, Count, Close, Succeed, Fail, Store, Release, Goto
<1>3. CASE Fetch(t)
  BY <1>3 DEF Fetch, Goto
<1>4. CASE Execute(t) /\ ~Fetch(t)
  BY <1>4 DEF Execute, Write, Insert, Track, TrackFails, AuditInsert, AuditScore, Raise,
     Delete, CallAnswered, CallFails, Keep, KeepFails, Drop, Running, Release, Goto, Rescue
<1>5. CASE Die(t)
  BY <1>5 DEF Die, Release, Goto
<1>. QED
  BY <1>1, <1>2, <1>3, <1>4, <1>5 DEF Step

LEMMA ReadsCounts ==
  ASSUME TypeInv, NEW t \in Threads, Step(t)
  PROVE  \/ req'[t] = NoRequest
         \/ req'[t] = req[t] /\ read'[t].count = read[t].count
         \/ req'[t] \in Requests /\ read'[t].count = count[req'[t]] /\ ~Grant(t)
              /\ rstate[req'[t]] # "none"
<1> USE DEF TypeInv, ThreadsOK, ReadType, locals
<1>1. ASSUME NEW r \in Requests, NEW next, Press(t, r, next)
      PROVE  req'[t] = r /\ read'[t].count = count[r] /\ ~Grant(t) /\ rstate[r] # "none"
  BY <1>1 DEF Press, Serve, Grant, GrantStep, GrantFinal
<1>2. CASE Arrive(t) /\ ~(\E r \in Requests, next \in {"grant", "close"} : Press(t, r, next))
  BY <1>2 DEF Arrive, Edit, AuditStart, AskArticle, AskRewrite, AskAbout, Ask
<1>3. CASE Decide(t) \/ Die(t)
  BY <1>3 DEF Decide, GrantStep, GrantFinal, Close, Succeed, Fail, Store, Die, Release
<1>4. CASE AuditScore(t)
  BY <1>4 DEF AuditScore, Release
<1>5. CASE Fetch(t)
  BY <1>5 DEF Fetch
<1>6. CASE Execute(t) /\ ~AuditScore(t) /\ ~Fetch(t)
  BY <1>6 DEF Execute, Write, Insert, Track, TrackFails, AuditInsert, Raise,
     Delete, CallAnswered, CallFails, Keep, KeepFails, Drop
<1>. QED
  BY <1>1, <1>2, <1>3, <1>4, <1>5, <1>6 DEF Step, Arrive
\* What a step makes of the threads at work on a request, and of its count.
LEMMA WorkingStays ==
  ASSUME TypeInv, NEW t \in Threads, Step(t), NEW r \in Requests
  PROVE  Working(r)' \subseteq Working(r) \cup (IF GrantFinal(t) /\ r = req[t] THEN {t} ELSE {})
<1>1. ASSUME NEW u \in Threads, req'[u] = r, pc'[u] \in Ahead
      PROVE  u \in Working(r) \/ (GrantFinal(t) /\ r = req[t] /\ u = t)
  <2>1. CASE u # t
    BY <1>1, <2>1, OthersStay DEF Working
  <2>2. CASE u = t /\ ~GrantFinal(t)
    BY <1>1, <2>2, AheadByGrant DEF Working
  <2>3. CASE u = t /\ GrantFinal(t)
    BY <1>1, <2>3 DEF GrantFinal, locals
  <2>. QED
    BY <2>1, <2>2, <2>3
<1>2. ASSUME NEW u \in Working(r)' PROVE u \in Threads /\ req'[u] = r /\ pc'[u] \in Ahead
  BY <1>2 DEF Working
<1>. QED
  BY <1>1, <1>2

LEMMA SeenStays ==
  ASSUME TypeInv, NEW t \in Threads, Step(t), NEW r \in Requests, rstate[r] # "none",
         count'[r] = count[r], Seen(r)'
  PROVE  Seen(r)
<1>1. CASE count'[r] # 0
  BY <1>1 DEF Seen
<1>2. ASSUME NEW u \in Threads, req'[u] = r, read'[u].count # 0 PROVE Seen(r)
  <2>1. CASE u # t
    BY <1>2, <2>1, OthersStay DEF Seen
  <2>2. CASE u = t
    BY <1>2, <2>2, ReadsCounts, ContentAssumption DEF Seen
  <2>. QED
    BY <2>1, <2>2
<1>. QED
  BY <1>1, <1>2 DEF Seen

\* A request nobody asked for has no thread at work, and none that read it.
LEMMA NobodyBefore ==
  ASSUME TypeInv, NEW r \in Requests, rstate[r] = "none"
  PROVE  \A t \in Threads : req[t] # r
BY ContentAssumption DEF TypeInv, AimsOK, Aims

LEMMA OthersPaid ==
  ASSUME TypeInv, PaidInv, NEW t \in Threads, Step(t), NEW r \in Requests,
         ~Grant(t) \/ r # req[t]
  PROVE  PaidFor(r)'
<1> USE DEF TypeInv
<1>1. count'[r] = count[r] /\ given'[r] = given[r]
  <2>1. CASE ~Grant(t)
    BY <2>1, GivenStays
  <2>2. CASE Grant(t)
    BY <2>2 DEF Grant, GrantStep, GrantFinal, Count, RequestsOK
  <2>. QED
    BY <2>1, <2>2
<1>2. Working(r)' \subseteq Working(r)
  BY WorkingStays DEF Grant
<1>3. felt[r] \in Nat /\ felt'[r] \in Nat /\ given[r] \in Nat /\ Spent(r) \in Nat
  BY NextTypes, WorkingFinite DEF SiteOK, RequestsOK, Spent, Step, Next
<1>4. Spent(r)' <= Spent(r)
  <2>1. CASE felt'[r] = felt[r]
    BY <1>2, <1>3, <2>1, SpentShrinks
  <2>2. CASE felt'[r] # felt[r]
    <3>1. Felt(t) /\ pc[t] \in Ahead /\ pc'[t] \notin Ahead
      BY <2>2, FeltByRun
    <3>2. r = req[t] /\ felt'[r] = felt[r] + 1
      BY <2>2, <3>1 DEF Felt, SiteOK
    <3>3. t \in Working(r) /\ t \notin Working(r)'
      BY <3>1, <3>2 DEF Working
    <3>. QED
      BY <1>2, <1>3, <3>2, <3>3, SpentByRun
  <2>. QED
    BY <2>1, <2>2
<1>5. Spent(r)' \in Nat
  BY <1>3, WorkingFiniteNext DEF Spent
<1>6. PaidFor(r)
  BY DEF PaidInv
<1>7. CASE rstate[r] # "none"
  <2>1. kind'[r] = kind[r] /\ rstate'[r] # "none"
    <3>1. rstate'[r] # "none"
      <4> USE DEF requests, RequestsOK
      <4>1. CASE Arrive(t)
        BY <1>7, <4>1 DEF Arrive, Edit, AuditStart, AskArticle, AskRewrite, AskAbout, Ask, Press
      <4>2. CASE Decide(t)
        BY <1>7, <4>2 DEF Decide, GrantStep, GrantFinal, Count, Close, Succeed, Fail, Store
      <4>3. CASE Execute(t)
        BY <1>7, <4>3 DEF Execute, Write, Insert, Track, TrackFails, AuditInsert, AuditScore,
           Raise, Delete, Fetch, CallAnswered, CallFails, Keep, KeepFails, Drop
      <4>4. CASE Die(t)
        BY <1>7, <4>4 DEF Die
      <4>. QED
        BY <4>1, <4>2, <4>3, <4>4 DEF Step
    <3>. QED
      BY <1>7, <3>1, RequestStays
  <2>2. Seen(r)' => Seen(r)
    BY <1>1, <1>7, SeenStays
  <2>. QED
    BY <1>1, <1>3, <1>4, <1>5, <1>6, <2>1, <2>2 DEF PaidFor
<1>8. CASE rstate[r] = "none"
  <2>1. count'[r] = 0
    BY <1>1, <1>6, <1>8 DEF PaidFor
  <2>2. \A u \in Threads : req'[u] # r
    <3>1. \A u \in Threads \ {t} : req'[u] # r
      BY <1>8, NobodyBefore, OthersStay
    <3>2. req'[t] # r
      BY <1>8, NobodyBefore, ReadsCounts, ContentAssumption
    <3>. QED
      BY <3>1, <3>2
  <2>3. ~Seen(r)'
    BY <2>1, <2>2 DEF Seen
  <2>. QED
    BY <1>1, <1>3, <1>4, <1>5, <1>6, <2>1, <2>3 DEF PaidFor
<1>. QED
  BY <1>7, <1>8

\* A decision adds an approval, and at most one run.
LEMMA GrantPaid ==
  ASSUME TypeInv, PaidInv, NEW t \in Threads, Grant(t), NEW r \in Requests, r = req[t]
  PROVE  PaidFor(r)'
<1> USE DEF TypeInv
<1>1. r \in Requests /\ r # NoRequest /\ rstate[r] # "none"
  BY HasRequest DEF Grant, GrantStep, GrantFinal
<1>2. /\ given' = [given EXCEPT ![r] = @ + 1] /\ UNCHANGED <<felt, kind>>
      /\ \E st \in {"confirming", "approved"} : rstate' = [rstate EXCEPT ![r] = st]
  BY DEF Grant, GrantStep, GrantFinal, Count, made
<1>3. /\ felt[r] \in Nat /\ given[r] \in Nat /\ Spent(r) \in Nat /\ Spent(r)' \in Nat
      /\ felt'[r] = felt[r] /\ given'[r] = given[r] + 1 /\ kind'[r] = kind[r]
      /\ rstate'[r] # "none"
  BY <1>1, <1>2, WorkingFinite, WorkingFiniteNext DEF SiteOK, RequestsOK, Spent
<1>4. Step(t) /\ PaidFor(r)
  BY <1>1 DEF Step, Decide, Grant, PaidInv
<1>5. CASE GrantFinal(t)
  <2>1. Working(r)' \subseteq Working(r) \cup {t}
    BY <1>1, <1>4, <1>5, WorkingStays
  <2>2. Spent(r)' <= Spent(r) + 1
    BY <1>3, <2>1, SpentByGrant
  <2>3. kind[r] = "publish" => Seen(r)
    <3>1. kind[r] = "publish" => read[t].count + 1 >= 2
      BY <1>5 DEF GrantFinal, Required, Level
    <3>2. read[t].count \in Nat
      BY InHand DEF ReadType
    <3>. QED
      BY <3>1, <3>2 DEF Seen
  <2>4. kind[r] = "publish" => Spent(r)' + 1 <= given'[r]
    BY <1>3, <1>4, <2>2, <2>3 DEF PaidFor
  <2>5. Spent(r)' <= given'[r]
    BY <1>3, <1>4, <2>2 DEF PaidFor
  <2>. QED
    BY <1>3, <2>4, <2>5 DEF PaidFor
<1>6. CASE GrantStep(t)
  <2>1. Working(r)' \subseteq Working(r)
    <3>1. ~GrantFinal(t)
      BY <1>1, <1>6, InHand DEF GrantStep, GrantFinal, ReadType, Required, Level
    <3>. QED
      BY <1>1, <1>4, <3>1, WorkingStays
  <2>2. Spent(r)' <= Spent(r)
    BY <1>3, <2>1, SpentShrinks
  <2>3. Spent(r)' + 1 <= given'[r]
    BY <1>3, <1>4, <2>2 DEF PaidFor
  <2>. QED
    BY <1>3, <2>3 DEF PaidFor
<1>. QED
  BY <1>5, <1>6 DEF Grant

LEMMA NextPaid == TypeInv /\ PaidInv /\ [Next]_vars => PaidInv'
<1> SUFFICES ASSUME TypeInv, PaidInv, [Next]_vars PROVE PaidInv'
  OBVIOUS
<1>1. ASSUME NEW t \in Threads, Step(t) PROVE PaidInv'
  <2>1. ASSUME NEW r \in Requests PROVE PaidFor(r)'
    <3>1. CASE ~Grant(t) \/ r # req[t]
      BY <1>1, <3>1, OthersPaid
    <3>2. CASE Grant(t) /\ r = req[t]
      BY <3>2, GrantPaid
    <3>. QED
      BY <3>1, <3>2
  <2>2. ASSUME NEW u \in Threads, pc'[u] \in Ahead, kind'[req'[u]] = "publish"
        PROVE  read'[u].count # 0
    <3>1. ASSUME pc[u] \in Ahead, req'[u] = req[u], read'[u].count = read[u].count
          PROVE  read'[u].count # 0
      <4>1. req[u] \in Requests /\ rstate[req[u]] # "none"
        BY <3>1, HasRequest DEF Ahead
      <4>2. kind[req[u]] = "publish"
        BY <1>1, <2>2, <3>1, <4>1, RequestStays
      <4>. QED
        BY <3>1, <4>2 DEF PaidInv
    <3>2. CASE u # t
      BY <1>1, <2>2, <3>1, <3>2, OthersStay
    <3>3. CASE u = t /\ ~GrantFinal(t)
      BY <1>1, <2>2, <3>1, <3>3, AheadByGrant
    <3>4. CASE u = t /\ GrantFinal(t)
      <4>1. kind[req[t]] = "publish" /\ read' = read
        BY <2>2, <3>4 DEF GrantFinal, Count, locals
      <4>2. read[t].count + 1 >= 2 /\ read[t].count \in Nat
        BY <3>4, <4>1, InHand DEF GrantFinal, Required, Level, TypeInv, ReadType
      <4>. QED
        BY <3>4, <4>1, <4>2
    <3>. QED
      BY <3>2, <3>3, <3>4
  <2>. QED
    BY <2>1, <2>2 DEF PaidInv
<1>2. CASE UNCHANGED vars
  BY <1>2 DEF vars, requests, locals, made, PaidInv, PaidFor, Spent, Working, Seen
<1>. QED
  BY <1>1, <1>2 DEF Next, Step
-----------------------------------------------------------------------------
(* The steps of content, as the gate sees them.                            *)

Levels == [r \in Requests |-> IF rstate[r] = "none" THEN "none" ELSE Level(kind[r])]

LEMMA LevelsStay ==
  ASSUME \A r \in Requests : (rstate'[r] = "none" <=> rstate[r] = "none")
                             /\ (rstate[r] # "none" => kind'[r] = kind[r])
  PROVE  Levels' = Levels
BY DEF Levels, Level

LEMMA AskIsAsk ==
  ASSUME TypeInv, NEW t, NEW r \in Requests, NEW k \in Kind, NEW d, Ask(t, r, k, d)
  PROVE  Gate!GateNext
<1>1. /\ rstate[r] = "none" /\ rstate'[r] = "pending" /\ kind'[r] = k
      /\ \A q \in Requests \ {r} : rstate'[q] = rstate[q] /\ kind'[q] = kind[q]
      /\ UNCHANGED <<given, felt>>
  BY DEF Ask, TypeInv, RequestsOK, made
<1>2. Level(k) \in Gate!Level /\ Levels[r] = "none"
  BY <1>1 DEF Level, Gate!Level, Levels
<1>3. Levels' = [Levels EXCEPT ![r] = Level(k)]
  BY <1>1 DEF Levels, Level
<1>4. Gate!Ask(r, Level(k))
  BY <1>1, <1>2, <1>3 DEF Gate!Ask, Levels
<1>. QED
  BY <1>2, <1>4 DEF Gate!GateNext

LEMMA GrantIsApprove ==
  ASSUME TypeInv, NEW t \in Threads, Grant(t)
  PROVE  Gate!GateNext
<1>1. req[t] \in Requests /\ rstate[req[t]] # "none"
  BY HasRequest DEF Grant, GrantStep, GrantFinal
<1>2. /\ given' = [given EXCEPT ![req[t]] = @ + 1] /\ UNCHANGED <<felt, kind>>
      /\ \E st \in {"confirming", "approved"} : rstate' = [rstate EXCEPT ![req[t]] = st]
  BY DEF Grant, GrantStep, GrantFinal, Count, made
<1>3. Levels' = Levels
  BY <1>1, <1>2, LevelsStay DEF TypeInv, RequestsOK
<1>4. Gate!Approve(req[t])
  BY <1>1, <1>2, <1>3 DEF Gate!Approve, Levels, Level
<1>. QED
  BY <1>1, <1>4 DEF Gate!GateNext

LEMMA FeltIsRun ==
  ASSUME TypeInv, PaidInv, NEW t \in Threads, Step(t), felt' # felt
  PROVE  Gate!GateNext
<1>. DEFINE r == req[t]
<1>1. /\ felt' = [felt EXCEPT ![r] = @ + 1] /\ pc[t] \in Ahead
      /\ UNCHANGED <<rstate, kind, given>>
  BY FeltByRun, GivenStays DEF Felt
<1>2. r \in Requests /\ rstate[r] # "none"
  BY <1>1, HasRequest DEF Ahead
<1>3. /\ felt[r] \in Nat /\ given[r] \in Nat
      /\ Cardinality(Working(r)) \in Nat /\ Cardinality(Working(r)) # 0
  <2>1. t \in Working(r)
    BY <1>1 DEF Working
  <2>. QED
    BY <1>2, <2>1, WorkingFinite, FS_EmptySet DEF TypeInv, SiteOK, RequestsOK
<1>4. felt[r] + Gate!Needed(Levels[r]) <= given[r]
  <2>1. PaidFor(r) /\ Levels[r] = Level(kind[r])
    BY <1>2 DEF PaidInv, Levels
  <2>2. CASE kind[r] = "publish"
    <3>1. Seen(r)
      BY <1>1, <2>2 DEF PaidInv, Seen
    <3>2. Gate!Needed(Levels[r]) = 2
      BY <2>1, <2>2 DEF Level, Gate!Needed
    <3>. QED
      BY <1>3, <2>1, <2>2, <3>1, <3>2 DEF PaidFor, Spent
  <2>3. CASE kind[r] # "publish"
    <3>1. Gate!Needed(Levels[r]) = 1
      BY <2>1, <2>3 DEF Level, Gate!Needed
    <3>. QED
      BY <1>3, <2>1, <3>1 DEF PaidFor, Spent
  <2>. QED
    BY <2>2, <2>3
<1>5. Levels' = Levels
  BY <1>1 DEF Levels, Level
<1>6. Gate!Run(r)
  BY <1>1, <1>2, <1>4, <1>5 DEF Gate!Run, Levels, Level
<1>. QED
  BY <1>2, <1>6 DEF Gate!GateNext

LEMMA StepIsGateStep ==
  ASSUME TypeInv, PaidInv, [Next]_vars
  PROVE  [Gate!GateNext]_(Gate!gateVars)
<1>1. ASSUME NEW t \in Threads, Step(t) PROVE [Gate!GateNext]_(Gate!gateVars)
  <2>1. CASE Grant(t)
    BY <2>1, GrantIsApprove
  <2>2. CASE felt' # felt
    BY <1>1, <2>2, FeltIsRun
  <2>3. CASE \E r \in Requests :
               AskArticle(t, r) \/ \E d \in Drafts : AskRewrite(t, r, d) \/ AskAbout(t, r, d)
    BY <2>3, AskIsAsk DEF AskArticle, AskRewrite, AskAbout, Kind
  <2>4. ASSUME ~Grant(t), felt' = felt,
               ~(\E r \in Requests :
                   AskArticle(t, r) \/ \E d \in Drafts : AskRewrite(t, r, d) \/ AskAbout(t, r, d))
        PROVE  UNCHANGED Gate!gateVars
    <3>1. \A r \in Requests : rstate'[r] = "none" <=> rstate[r] = "none"
      <4> USE DEF requests, TypeInv, RequestsOK
      <4>1. CASE Arrive(t)
        BY <2>4, <4>1 DEF Arrive, Edit, AuditStart, Press
      <4>2. CASE Decide(t)
        <5>1. req[t] \in Requests /\ rstate[req[t]] # "none"
          BY <2>4, <4>2, HasRequest DEF Grant, Decide, Close, Succeed, Fail
        <5>. QED
          BY <2>4, <4>2, <5>1 DEF Grant, Decide, Close, Succeed, Fail, Store
      <4>3. CASE Execute(t)
        BY <4>3 DEF Execute, Write, Insert, Track, TrackFails, AuditInsert, AuditScore,
           Raise, Delete, Fetch, CallAnswered, CallFails, Keep, KeepFails, Drop
      <4>4. CASE Die(t)
        BY <4>4 DEF Die
      <4>. QED
        BY <1>1, <4>1, <4>2, <4>3, <4>4 DEF Step
    <3>2. \A r \in Requests : rstate[r] # "none" => kind'[r] = kind[r]
      BY <1>1, RequestStays
    <3>3. Levels' = Levels /\ given' = given
      BY <1>1, <2>4, <3>1, <3>2, LevelsStay, GivenStays
    <3>. QED
      BY <2>4, <3>3 DEF Gate!gateVars, Levels
  <2>. QED
    BY <2>1, <2>2, <2>3, <2>4
<1>2. CASE UNCHANGED vars
  BY <1>2 DEF vars, requests, made, Gate!gateVars, Level
<1>. QED
  BY <1>1, <1>2 DEF Next, Step

\* However decisions, runs, lost answers and retries overlap, every article,
\* post, publication and deletion is paid for by approvals of its own, two for
\* a publication: content implements ApprovalGate.
THEOREM ContentImplementsGate == Spec => ContentKeepsTheGate
<1>1. Init => Gate!GateInit
  BY DEF Init, Gate!GateInit
<1>2. Init => PaidInv
  <2> SUFFICES ASSUME Init PROVE PaidInv
    OBVIOUS
  <2>1. ASSUME NEW r \in Requests PROVE PaidFor(r)
    <3>1. Working(r) = {} /\ ~Seen(r)
      BY DEF Init, Working, Seen, Ahead, Nothing
    <3>2. Spent(r) = 0 /\ given[r] = 0 /\ count[r] = 0
      BY <3>1, FS_EmptySet DEF Init, Spent
    <3>. QED
      BY <3>1, <3>2 DEF PaidFor
  <2>. QED
    BY <2>1 DEF Init, PaidInv, Ahead
<1>3. TypeInv /\ PaidInv /\ [Next]_vars => [Gate!GateNext]_(Gate!gateVars)
  BY StepIsGateStep
<1>. QED
  BY <1>1, <1>2, <1>3, InitTypes, NextTypes, NextPaid, PTL
     DEF Spec, ContentKeepsTheGate, Gate!GateSpec
===============================================================================
