-------------------------- MODULE ContentPublishing --------------------------
(***************************************************************************)
(* Content drafts and their WordPress posts: app/content/repository.py,    *)
(* the content executors of app/approvals/actions.py, the agents           *)
(* content_agent, seo_agent and wordpress, and their endpoints.            *)
(*                                                                         *)
(* A step is one statement or one call to the site. What is written (prose,*)
(* scores) is a version number of the text. A green action has no row here:*)
(* nothing decides on it again. WordPress is external.                     *)
(***************************************************************************)
EXTENDS Naturals, Sequences, FiniteSets

CONSTANTS
  Drafts,     \* the draft_uids
  Requests,   \* the action_uids of yellow and red requests
  Sites,      \* the sites, one for each project
  Home,       \* the site of each draft's first project
  Posts,      \* the posts a site may have: a site and a number on it
  Foreign,    \* those that were made by hand
  Threads,    \* the server's request threads
  NoDraft, NoRequest, NoPost, NoSite,
  MaxCalls,   \* bound on the requests served
  MayFail     \* whether calls and statements fail and handlers are cut short

ASSUME ContentAssumption ==
  /\ NoDraft \notin Drafts /\ NoRequest \notin Requests
  /\ NoPost \notin Posts /\ NoSite \notin Sites
  /\ Posts \subseteq Sites \X Nat /\ Foreign \subseteq Posts
  /\ Home \in [Drafts -> Sites]
  /\ IsFiniteSet(Threads) /\ IsFiniteSet(Posts)
  /\ MaxCalls \in Nat
  /\ MayFail \in BOOLEAN

\* "other": pending_approval, rejected and archived, which nothing decides on.
Stored   == {"draft", "approved", "published", "other"}
Kind     == {"generate", "rewrite", "post", "publish", "delete"}
Level(k) == IF k = "publish" THEN "red" ELSE "yellow"
Required(k) == IF Level(k) = "red" THEN 2 ELSE 1

VARIABLES
  dstatus, text, link,  \* content_drafts; "none" before the row, "deleted" after it
  site,      \* the site of each draft's project
  score,     \* the version of the text its seo_score speaks of, plus one
  audits,    \* seo_audits
  tracked,   \* the drafts with a task to review them
  rstate, kind, about, count,  \* pending_actions and its payload
  post,      \* the sites' posts
  pc,        \* the next step of each thread
  req,       \* the request it decides on or runs
  draft,     \* the draft it works on
  read,      \* what it read: a count, a link and its site, a version of the text
  got,       \* the post of the site's answer
  calls,
  given,     \* the approvals each request was given
  felt,      \* how many runs of each request took effect
  owner,     \* the draft each post was made for
  publisher, \* the requests that made each post public
  claimed,   \* the drafts whose status was stored by content.publish
  moved      \* the drafts whose project was changed

place    == <<site, moved>>
content  == <<dstatus, text, link, place, score, audits, tracked>>
requests == <<rstate, kind, about, count>>
locals   == <<req, draft, read, got>>
made     == <<felt, owner, publisher>>
vars == <<content, requests, post, pc, locals, calls, given, made, claimed>>

Nothing == [count |-> 0, link |-> NoPost, site |-> NoSite, text |-> 0]

Init ==
  /\ dstatus \in [Drafts -> {"none", "draft"}]
  /\ text = [d \in Drafts |-> 0]
  /\ link \in [Drafts -> Posts \cup {NoPost}]
  /\ site = Home
  /\ owner \in [Posts -> Drafts \cup {NoDraft}]
  /\ \A p \in Posts, d \in Drafts :
       /\ owner[p] = d <=> link[d] = p
       /\ owner[p] = d => dstatus[d] = "draft" /\ p[1] = Home[d] /\ p \notin Foreign
  /\ score = [d \in Drafts |-> 0]
  /\ audits = <<>>
  /\ tracked = {}
  /\ rstate = [r \in Requests |-> "none"]
  /\ kind = [r \in Requests |-> "generate"]
  /\ about = [r \in Requests |-> NoDraft]
  /\ count = [r \in Requests |-> 0]
  /\ post = [p \in Posts |-> IF p \in Foreign \/ owner[p] \in Drafts THEN "draft" ELSE "none"]
  /\ pc = [t \in Threads |-> "idle"]
  /\ req = [t \in Threads |-> NoRequest]
  /\ draft = [t \in Threads |-> NoDraft]
  /\ read = [t \in Threads |-> Nothing]
  /\ got = [t \in Threads |-> NoPost]
  /\ calls = 0
  /\ given = [r \in Requests |-> 0]
  /\ felt = [r \in Requests |-> 0]
  /\ publisher = [p \in Posts |-> {}]
  /\ claimed = {}
  /\ moved = {}

Exists(d) == d \in Drafts /\ dstatus[d] \in Stored

Serve(t, next) ==
  /\ pc[t] = "idle"
  /\ calls < MaxCalls
  /\ calls' = calls + 1
  /\ pc' = [pc EXCEPT ![t] = next]

Goto(t, next) == pc' = [pc EXCEPT ![t] = next] /\ UNCHANGED calls

Release(t) ==
  /\ Goto(t, "idle")
  /\ req' = [req EXCEPT ![t] = NoRequest]
  /\ draft' = [draft EXCEPT ![t] = NoDraft]
  /\ read' = [read EXCEPT ![t] = Nothing]
  /\ got' = [got EXCEPT ![t] = NoPost]

-----------------------------------------------------------------------------
(* Green: an edit by hand and an audit run as soon as they are asked for.  *)

\* Variant: an edit starts the draft over, without its post.
EditAnew(t, d) ==
  /\ Serve(t, "idle")
  /\ Exists(d)
  /\ text' = [text EXCEPT ![d] = @ + 1]
  /\ link' = [link EXCEPT ![d] = NoPost]
  /\ UNCHANGED <<dstatus, claimed, place, score, audits, tracked, requests, post, locals,
                 given, made>>

\* content.draft_update: the text, the status and the project; any status is
\* stored, and the post's number stays when the project is another.
Edit(t, d) ==
  /\ Serve(t, "idle")
  /\ Exists(d)
  /\ \E v \in {text[d], text[d] + 1} : text' = [text EXCEPT ![d] = v]
  /\ \/ UNCHANGED <<dstatus, claimed>>
     \/ /\ \E st \in Stored : dstatus' = [dstatus EXCEPT ![d] = st]
        /\ claimed' = claimed \ {d}
  /\ \E s \in Sites :
       /\ site' = [site EXCEPT ![d] = s]
       /\ moved' = IF s = site[d] THEN moved ELSE moved \cup {d}
  /\ UNCHANGED <<link, score, audits, tracked, requests, post, locals, given, made>>

\* seo.audit, by its endpoint: the draft is read.
AuditStart(t, d) ==
  /\ Serve(t, "audit")
  /\ Exists(d)
  /\ draft' = [draft EXCEPT ![t] = d]
  /\ read' = [read EXCEPT ![t].text = text[d]]
  /\ UNCHANGED <<content, requests, post, req, got, given, made, claimed>>

\* Variant: the score is stored before the audit.
AuditUnbacked(t) ==
  /\ pc[t] = "audit"
  /\ Goto(t, "score")
  /\ UNCHANGED <<content, requests, post, locals, given, made, claimed>>

\* audit_content: the audit is stored, then the score on the draft.
AuditInsert(t) ==
  /\ pc[t] = "audit"
  /\ audits' = Append(audits, [draft |-> draft[t], text |-> read[t].text])
  /\ Goto(t, "score")
  /\ UNCHANGED <<dstatus, text, link, place, score, tracked, requests, post, locals,
                 given, made, claimed>>

\* The audit of a fresh article leads on to the outcome of its generation.
AuditScore(t) ==
  /\ pc[t] = "score"
  /\ score' = IF Exists(draft[t])
              THEN [score EXCEPT ![draft[t]] = read[t].text + 1] ELSE score
  /\ IF req[t] = NoRequest THEN Release(t) ELSE Goto(t, "store") /\ UNCHANGED locals
  /\ UNCHANGED <<dstatus, text, link, place, audits, tracked, requests, post, given,
                 made, claimed>>

-----------------------------------------------------------------------------
(* Yellow and red: requested, decided in a check and an UPDATE, and run.   *)

Ask(t, r, k, d) ==
  /\ Serve(t, "idle")
  /\ rstate[r] = "none"
  /\ rstate' = [rstate EXCEPT ![r] = "pending"]
  /\ kind' = [kind EXCEPT ![r] = k]
  /\ about' = [about EXCEPT ![r] = d]
  /\ UNCHANGED <<content, count, post, locals, given, made, claimed>>

AskArticle(t, r) == Ask(t, r, "generate", NoDraft)

\* The dashboard asks whether or not the draft is there.
AskRewrite(t, r, d) == Ask(t, r, "rewrite", d)
AskAbout(t, r, d)   == \E k \in {"post", "publish", "delete"} : Ask(t, r, k, d)

Press(t, r, next) ==
  /\ Serve(t, next)
  /\ rstate[r] \in {"pending", "confirming", "failed"}
  /\ req' = [req EXCEPT ![t] = r]
  /\ read' = [read EXCEPT ![t].count = count[r]]
  /\ UNCHANGED <<content, requests, post, draft, got, given, made, claimed>>

Close(t) ==
  /\ pc[t] = "close"
  /\ rstate' = [rstate EXCEPT ![req[t]] = "closed"]
  /\ Release(t)
  /\ UNCHANGED <<content, kind, about, count, post, given, made, claimed>>

Count(t, st) ==
  /\ rstate' = [rstate EXCEPT ![req[t]] = st]
  /\ count' = [count EXCEPT ![req[t]] = read[t].count + 1]
  /\ given' = [given EXCEPT ![req[t]] = @ + 1]
  /\ UNCHANGED <<content, kind, about, post, made, claimed>>

GrantStep(t) ==
  /\ pc[t] = "grant"
  /\ read[t].count + 1 < Required(kind[req[t]])
  /\ Count(t, "confirming")
  /\ Release(t)

GrantFinal(t) ==
  /\ pc[t] = "grant"
  /\ read[t].count + 1 >= Required(kind[req[t]])
  /\ Count(t, "approved")
  /\ Goto(t, "run")
  /\ UNCHANGED locals

\* The outcome is stored.
Store(t, st) ==
  /\ rstate' = [rstate EXCEPT ![req[t]] = st]
  /\ Release(t)
  /\ UNCHANGED <<content, kind, about, count, post, given, made, claimed>>

\* Variant: a status that is not known.
FailAsError(t) == pc[t] = "fail" /\ Store(t, "error")

Succeed(t) == pc[t] = "store" /\ Store(t, "executed")
Fail(t)    == pc[t] = "fail" /\ Store(t, "failed")

-----------------------------------------------------------------------------
(* The executors.                                                          *)

Running(t, k) == pc[t] = "run" /\ kind[req[t]] = k

Felt(t) == felt' = [felt EXCEPT ![req[t]] = @ + 1]

\* generate_article surveys the project's titles and queries and has an article
\* written; when the LLM fails a canned one takes its place.
Write(t) ==
  /\ Running(t, "generate")
  /\ Goto(t, "insert")
  /\ UNCHANGED <<content, requests, post, locals, given, made, claimed>>

\* The article is inserted as a draft. Nothing raises after that.
Insert(t, d) ==
  /\ pc[t] = "insert"
  /\ dstatus[d] = "none"
  /\ dstatus' = [dstatus EXCEPT ![d] = "draft"]
  /\ draft' = [draft EXCEPT ![t] = d]
  /\ Felt(t)
  /\ Goto(t, "track")
  /\ UNCHANGED <<text, link, place, score, audits, tracked, requests, post, req, read, got,
                 given, owner, publisher, claimed>>

\* Its task, then its audit; errors of either are swallowed.
Track(t) ==
  /\ pc[t] = "track"
  /\ tracked' = tracked \cup {draft[t]}
  /\ IF Exists(draft[t])
     THEN Goto(t, "audit") /\ read' = [read EXCEPT ![t].text = text[draft[t]]]
     ELSE Goto(t, "store") /\ UNCHANGED read
  /\ UNCHANGED <<dstatus, text, link, place, score, audits, requests, post, req, draft, got,
                 given, made, claimed>>

TrackFails(t) ==
  /\ MayFail
  /\ pc[t] \in {"track", "audit", "score"} /\ req[t] # NoRequest
  /\ Goto(t, "store")
  /\ UNCHANGED <<content, requests, post, locals, given, made, claimed>>

\* A request whose draft is gone raises, and so does every rewrite: it is asked
\* for as content.generate, whose executor wants a topic that it does not have.
Raise(t) ==
  /\ \/ Running(t, "rewrite")
     \/ /\ pc[t] = "run" /\ kind[req[t]] \in {"post", "publish", "delete"}
        /\ ~Exists(about[req[t]])
     \/ MayFail /\ pc[t] \in {"run", "insert"}
  /\ Goto(t, "fail")
  /\ UNCHANGED <<content, requests, post, locals, given, made, claimed>>

Delete(t) ==
  /\ Running(t, "delete")
  /\ Exists(about[req[t]])
  /\ dstatus' = [dstatus EXCEPT ![about[req[t]]] = "deleted"]
  /\ claimed' = claimed \ {about[req[t]]}
  /\ Felt(t)
  /\ Goto(t, "store")
  /\ UNCHANGED <<text, link, place, score, audits, tracked, requests, post, locals, given,
                 owner, publisher>>

\* get_draft, before a call to the site.
Fetch(t) ==
  /\ pc[t] = "run" /\ kind[req[t]] \in {"post", "publish"}
  /\ Exists(about[req[t]])
  /\ draft' = [draft EXCEPT ![t] = about[req[t]]]
  /\ read' = [read EXCEPT ![t] = [@ EXCEPT !.link = link[about[req[t]]],
                                         !.site = site[about[req[t]]]]]
  /\ Goto(t, "call")
  /\ UNCHANGED <<content, requests, post, req, got, given, made, claimed>>

\* A number of its own; which one does not matter, and the lowest stands for it.
Fresh(s) == {p \in Posts : /\ p[1] = s /\ post[p] = "none"
                           /\ \A q \in Posts : q[1] = s /\ post[q] = "none" => p[2] <= q[2]}

\* Variant: the number is looked up on any site.
TargetAnywhere(t) ==
  IF kind[req[t]] = "publish" /\ read[t].link # NoPost
  THEN {p \in Posts : p[2] = read[t].link[2] /\ post[p] # "none"} ELSE Fresh(read[t].site)

\* The post a call is about: a new one, or the one that has, on the site of the
\* draft's project, the number of the draft's post. Only content.publish looks at
\* that number.
Target(t) ==
  IF kind[req[t]] = "publish" /\ read[t].link # NoPost
  THEN {p \in Posts : p = <<read[t].site, read[t].link[2]>> /\ post[p] # "none"}
  ELSE Fresh(read[t].site)

\* The site does what it is asked.
Obey(t, p) ==
  /\ post' = [post EXCEPT ![p] = IF kind[req[t]] = "publish" THEN "publish" ELSE "draft"]
  /\ owner' = [owner EXCEPT ![p] = IF post[p] = "none" THEN draft[t] ELSE @]
  /\ publisher' = [publisher EXCEPT ![p] =
                     IF kind[req[t]] = "publish" THEN @ \cup {req[t]} ELSE @]
  /\ Felt(t)

CallAnswered(t) ==
  /\ pc[t] = "call"
  /\ \E p \in Target(t) : Obey(t, p) /\ got' = [got EXCEPT ![t] = p]
  /\ Goto(t, "keep")
  /\ UNCHANGED <<content, requests, req, draft, read, given, claimed>>

\* Variant: content.publish is rescued as content.publish_draft is.
RescueBoth(t) == "drop"

\* Where an exception leads: content.publish_draft takes any for a site that is
\* not connected, content.publish raises.
Rescue(t) == IF kind[req[t]] = "post" THEN "drop" ELSE "fail"

\* Variant: a call without an answer is made again.
CallRetries(t) ==
  /\ pc[t] = "call"
  /\ \E p \in Target(t) : Obey(t, p)
  /\ UNCHANGED <<pc, calls, content, requests, locals, given, claimed>>

\* No connection, a refusal, or an answer that is lost; a number that the site
\* does not have is refused.
CallFails(t) ==
  /\ pc[t] = "call"
  /\ MayFail \/ Target(t) = {}
  /\ \/ UNCHANGED <<post, made>>
     \/ \E p \in Target(t) : Obey(t, p)
  /\ Goto(t, Rescue(t))
  /\ UNCHANGED <<content, requests, locals, given, claimed>>

\* Variant: the post's id is not stored.
KeepStatusOnly(t) ==
  /\ pc[t] = "keep"
  /\ dstatus' = IF Exists(draft[t]) THEN [dstatus EXCEPT ![draft[t]] = "published"]
                ELSE dstatus
  /\ Goto(t, "store")
  /\ UNCHANGED <<text, link, place, score, audits, tracked, requests, post, locals, given,
                 made, claimed>>

\* The status and the post are stored in one UPDATE.
Keep(t) ==
  LET d == draft[t]
      public == kind[req[t]] = "publish"
  IN /\ pc[t] = "keep"
     /\ IF Exists(d)
        THEN /\ dstatus' = [dstatus EXCEPT ![d] = IF public THEN "published" ELSE "approved"]
             /\ link' = [link EXCEPT ![d] = got[t]]
             /\ claimed' = IF public THEN claimed \cup {d} ELSE claimed \ {d}
        ELSE UNCHANGED <<dstatus, link, claimed>>
     /\ Goto(t, "store")
     /\ UNCHANGED <<text, place, score, audits, tracked, requests, post, locals, given, made>>

KeepFails(t) ==
  /\ MayFail
  /\ pc[t] = "keep"
  /\ Goto(t, Rescue(t))
  /\ UNCHANGED <<content, requests, post, locals, given, made, claimed>>

\* The rescue: approved without a post.
Drop(t) ==
  /\ pc[t] = "drop"
  /\ dstatus' = IF Exists(draft[t]) THEN [dstatus EXCEPT ![draft[t]] = "approved"]
                ELSE dstatus
  /\ claimed' = claimed \ {draft[t]}
  /\ Goto(t, "store")
  /\ UNCHANGED <<text, link, place, score, audits, tracked, requests, post, locals, given, made>>

Die(t) ==
  /\ MayFail
  /\ pc[t] # "idle"
  /\ Release(t)
  /\ UNCHANGED <<content, requests, post, given, made, claimed>>

-----------------------------------------------------------------------------

Arrive(t) ==
  \/ \E d \in Drafts : Edit(t, d) \/ AuditStart(t, d)
  \/ \E r \in Requests :
       AskArticle(t, r) \/ \E d \in Drafts : AskRewrite(t, r, d) \/ AskAbout(t, r, d)
  \/ \E r \in Requests, next \in {"grant", "close"} : Press(t, r, next)

Decide(t) == GrantStep(t) \/ GrantFinal(t) \/ Close(t) \/ Succeed(t) \/ Fail(t)

Execute(t) ==
  \/ Write(t) \/ \E d \in Drafts : Insert(t, d)
  \/ Track(t) \/ TrackFails(t) \/ AuditInsert(t) \/ AuditScore(t)
  \/ Raise(t) \/ Delete(t) \/ Fetch(t)
  \/ CallAnswered(t) \/ CallFails(t) \/ Keep(t) \/ KeepFails(t) \/ Drop(t)

Next == \E t \in Threads : Arrive(t) \/ Decide(t) \/ Execute(t) \/ Die(t)

Spec == Init /\ [][Next]_vars

-----------------------------------------------------------------------------
(* What must hold.                                                         *)

Steps == {"idle", "audit", "score", "grant", "close", "run", "insert", "track",
          "call", "keep", "drop", "store", "fail"}

ContentTypeOK ==
  /\ dstatus \in [Drafts -> Stored \cup {"none", "deleted"}]
  /\ text \in [Drafts -> Nat]
  /\ link \in [Drafts -> Posts \cup {NoPost}]
  /\ site \in [Drafts -> Sites]
  /\ score \in [Drafts -> Nat]
  /\ audits \in Seq([draft : Drafts, text : Nat])
  /\ tracked \subseteq Drafts
  /\ rstate \in [Requests -> {"none", "pending", "confirming", "closed", "approved",
                              "executed", "failed"}]
  /\ kind \in [Requests -> Kind]
  /\ about \in [Requests -> Drafts \cup {NoDraft}]
  /\ count \in [Requests -> Nat]
  /\ post \in [Posts -> {"none", "draft", "publish"}]
  /\ pc \in [Threads -> Steps]
  /\ req \in [Threads -> Requests \cup {NoRequest}]
  /\ draft \in [Threads -> Drafts \cup {NoDraft}]
  /\ read \in [Threads -> [count : Nat, link : Posts \cup {NoPost},
                           site : Sites \cup {NoSite}, text : Nat]]
  /\ got \in [Threads -> Posts \cup {NoPost}]
  /\ calls \in 0 .. MaxCalls
  /\ given \in [Requests -> Nat]
  /\ felt \in [Requests -> Nat]
  /\ owner \in [Posts -> Drafts \cup {NoDraft}]
  /\ publisher \in [Posts -> SUBSET Requests]
  /\ claimed \subseteq Drafts
  /\ moved \subseteq Drafts

\* README, "connected to approvals: generation yellow, WordPress draft yellow,
\* final publishing red": every article written, post made or made public and
\* draft deleted is paid for by approvals, however decisions and calls overlap,
\* fail half-way or are retried.
Gate == INSTANCE ApprovalGate WITH
  Actions <- Requests,
  level <- [r \in Requests |-> IF rstate[r] = "none" THEN "none" ELSE Level(kind[r])],
  approvals <- given, runs <- felt
ContentKeepsTheGate == Gate!GateSpec

\* A draft that content.publish stored as published has a post, and visitors of
\* the site can see it: neither lost answers nor an executor that works on the
\* same draft at the same time make the row claim what is not so.
PublishedIsPublic == \A d \in claimed :
  dstatus[d] = "published" /\ link[d] # NoPost /\ post[link[d]] = "publish"

\* A publication recorded as executed made something public.
ExecutedPublishIsPublic == \A r \in Requests :
  kind[r] = "publish" /\ rstate[r] = "executed" => \E p \in Posts : r \in publisher[p]

\* content.publish makes no other draft's post public and none that was made by
\* hand, unless the draft's project was changed: its post's number then names
\* whatever has that number on the other site.
PublishedIsOwn == \A p \in Posts : \A r \in publisher[p] :
  about[r] \notin moved => owner[p] = about[r]

\* A public post is found from its draft, as long as the draft is there and in
\* its first project, it is the only post made for it and the publication was
\* recorded as executed. (A second post for one draft, from a retry or from
\* content.publish_draft after content.publish, leaves the first without a draft
\* that knows it.)
OnlyPostIsLinked == \A p \in Posts, r \in Requests :
  /\ r \in publisher[p] /\ rstate[r] = "executed"
  /\ Exists(about[r]) /\ about[r] \notin moved
  /\ \A q \in Posts \ {p} : owner[q] # about[r]
  => link[about[r]] = p

\* A score on a draft is backed by a stored audit of the very text it rates.
ScoreIsAudited == \A d \in Drafts : score[d] # 0 =>
  \E i \in DOMAIN audits : audits[i] = [draft |-> d, text |-> score[d] - 1]
=============================================================================
