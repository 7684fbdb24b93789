------------------------------ MODULE SalesDesk ------------------------------
(***************************************************************************)
(* Contacts, deals and interactions, follow-ups to clients, and what the   *)
(* dashboard shows of them: app/crm/repository.py, the crm.* and           *)
(* sales.send_followup executors of app/approvals/actions.py,              *)
(* app/agents/sales_agent.py, and the endpoints of app/miniapp/api.py with *)
(* their cache of heavy reads.                                             *)
(*                                                                         *)
(* A request is approved as in ApprovalGateway, in a check and an UPDATE;  *)
(* its rejection and expiry, which only take runs away, are left there.    *)
(* Time is told by what is left of a cached body's life and by how long    *)
(* ago the first write was that it misses.                                 *)
(***************************************************************************)
EXTENDS Naturals, FiniteSets

CONSTANTS
  Contacts,   \* the contact_uids
  Reachable,  \* the contacts with a Telegram chat
  Deals,      \* the deal_uids
  Requests,   \* the action_uids of yellow and red requests
  NoContact, NoDeal, NoRequest,
  Threads,
  MaxRows,    \* bound on the ids of contact rows
  Ttl,        \* _CACHE_TTL_SECONDS
  MaxCalls,   \* bound on the requests served
  MayFail     \* whether calls and statements fail and the server crashes

ASSUME SalesAssumption ==
  /\ Reachable \subseteq Contacts
  /\ NoContact \notin Contacts /\ NoDeal \notin Deals /\ NoRequest \notin Requests
  /\ IsFiniteSet(Threads)
  /\ MaxRows \in Nat \ {0} /\ Ttl \in Nat \ {0} /\ MaxCalls \in Nat
  /\ MayFail \in BOOLEAN

Ids  == 1 .. MaxRows
\* "moveOnly" is a stage without a probability, "point" another contact_id.
Kind == {"edit", "move", "moveOnly", "point", "dropDeal", "dropContact", "followup"}
Level(k) == IF k \in {"dropDeal", "dropContact"} THEN "red" ELSE "yellow"
Required(k) == IF Level(k) = "red" THEN 2 ELSE 1

VARIABLES
  row,      \* the id of each contact's row, 0 without one
  gone,     \* the contacts that were deleted
  deal,     \* the stage of each deal
  dealRow,  \* its contact_id, 0 for NULL
  entries,  \* the interactions: of whom, under which row, and whether the
            \* contact was gone already
  rstate, kind, about, count,  \* requests and their payload
  pc, job,  \* of each thread: its step; its request, the count it read of it,
            \* its contact and row
  app,      \* the threads that serve the Mini App
  view,     \* the cached body
  body,     \* the body each thread computes
  calls,
  given,    \* the approvals each request was given
  felt      \* how many runs of each request took effect

crm      == <<row, gone, deal, dealRow, entries>>
requests == <<rstate, kind, about, count>>
bodies   == <<view, body>>
ghosts   == <<given, felt>>
vars == <<crm, requests, pc, job, app, bodies, calls, ghosts>>

Payload == [contact : Contacts \cup {NoContact}, row : 0 .. MaxRows, deal : Deals \cup {NoDeal}]
NoPayload == [contact |-> NoContact, row |-> 0, deal |-> NoDeal]
Free == [req |-> NoRequest, count |-> 0, contact |-> NoContact, row |-> 0]

\* A body: what is left of its life, whether it misses a write and since when.
Body == [left : 0 .. Ttl, dirty : BOOLEAN, age : 0 .. Ttl]
NoBody == [left |-> 0, dirty |-> FALSE, age |-> 0]

Init ==
  /\ \E c0 \in Contacts \cup {NoContact} :  \* one contact, or none yet
       row = [c \in Contacts |-> IF c = c0 THEN 1 ELSE 0]
  /\ gone = {}
  /\ deal = [d \in Deals |-> "none"] /\ dealRow = [d \in Deals |-> 0]
  /\ entries = {}
  /\ rstate = [r \in Requests |-> "none"]
  /\ kind = [r \in Requests |-> "move"]
  /\ about = [r \in Requests |-> NoPayload]
  /\ count = [r \in Requests |-> 0]
  /\ pc = [t \in Threads |-> "idle"]
  /\ job = [t \in Threads |-> Free]
  /\ app = {}
  /\ view = NoBody /\ body = [t \in Threads |-> NoBody]
  /\ calls = 0
  /\ given = [r \in Requests |-> 0] /\ felt = [r \in Requests |-> 0]

Rows == {row[c] : c \in Contacts} \ {0}
Open(d) == d \in Deals /\ deal[d] \in {"lead", "won"}

Serve(t, next, mini) ==
  /\ pc[t] = "idle"
  /\ calls < MaxCalls
  /\ calls' = calls + 1
  /\ pc' = [pc EXCEPT ![t] = next]
  /\ app' = IF mini THEN app \cup {t} ELSE app

Goto(t, next) == pc' = [pc EXCEPT ![t] = next] /\ UNCHANGED <<calls, app>>

Misses(b) == [b EXCEPT !.dirty = b.left > 0]

\* A write that no body computed so far shows.
Wrote ==
  /\ view' = Misses(view)
  /\ body' = [t \in Threads |-> IF pc[t] = "reading" THEN Misses(body[t]) ELSE body[t]]

-----------------------------------------------------------------------------
(* Green: contacts, deals and interactions are entered at once.            *)

\* SQLite gives a new row the largest id plus one: the id of a deleted row may
\* come back.
NextId == IF Rows = {} THEN 1 ELSE 1 + CHOOSE i \in Rows : \A j \in Rows : j <= i

AddContact(t, c) ==
  /\ Serve(t, "answer", TRUE)
  /\ row[c] = 0 /\ c \notin gone /\ NextId \in Ids
  /\ row' = [row EXCEPT ![c] = NextId]
  /\ Wrote
  /\ UNCHANGED <<gone, deal, dealRow, entries, requests, job, ghosts>>

\* The endpoint turns the contact_uid into the id the executor will use; an id in
\* the body is taken as it is, also that of a contact deleted since. A deal does
\* without a contact, an interaction does not.
Resolve(t, c, i, next) ==
  /\ Serve(t, next, TRUE)
  /\ \/ c \in Contacts /\ row[c] # 0 /\ i = row[c]
     \/ c \in gone /\ i \in Ids
     \/ c = NoContact /\ i = 0 /\ next = "addDeal"
  /\ job' = [job EXCEPT ![t].contact = c, ![t].row = i]
  /\ UNCHANGED <<crm, requests, bodies, ghosts>>

AddDeal(t, d) ==
  /\ pc[t] = "addDeal" /\ deal[d] = "none"
  /\ job[t].row \in Rows \cup {0}
  /\ deal' = [deal EXCEPT ![d] = "lead"]
  /\ dealRow' = [dealRow EXCEPT ![d] = job[t].row]
  /\ Wrote
  /\ Goto(t, "answer")
  /\ UNCHANGED <<row, gone, entries, requests, job, ghosts>>

\* add_interaction: the row is inserted, then its contact bumped.
AddEntry(t) ==
  /\ pc[t] = "addEntry"
  /\ job[t].row \in Rows
  /\ entries' = entries \cup {[of |-> job[t].contact, row |-> job[t].row,
                               late |-> job[t].contact \in gone]}
  /\ Wrote
  /\ Goto(t, "bump")
  /\ UNCHANGED <<row, gone, deal, dealRow, requests, job, ghosts>>

Bump(t) ==
  /\ pc[t] = "bump"
  /\ Wrote
  /\ Goto(t, IF job[t].req = NoRequest THEN "answer" ELSE "store")
  /\ UNCHANGED <<crm, requests, job, ghosts>>

\* The contact was deleted (the foreign key refuses), or a statement fails. The
\* follow-up's executor means to log that and go on, with a logger its module
\* does not define: it fails after the message went out.
AddFails(t) ==
  /\ \/ pc[t] \in {"addDeal", "addEntry"} /\ job[t].row \notin Rows \cup {0}
     \/ pc[t] \in {"addDeal", "addEntry", "bump"} /\ MayFail
  /\ Goto(t, IF job[t].req = NoRequest THEN "answer" ELSE "fail")
  /\ UNCHANGED <<crm, requests, job, bodies, ghosts>>

-----------------------------------------------------------------------------
(* Yellow and red: requested, and run when the gateway says so.            *)

Ask(t, r, k, payload, mini) ==
  /\ Serve(t, IF mini THEN "answer" ELSE "idle", mini)
  /\ rstate[r] = "none"
  /\ rstate' = [rstate EXCEPT ![r] = "asked"]
  /\ kind' = [kind EXCEPT ![r] = k]
  /\ about' = [about EXCEPT ![r] = payload]
  /\ UNCHANGED <<crm, count, job, bodies, ghosts>>

\* Asked for by the uid of something that was there once; a contact_id may be any.
AskDeal(t, r, d) ==
  /\ deal[d] # "none"
  /\ \E k \in {"move", "moveOnly", "point", "dropDeal"}, i \in 0 .. MaxRows :
       /\ i # 0 => k = "point"
       /\ Ask(t, r, k, [NoPayload EXCEPT !.deal = d, !.row = i], TRUE)

AskContact(t, r, c) ==
  /\ row[c] # 0 \/ c \in gone
  /\ \E k \in {"edit", "dropContact"} : Ask(t, r, k, [NoPayload EXCEPT !.contact = c], TRUE)

\* prepare_followup_send finds the contact, by itself or of the deal, and puts
\* its id into the payload; without a chat nothing is asked for.
Prepare(t, r, c, mini) ==
  /\ c \in Reachable /\ row[c] # 0
  /\ Ask(t, r, "followup", [NoPayload EXCEPT !.contact = c, !.row = row[c]], mini)

AskFollowup(t, r, c) == Prepare(t, r, c, TRUE)
AskInChat(t, r, c)   == Prepare(t, r, c, FALSE)

\* approve(), from a card or from the Mini App: the request is checked, and one
\* that failed may be approved again.
Press(t, r, mini) ==
  /\ Serve(t, "grant", mini)
  /\ rstate[r] \in {"asked", "confirming", "failed"}
  /\ job' = [job EXCEPT ![t] = [req |-> r, count |-> count[r],
                               contact |-> about[r].contact, row |-> about[r].row]]
  /\ UNCHANGED <<crm, requests, bodies, ghosts>>

Leave(t) ==
  /\ job' = [job EXCEPT ![t] = Free]
  /\ Goto(t, IF t \in app THEN "answer" ELSE "idle")

\* The UPDATE: the count that was read, plus one.
Count(t, st) ==
  /\ rstate' = [rstate EXCEPT ![job[t].req] = st]
  /\ count' = [count EXCEPT ![job[t].req] = job[t].count + 1]
  /\ given' = [given EXCEPT ![job[t].req] = @ + 1]
  /\ UNCHANGED <<crm, kind, about, bodies, felt>>

GrantStep(t) ==
  /\ pc[t] = "grant"
  /\ job[t].count + 1 < Required(kind[job[t].req])
  /\ Count(t, "confirming")
  /\ Leave(t)

GrantFinal(t) ==
  /\ pc[t] = "grant"
  /\ job[t].count + 1 >= Required(kind[job[t].req])
  /\ Count(t, "approved")
  /\ Goto(t, "run")
  /\ UNCHANGED job

Felt(t) == felt' = [felt EXCEPT ![job[t].req] = @ + 1] /\ UNCHANGED given

Running(t, k) == pc[t] = "run" /\ kind[job[t].req] = k
DealOf(t) == about[job[t].req].deal

\* The one statement of an executor. Its answer may be lost, or the read after it.
Write(t) ==
  /\ Felt(t)
  /\ Wrote
  /\ \E next \in {"store"} \cup (IF MayFail THEN {"fail"} ELSE {}) : Goto(t, next)

EditContact(t) ==
  /\ Running(t, "edit") /\ row[job[t].contact] # 0
  /\ Write(t)
  /\ UNCHANGED <<crm, requests, job>>

\* Variant: the stage is not checked against DEAL_STAGES.
MoveUnchecked(t) ==
  /\ Running(t, "move") /\ Open(DealOf(t))
  /\ deal' = [deal EXCEPT ![DealOf(t)] = "closed"]
  /\ Write(t)
  /\ UNCHANGED <<row, gone, dealRow, entries, requests, job>>

\* update_deal, with a stage of DEAL_STAGES.
Move(t) ==
  /\ Running(t, "move") /\ Open(DealOf(t))
  /\ \E st \in {"lead", "won"} : deal' = [deal EXCEPT ![DealOf(t)] = st]
  /\ Write(t)
  /\ UNCHANGED <<row, gone, dealRow, entries, requests, job>>

\* update_deal, with a contact_id that the foreign key accepts.
Point(t) ==
  /\ Running(t, "point") /\ Open(DealOf(t))
  /\ job[t].row \in Rows \cup {0}
  /\ dealRow' = [dealRow EXCEPT ![DealOf(t)] = job[t].row]
  /\ Write(t)
  /\ UNCHANGED <<row, gone, deal, entries, requests, job>>

DropDeal(t) ==
  /\ Running(t, "dropDeal") /\ Open(DealOf(t))
  /\ deal' = [deal EXCEPT ![DealOf(t)] = "gone"]
  /\ dealRow' = [dealRow EXCEPT ![DealOf(t)] = 0]
  /\ Write(t)
  /\ UNCHANGED <<row, gone, entries, requests, job>>

\* Variant: the schema without ON DELETE.
DropContactAlone(t) ==
  LET c == job[t].contact
  IN /\ Running(t, "dropContact") /\ row[c] # 0
     /\ row' = [row EXCEPT ![c] = 0]
     /\ gone' = gone \cup {c}
     /\ Write(t)
     /\ UNCHANGED <<deal, dealRow, entries, requests, job>>

\* The schema deletes the contact's interactions with it and keeps its deals.
DropContact(t) ==
  LET c == job[t].contact
  IN /\ Running(t, "dropContact") /\ row[c] # 0
     /\ row' = [row EXCEPT ![c] = 0]
     /\ gone' = gone \cup {c}
     /\ entries' = {e \in entries : e.row # row[c]}
     /\ dealRow' = [d \in Deals |-> IF dealRow[d] = row[c] THEN 0 ELSE dealRow[d]]
     /\ Write(t)
     /\ UNCHANGED <<deal, requests, job>>

\* What there is nothing to do to raises, and so does a stage without a
\* probability: update_deal makes an int of it.
Raise(t) ==
  /\ pc[t] = "run"
  /\ \/ kind[job[t].req] = "moveOnly"
     \/ kind[job[t].req] \in {"move", "point", "dropDeal"} /\ ~Open(DealOf(t))
     \/ kind[job[t].req] = "point" /\ job[t].row \notin Rows \cup {0}
     \/ kind[job[t].req] \in {"edit", "dropContact"} /\ row[job[t].contact] = 0
     \/ MayFail
  /\ Goto(t, "fail")
  /\ UNCHANGED <<crm, requests, job, bodies, ghosts>>

\* The message goes to the chat of the payload, whoever is a contact by now.
\* send_message tries Markdown first and plain text after any error, also when
\* only the answer was lost: the client may read it twice.
Send(t) ==
  /\ Running(t, "followup")
  /\ Felt(t)
  /\ Goto(t, "addEntry")
  /\ UNCHANGED <<crm, requests, job, bodies>>

\* Variant: a message whose answer was lost is sent once more, by itself.
SendAgain(t) ==
  /\ MayFail
  /\ Running(t, "followup")
  /\ Felt(t)
  /\ UNCHANGED <<crm, requests, pc, job, app, bodies, calls>>

\* Both tries failed, before or after the client got the message.
SendFails(t) ==
  /\ MayFail
  /\ Running(t, "followup")
  /\ Felt(t) \/ UNCHANGED ghosts
  /\ Goto(t, "fail")
  /\ UNCHANGED <<crm, requests, job, bodies>>

Store(t) ==
  /\ pc[t] \in {"store", "fail"}
  /\ rstate' = [rstate EXCEPT ![job[t].req] = IF pc[t] = "store" THEN "executed" ELSE "failed"]
  /\ Leave(t)
  /\ UNCHANGED <<crm, kind, about, count, bodies, ghosts>>

-----------------------------------------------------------------------------
(* The cache of heavy reads.                                               *)

\* after_request: whatever became of a mutation by the Mini App, the cache is
\* cleared and the answer given.
Answer(t) ==
  /\ pc[t] = "answer"
  /\ view' = NoBody
  /\ job' = [job EXCEPT ![t] = Free]
  /\ pc' = [pc EXCEPT ![t] = "idle"]
  /\ app' = app \ {t}
  /\ UNCHANGED <<crm, requests, body, calls, ghosts>>

\* The cached body is the answer.
Hit(t) ==
  /\ Serve(t, "idle", FALSE)
  /\ view.left > 0
  /\ UNCHANGED <<crm, requests, job, bodies, ghosts>>

\* Nothing young enough: the time is taken, and only then are the tables read.
Look(t) ==
  /\ Serve(t, "look", FALSE)
  /\ view.left = 0
  /\ body' = [body EXCEPT ![t] = [NoBody EXCEPT !.left = Ttl]]
  /\ UNCHANGED <<crm, requests, job, view, ghosts>>

ReadStart(t) ==
  /\ pc[t] = "look"
  /\ Goto(t, "reading")
  /\ UNCHANGED <<crm, requests, job, bodies, ghosts>>

\* Variant: the life of a body begins when it is stored.
ReadEndLate(t) ==
  /\ pc[t] = "reading"
  /\ view' = [body[t] EXCEPT !.left = Ttl]
  /\ body' = [body EXCEPT ![t] = NoBody]
  /\ Goto(t, "idle")
  /\ UNCHANGED <<crm, requests, job, ghosts>>

ReadEnd(t) ==
  /\ pc[t] = "reading"
  /\ view' = body[t]
  /\ body' = [body EXCEPT ![t] = NoBody]
  /\ Goto(t, "idle")
  /\ UNCHANGED <<crm, requests, job, ghosts>>

ReadFails(t) ==
  /\ MayFail
  /\ pc[t] \in {"look", "reading"}
  /\ body' = [body EXCEPT ![t] = NoBody]
  /\ Goto(t, "idle")
  /\ UNCHANGED <<crm, requests, job, view, ghosts>>

-----------------------------------------------------------------------------

Older(b) ==
  IF b.left <= 1 THEN NoBody
  ELSE [b EXCEPT !.left = @ - 1, !.age = IF b.dirty /\ @ < Ttl THEN @ + 1 ELSE @]

Tick ==
  /\ view' = Older(view)
  /\ body' = [t \in Threads |-> IF pc[t] \in {"look", "reading"} THEN Older(body[t])
                                ELSE body[t]]
  /\ UNCHANGED <<crm, requests, pc, job, app, calls, ghosts>>

\* The cache and all handlers are gone; the tables stay.
Crash ==
  /\ MayFail
  /\ pc' = [t \in Threads |-> "idle"]
  /\ job' = [t \in Threads |-> Free]
  /\ app' = {}
  /\ view' = NoBody /\ body' = [t \in Threads |-> NoBody]
  /\ UNCHANGED <<crm, requests, calls, ghosts>>

Arrive(t) ==
  \/ \E c \in Contacts : AddContact(t, c)
  \/ \E c \in Contacts \cup {NoContact}, i \in 0 .. MaxRows, next \in {"addDeal", "addEntry"} :
       Resolve(t, c, i, next)
  \/ \E r \in Requests :
       \/ \E mini \in BOOLEAN : Press(t, r, mini)
       \/ \E d \in Deals : AskDeal(t, r, d)
       \/ \E c \in Contacts : AskContact(t, r, c) \/ AskFollowup(t, r, c) \/ AskInChat(t, r, c)
  \/ Hit(t) \/ Look(t)

Work(t) ==
  \/ \E d \in Deals : AddDeal(t, d)
  \/ AddEntry(t) \/ Bump(t) \/ AddFails(t)
  \/ GrantStep(t) \/ GrantFinal(t)
  \/ EditContact(t) \/ Move(t) \/ Point(t) \/ DropDeal(t) \/ DropContact(t) \/ Raise(t)
  \/ Send(t) \/ SendFails(t)
  \/ Store(t) \/ Answer(t)
  \/ ReadStart(t) \/ ReadEnd(t) \/ ReadFails(t)

Next == Tick \/ Crash \/ \E t \in Threads : Arrive(t) \/ Work(t)

Spec == Init /\ [][Next]_vars

-----------------------------------------------------------------------------
(* What must hold.                                                         *)

Steps == {"idle", "addDeal", "addEntry", "bump", "grant", "run", "store", "fail", "answer",
          "look", "reading"}
Job == [req : Requests \cup {NoRequest}, count : Nat,
        contact : Contacts \cup {NoContact}, row : 0 .. MaxRows]
Entry == [of : Contacts, row : Ids, late : BOOLEAN]

SalesTypeOK ==
  /\ row \in [Contacts -> 0 .. MaxRows]
  /\ gone \subseteq Contacts
  /\ deal \in [Deals -> {"none", "lead", "won", "gone"}]
  /\ dealRow \in [Deals -> 0 .. MaxRows]
  /\ entries \subseteq Entry
  /\ rstate \in [Requests -> {"none", "asked", "confirming", "approved", "executed", "failed"}]
  /\ kind \in [Requests -> Kind]
  /\ about \in [Requests -> Payload]
  /\ count \in [Requests -> Nat]
  /\ pc \in [Threads -> Steps]
  /\ job \in [Threads -> Job]
  /\ app \subseteq Threads
  /\ view \in Body /\ body \in [Threads -> Body]
  /\ calls \in 0 .. MaxCalls
  /\ given \in [Requests -> Nat] /\ felt \in [Requests -> Nat]

\* What a contact's card lists is about that contact, although ids of rows come
\* back: interactions leave with their contact, and only an entry that is
\* written after its contact was deleted (a follow-up approved a day later, an
\* entry that resolved the id just before) can stand under a successor.
EntriesAreTheirs == \A e \in entries : e.late \/ row[e.of] = e.row

\* app/agents/sales_agent.py, "the executor sends it after Ali confirms", and the
\* levels of app/approvals/risk.py: every follow-up a client read, every change
\* and every deletion is paid for by an approval of its own and comes after one,
\* a deletion after two, although what took effect may be recorded as failed (a
\* follow-up whose entry could not be made) and be approved again.
Gate == INSTANCE ApprovalGate WITH
  Actions <- Requests,
  level <- [r \in Requests |-> IF rstate[r] = "none" THEN "none" ELSE Level(kind[r])],
  approvals <- given, runs <- felt
SalesKeepTheGate == Gate!GateSpec

\* "external changes do not stay stale": a body that the cache can serve misses
\* only writes that are younger than the life of an entry, by whomever and
\* however long it took to compute.
HitsAreRecent == view.left > 0 /\ view.dirty => view.age < Ttl
=============================================================================
