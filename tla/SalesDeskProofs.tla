---------------------------- MODULE SalesDeskProofs ----------------------------
(***************************************************************************)
(* Proofs about SalesDesk, for any contacts, deals, requests and threads.  *)
(***************************************************************************)
EXTENDS SalesDesk, FiniteSetTheorems, TLAPS

-----------------------------------------------------------------------------
(* Bodies: of their type, and no older than their life allows.             *)

BodyOK(b) == b \in Body /\ b.age + b.left <= Ttl

BodiesOK ==
  /\ BodyOK(view)
  /\ body \in [Threads -> Body] /\ \A t \in Threads : BodyOK(body[t])

LEMMA NoBodyOK == BodyOK(NoBody)
BY SalesAssumption DEF BodyOK, NoBody, Body

LEMMA MissesOK ==
  ASSUME NEW b, BodyOK(b)
  PROVE  BodyOK(Misses(b))
<1>1. (b.left > 0) \in BOOLEAN
  OBVIOUS
<1>. QED
  BY <1>1 DEF BodyOK, Body, Misses

LEMMA OlderOK ==
  ASSUME NEW b, BodyOK(b)
  PROVE  BodyOK(Older(b))
<1>1. CASE b.left <= 1
  BY <1>1, NoBodyOK DEF Older
<1>2. CASE ~(b.left <= 1)
  <2>. DEFINE age == IF b.dirty /\ b.age < Ttl THEN b.age + 1 ELSE b.age
  <2>1. Older(b) = [b EXCEPT !.left = b.left - 1, !.age = age]
    BY <1>2 DEF Older
  <2>2. b \in Body /\ b.left \in 0 .. Ttl /\ b.age \in 0 .. Ttl /\ Ttl \in Nat
    BY SalesAssumption DEF BodyOK, Body
  <2>3. age \in 0 .. Ttl /\ age + (b.left - 1) <= Ttl /\ b.left - 1 \in 0 .. Ttl
    BY <1>2, <2>2 DEF BodyOK
  <2>. HIDE DEF age
  <2>. QED
    BY <2>1, <2>2, <2>3 DEF BodyOK, Body
<1>. QED
  BY <1>1, <1>2

\* A write leaves bodies in order.
LEMMA WroteOK ==
  ASSUME BodiesOK, Wrote
  PROVE  BodiesOK'
<1>1. BodyOK(view')
  BY MissesOK DEF BodiesOK, Wrote
<1>2. \A u \in Threads : BodyOK(body'[u])
  BY MissesOK DEF BodiesOK, Wrote
<1>3. body' \in [Threads -> Body]
  BY <1>2 DEF Wrote, BodyOK
<1>. QED
  BY <1>1, <1>2, <1>3 DEF BodiesOK, BodyOK

-----------------------------------------------------------------------------
(* Types. A thread that runs a request has one, and the request is about   *)
(* what its kind is about.                                                 *)

TablesOK ==
  /\ row \in [Contacts -> 0 .. MaxRows]
  /\ gone \subseteq Contacts
  /\ deal \in [Deals -> {"none", "lead", "won", "gone"}]
  /\ dealRow \in [Deals -> 0 .. MaxRows]
  /\ entries \subseteq Entry

RequestsOK ==
  /\ rstate \in [Requests -> {"none", "asked", "confirming", "approved", "executed", "failed"}]
  /\ kind \in [Requests -> Kind]
  /\ about \in [Requests -> Payload]
  /\ count \in [Requests -> Nat]
  /\ given \in [Requests -> Nat] /\ felt \in [Requests -> Nat]
  /\ \A r \in Requests : rstate[r] # "none" /\ kind[r] \in {"edit", "followup", "dropContact"} =>
       about[r].contact \in Contacts

ThreadsOK ==
  /\ pc \in [Threads -> Steps]
  /\ job \in [Threads -> Job]
  /\ app \subseteq Threads
  /\ calls \in 0 .. MaxCalls

Unasked == {"idle", "answer", "addDeal", "look", "reading"}

JobsOK == \A t \in Threads :
  /\ pc[t] \in {"grant", "run"} =>
       /\ job[t].req \in Requests /\ rstate[job[t].req] # "none"
       /\ job[t].contact = about[job[t].req].contact /\ job[t].row = about[job[t].req].row
  /\ pc[t] \in {"store", "fail"} => job[t].req \in Requests /\ rstate[job[t].req] # "none"
  /\ pc[t] \in {"addEntry", "bump"} => job[t].contact \in Contacts
  /\ job[t].req \in Requests => rstate[job[t].req] # "none"
  /\ pc[t] \in Unasked => job[t].req = NoRequest

TypeInv == TablesOK /\ RequestsOK /\ ThreadsOK /\ JobsOK /\ BodiesOK

LEMMA TypesMeanOK == TypeInv => SalesTypeOK
BY DEF TypeInv, TablesOK, RequestsOK, ThreadsOK, BodiesOK, BodyOK, SalesTypeOK

LEMMA InitTypes == Init => TypeInv
<1> SUFFICES ASSUME Init PROVE TypeInv
  OBVIOUS
<1>1. TablesOK
  BY SalesAssumption DEF Init, TablesOK
<1>2. RequestsOK
  BY SalesAssumption DEF Init, RequestsOK, Kind, Payload, NoPayload
<1>3. ThreadsOK /\ JobsOK
  BY SalesAssumption DEF Init, ThreadsOK, JobsOK, Job, Steps, Free, Unasked
<1>4. BodiesOK
  BY NoBodyOK DEF Init, BodiesOK, BodyOK
<1>. QED
  BY <1>1, <1>2, <1>3, <1>4 DEF TypeInv

-----------------------------------------------------------------------------
(* Steps keep the types.                                                   *)

LEMMA BodiesStay == BodiesOK /\ UNCHANGED bodies => BodiesOK'
BY DEF BodiesOK, BodyOK, bodies

\* A call that is served at once, without a job of its own.
LEMMA ServeTypes ==
  ASSUME ThreadsOK, JobsOK, NEW t \in Threads, NEW mini \in BOOLEAN,
         NEW next \in {"idle", "answer", "look"}, Serve(t, next, mini),
         UNCHANGED <<job, about>>, \A r \in Requests : rstate[r] # "none" => rstate'[r] # "none"
  PROVE  ThreadsOK' /\ JobsOK'
<1>1. ThreadsOK'
  BY SalesAssumption DEF ThreadsOK, Serve, Steps
<1>2. JobsOK'
  BY DEF ThreadsOK, JobsOK, Serve, Unasked
<1>. QED
  BY <1>1, <1>2

\* A step of a thread that keeps its job and its request.
LEMMA GotoTypes ==
  ASSUME ThreadsOK, JobsOK, NEW t \in Threads, NEW next \in Steps \ {"grant", "run"}, Goto(t, next),
         UNCHANGED <<job, about, rstate>>,
         next \in {"store", "fail"} => job[t].req \in Requests,
         next \in {"addEntry", "bump"} => job[t].contact \in Contacts,
         next \in Unasked => job[t].req = NoRequest
  PROVE  ThreadsOK' /\ JobsOK'
<1>1. ThreadsOK'
  BY SalesAssumption DEF ThreadsOK, Goto, Steps
<1>2. JobsOK'
  BY DEF ThreadsOK, JobsOK, Goto
<1>. QED
  BY <1>1, <1>2

LEMMA RowsAreIds == TablesOK => /\ Rows \subseteq Ids
                               /\ \A c \in Contacts : row[c] # 0 => row[c] \in Ids
BY SalesAssumption DEF TablesOK, Rows, Ids

LEMMA ArriveTypes ==
  ASSUME TypeInv, NEW t \in Threads, Arrive(t)
  PROVE  TypeInv'
<1> USE DEF TypeInv, crm, requests, ghosts
<1>1. ASSUME NEW c \in Contacts, AddContact(t, c) PROVE TypeInv'
  <2>1. TablesOK'
    BY <1>1 DEF AddContact, TablesOK, Ids
  <2>2. RequestsOK'
    BY <1>1 DEF AddContact, RequestsOK
  <2>3. ThreadsOK' /\ JobsOK'
    BY <1>1, ServeTypes DEF AddContact
  <2>. QED
    BY <1>1, <2>1, <2>2, <2>3, WroteOK DEF AddContact
<1>3. ASSUME NEW c \in Contacts \cup {NoContact}, NEW i \in 0 .. MaxRows,
             NEW next \in {"addDeal", "addEntry"}, Resolve(t, c, i, next)
      PROVE  TypeInv'
  <2>1. TablesOK' /\ RequestsOK' /\ BodiesOK'
    BY <1>3, BodiesStay DEF Resolve, TablesOK, RequestsOK, ghosts
  <2>2. ThreadsOK'
    <3>1. job' \in [Threads -> Job]
      <4>. DEFINE j == [job[t] EXCEPT !.contact = c, !.row = i]
      <4>1. job \in [Threads -> Job] /\ job[t] \in Job
        BY DEF ThreadsOK
      <4>2. j \in Job
        BY ONLY <4>1, <1>3 DEF Job
      <4>3. job' = [job EXCEPT ![t] = j]
        BY <1>3, <4>1 DEF Resolve
      <4>. HIDE DEF j
      <4>. QED
        BY ONLY <4>1, <4>2, <4>3
    <3>2. pc' \in [Threads -> Steps]
      <4>1. pc' = [pc EXCEPT ![t] = next]
        BY <1>3 DEF Resolve, Serve
      <4>2. next \in Steps
        BY <1>3 DEF Steps
      <4>. QED
        BY <4>1, <4>2 DEF ThreadsOK
    <3>3. app' \subseteq Threads
      BY <1>3 DEF Resolve, Serve, ThreadsOK
    <3>4. calls' \in 0 .. MaxCalls
      BY <1>3, SalesAssumption DEF Resolve, Serve, ThreadsOK
    <3>. QED
      BY <3>1, <3>2, <3>3, <3>4 DEF ThreadsOK
  <2>3. JobsOK'
    <3>1. next = "addEntry" => c \in Contacts
      BY <1>3, SalesAssumption DEF Resolve, TablesOK
    <3>. QED
      BY <1>3, <3>1, SalesAssumption DEF Resolve, Serve, ThreadsOK, Job, JobsOK, Unasked
  <2>. QED
    BY <2>1, <2>2, <2>3
<1>4. ASSUME NEW r \in Requests, NEW k \in Kind, NEW p \in Payload, NEW mini \in BOOLEAN,
             k \in {"edit", "followup", "dropContact"} => p.contact \in Contacts,
             Ask(t, r, k, p, mini)
      PROVE  TypeInv'
  <2>1. TablesOK' /\ BodiesOK'
    BY <1>4, BodiesStay DEF Ask, TablesOK
  <2>2. RequestsOK'
    BY <1>4 DEF Ask, RequestsOK
  <2>3. ThreadsOK'
    BY <1>4, SalesAssumption DEF Ask, Serve, ThreadsOK, Steps
  <2>4. JobsOK'
    BY <1>4 DEF Ask, Serve, ThreadsOK, RequestsOK, JobsOK, Unasked
  <2>. QED
    BY <2>1, <2>2, <2>3, <2>4
<1>5. ASSUME NEW r \in Requests, NEW d \in Deals, AskDeal(t, r, d) PROVE TypeInv'
  <2>1. \A i \in 0 .. MaxRows : [NoPayload EXCEPT !.deal = d, !.row = i] \in Payload
    BY SalesAssumption DEF NoPayload, Payload
  <2>. QED
    BY <1>4, <1>5, <2>1 DEF AskDeal, Kind
<1>6. ASSUME NEW r \in Requests, NEW c \in Contacts, AskContact(t, r, c) PROVE TypeInv'
  <2>1. /\ [NoPayload EXCEPT !.contact = c] \in Payload
        /\ [NoPayload EXCEPT !.contact = c].contact \in Contacts
    BY SalesAssumption DEF NoPayload, Payload
  <2>. QED
    BY <1>4, <1>6, <2>1 DEF AskContact, Kind
<1>7. ASSUME NEW r \in Requests, NEW c \in Contacts, NEW mini \in BOOLEAN, Prepare(t, r, c, mini)
      PROVE  TypeInv'
  <2>1. /\ [NoPayload EXCEPT !.contact = c, !.row = row[c]] \in Payload
        /\ [NoPayload EXCEPT !.contact = c, !.row = row[c]].contact \in Contacts
    BY SalesAssumption DEF NoPayload, Payload, TablesOK
  <2>. QED
    BY <1>4, <1>7, <2>1 DEF Prepare, Kind
<1>8. ASSUME NEW r \in Requests, NEW mini \in BOOLEAN, Press(t, r, mini) PROVE TypeInv'
  <2>1. TablesOK' /\ BodiesOK'
    BY <1>8, BodiesStay DEF Press, TablesOK
  <2>2. RequestsOK'
    BY <1>8 DEF Press, RequestsOK
  <2>3. ThreadsOK'
    <3>1. [req |-> r, count |-> count[r], contact |-> about[r].contact, row |-> about[r].row] \in Job
      BY DEF RequestsOK, Payload, Job
    <3>. QED
      BY <1>8, <3>1, SalesAssumption DEF Press, Serve, ThreadsOK, Steps
  <2>4. JobsOK'
    BY <1>8 DEF Press, Serve, ThreadsOK, RequestsOK, JobsOK, Unasked
  <2>. QED
    BY <2>1, <2>2, <2>3, <2>4
<1>9. CASE Hit(t)
  <2>1. TablesOK' /\ RequestsOK' /\ BodiesOK'
    BY <1>9, BodiesStay DEF Hit, TablesOK, RequestsOK, bodies
  <2>3. ThreadsOK' /\ JobsOK'
    BY <1>9, ServeTypes DEF Hit
  <2>. QED
    BY <2>1, <2>3
<1>10. CASE Look(t)
  <2>1. TablesOK' /\ RequestsOK'
    BY <1>10 DEF Look, TablesOK, RequestsOK
  <2>2. ThreadsOK' /\ JobsOK'
    BY <1>10, ServeTypes DEF Look
  <2>3. BodyOK([NoBody EXCEPT !.left = Ttl])
    <3>1. NoBody \in Body /\ NoBody.age = 0
      BY NoBodyOK DEF BodyOK, NoBody
    <3>. QED
      BY <3>1, SalesAssumption DEF BodyOK, Body
  <2>4. BodiesOK'
    BY <1>10, <2>3 DEF Look, BodiesOK, BodyOK
  <2>. QED
    BY <2>1, <2>2, <2>4
<1>. QED
  BY <1>1, <1>3, <1>5, <1>6, <1>7, <1>8, <1>9, <1>10
     DEF Arrive, AskFollowup, AskInChat

\* An entry is a step of a thread that holds a contact.
LEMMA EntryTypes ==
  ASSUME TypeInv, NEW t \in Threads, AddEntry(t)
  PROVE  TypeInv'
<1> USE DEF TypeInv, crm, requests, ghosts
<1>. DEFINE e == [of |-> job[t].contact, row |-> job[t].row,
                  late |-> job[t].contact \in gone]
<1>1. e \in Entry
  BY RowsAreIds DEF AddEntry, Entry, ThreadsOK, Job, JobsOK
<1>2. TablesOK' /\ RequestsOK'
  BY <1>1 DEF AddEntry, TablesOK, RequestsOK
<1>3. ThreadsOK' /\ JobsOK'
  BY GotoTypes DEF AddEntry, JobsOK, Steps, Unasked
<1>. QED
  BY <1>2, <1>3, WroteOK DEF AddEntry

\* A thread that runs a request, or is about to, has one.
LEMMA HasRequest ==
  ASSUME TypeInv, NEW t \in Threads, pc[t] \in {"grant", "run", "store", "fail"}
  PROVE  job[t].req \in Requests /\ rstate[job[t].req] # "none"
BY DEF TypeInv, JobsOK

\* The statement of an executor.
LEMMA WriteTypes ==
  ASSUME TypeInv, NEW t \in Threads, pc[t] = "run", Write(t), UNCHANGED <<requests, job>>
  PROVE  RequestsOK' /\ ThreadsOK' /\ JobsOK' /\ BodiesOK'
<1> USE DEF TypeInv, requests
<1>1. job[t].req \in Requests
  BY HasRequest
<1>2. RequestsOK'
  BY <1>1 DEF Write, Felt, RequestsOK
<1>3. PICK next \in {"store", "fail"} : Goto(t, next)
  BY DEF Write
<1>4. ThreadsOK' /\ JobsOK'
  BY <1>1, <1>3, GotoTypes DEF Steps, Unasked
<1>. QED
  BY <1>2, <1>4, WroteOK DEF Write

LEMMA RunTypes ==
  ASSUME TypeInv, NEW t \in Threads,
         \/ EditContact(t) \/ Move(t) \/ Point(t) \/ DropDeal(t) \/ DropContact(t)
         \/ Raise(t) \/ Send(t) \/ SendFails(t)
  PROVE  TypeInv'
<1> USE DEF TypeInv
<1>1. pc[t] = "run" /\ job[t].req \in Requests
  BY HasRequest
     DEF EditContact, Move, Point, DropDeal, DropContact, Raise, Send, SendFails, Running
<1>2. CASE EditContact(t) \/ Move(t) \/ Point(t)
  <2>1. RequestsOK' /\ ThreadsOK' /\ JobsOK' /\ BodiesOK'
    BY <1>1, <1>2, WriteTypes DEF EditContact, Move, Point
  <2>2. job[t].row \in 0 .. MaxRows
    BY DEF ThreadsOK, Job
  <2>3. TablesOK'
    BY <1>2, <2>2 DEF EditContact, Move, Point, TablesOK, crm
  <2>. QED
    BY <2>1, <2>3
<1>3. CASE DropDeal(t)
  <2>1. RequestsOK' /\ ThreadsOK' /\ JobsOK' /\ BodiesOK'
    BY <1>1, <1>3, WriteTypes DEF DropDeal
  <2>2. deal' \in [Deals -> {"none", "lead", "won", "gone"}]
    BY <1>3 DEF DropDeal, TablesOK
  <2>3. dealRow' \in [Deals -> 0 .. MaxRows]
    <3>1. 0 \in 0 .. MaxRows
      BY SalesAssumption
    <3>2. dealRow \in [Deals -> 0 .. MaxRows]
      BY DEF TablesOK
    <3>. QED
      BY <1>3, <3>1, <3>2 DEF DropDeal
  <2>. QED
    BY <1>3, <2>1, <2>2, <2>3 DEF DropDeal, TablesOK
<1>4. CASE DropContact(t)
  <2>1. RequestsOK' /\ ThreadsOK' /\ JobsOK' /\ BodiesOK'
    BY <1>1, <1>4, WriteTypes DEF DropContact
  <2>2. job[t].contact \in Contacts
    BY <1>4 DEF DropContact, Running, JobsOK, RequestsOK
  <2>3. row' \in [Contacts -> 0 .. MaxRows] /\ gone' \subseteq Contacts
    BY <1>4, <2>2, SalesAssumption DEF DropContact, TablesOK
  <2>4. deal' = deal /\ dealRow' \in [Deals -> 0 .. MaxRows]
    BY <1>4, SalesAssumption DEF DropContact, TablesOK
  <2>5. entries' \subseteq Entry
    BY <1>4 DEF DropContact, TablesOK
  <2>. QED
    BY <2>1, <2>3, <2>4, <2>5 DEF TablesOK
<1>5. CASE Raise(t)
  <2>1. TablesOK' /\ RequestsOK' /\ BodiesOK'
    BY <1>5, BodiesStay DEF Raise, TablesOK, RequestsOK, crm, requests, ghosts
  <2>2. ThreadsOK' /\ JobsOK'
    BY <1>1, <1>5, GotoTypes DEF Raise, Steps, Unasked, requests
  <2>. QED
    BY <2>1, <2>2
<1>6. CASE Send(t) \/ SendFails(t)
  <2>1. job[t].contact \in Contacts
    BY <1>6 DEF Send, SendFails, Running, JobsOK, RequestsOK
  <2>2. TablesOK' /\ BodiesOK'
    BY <1>6, BodiesStay DEF Send, SendFails, TablesOK, crm
  <2>3. RequestsOK'
    BY <1>1, <1>6 DEF Send, SendFails, Felt, RequestsOK, requests, ghosts
  <2>4. ThreadsOK' /\ JobsOK'
    BY <1>1, <1>6, <2>1, GotoTypes DEF Send, SendFails, Steps, Unasked, requests
  <2>. QED
    BY <2>2, <2>3, <2>4
<1>. QED
  BY <1>2, <1>3, <1>4, <1>5, <1>6

\* Decisions.
LEMMA GrantTypes ==
  ASSUME TypeInv, NEW t \in Threads, GrantStep(t) \/ GrantFinal(t)
  PROVE  TypeInv'
<1> USE DEF TypeInv, crm
<1>1. job[t].req \in Requests /\ rstate[job[t].req] # "none" /\ pc[t] = "grant"
  BY HasRequest DEF GrantStep, GrantFinal
<1>2. TablesOK' /\ BodiesOK'
  BY BodiesStay DEF GrantStep, GrantFinal, Count, TablesOK
<1>3. RequestsOK'
  <2>1. job[t].count + 1 \in Nat
    BY DEF ThreadsOK, Job
  <2>. QED
    BY <1>1, <2>1 DEF GrantStep, GrantFinal, Count, RequestsOK
<1>4. \A r \in Requests : rstate[r] # "none" => rstate'[r] # "none"
  BY <1>1 DEF GrantStep, GrantFinal, Count, RequestsOK
<1>5. CASE GrantStep(t)
  <2>1. Free \in Job
    BY SalesAssumption DEF Free, Job
  <2>2. ThreadsOK'
    BY <1>5, <2>1 DEF GrantStep, Leave, Goto, ThreadsOK, Steps
  <2>3. JobsOK'
    BY <1>1, <1>4, <1>5, SalesAssumption
       DEF GrantStep, Count, Leave, Goto, ThreadsOK, JobsOK, Free, Unasked
  <2>. QED
    BY <1>2, <1>3, <2>2, <2>3
<1>6. CASE GrantFinal(t)
  <2>1. ThreadsOK'
    BY <1>6 DEF GrantFinal, Goto, ThreadsOK, Steps
  <2>2. JobsOK'
    BY <1>1, <1>4, <1>6 DEF GrantFinal, Count, Goto, ThreadsOK, JobsOK, Unasked
  <2>. QED
    BY <1>2, <1>3, <2>1, <2>2
<1>. QED
  BY <1>5, <1>6

LEMMA WorkTypes ==
  ASSUME TypeInv, NEW t \in Threads, Work(t)
  PROVE  TypeInv'
<1> USE DEF TypeInv, crm, requests, ghosts
<1>1. ASSUME NEW d \in Deals, AddDeal(t, d) PROVE TypeInv'
  <2>1. TablesOK' /\ RequestsOK'
    BY <1>1 DEF AddDeal, TablesOK, RequestsOK, ThreadsOK, Job
  <2>2. ThreadsOK' /\ JobsOK'
    BY <1>1, GotoTypes DEF AddDeal, JobsOK, Steps, Unasked
  <2>. QED
    BY <1>1, <2>1, <2>2, WroteOK DEF AddDeal
<1>2. CASE Bump(t)
  <2>1. TablesOK' /\ RequestsOK'
    BY <1>2 DEF Bump, TablesOK, RequestsOK
  <2>2. job[t].req \in Requests \cup {NoRequest}
    BY DEF ThreadsOK, Job
  <2>3. ThreadsOK' /\ JobsOK'
    BY <1>2, <2>2, GotoTypes DEF Bump, Steps, Unasked
  <2>4. BodiesOK'
    BY <1>2, WroteOK DEF Bump
  <2>. QED
    BY <2>1, <2>3, <2>4
<1>3. CASE AddFails(t)
  <2>1. TablesOK' /\ RequestsOK' /\ BodiesOK'
    BY <1>3, BodiesStay DEF AddFails, TablesOK, RequestsOK
  <2>2. job[t].req \in Requests \cup {NoRequest}
    BY DEF ThreadsOK, Job
  <2>3. ThreadsOK' /\ JobsOK'
    BY <1>3, <2>2, GotoTypes DEF AddFails, Steps, Unasked
  <2>. QED
    BY <2>1, <2>3
<1>4. CASE Store(t)
  <2>1. job[t].req \in Requests /\ rstate[job[t].req] # "none"
    BY <1>4 DEF Store, JobsOK
  <2>2. TablesOK' /\ BodiesOK'
    BY <1>4, BodiesStay DEF Store, TablesOK
  <2>3. RequestsOK'
    BY <1>4, <2>1 DEF Store, RequestsOK
  <2>4. ThreadsOK'
    BY <1>4, SalesAssumption DEF Store, Leave, Goto, ThreadsOK, Job, Free, Steps
  <2>5. JobsOK'
    BY <1>4, <2>1, SalesAssumption
       DEF Store, Leave, Goto, ThreadsOK, RequestsOK, JobsOK, Free, Unasked
  <2>. QED
    BY <2>2, <2>3, <2>4, <2>5
<1>5. CASE Answer(t)
  <2>1. TablesOK' /\ RequestsOK'
    BY <1>5 DEF Answer, TablesOK, RequestsOK
  <2>2. ThreadsOK'
    BY <1>5, SalesAssumption DEF Answer, ThreadsOK, Job, Free, Steps
  <2>3. JobsOK'
    BY <1>5, SalesAssumption DEF Answer, ThreadsOK, JobsOK, Free, Unasked
  <2>5. BodiesOK'
    BY <1>5, NoBodyOK DEF Answer, BodiesOK, BodyOK
  <2>. QED
    BY <2>1, <2>2, <2>3, <2>5
<1>6. CASE ReadStart(t)
  <2>1. TablesOK' /\ RequestsOK' /\ BodiesOK'
    BY <1>6, BodiesStay DEF ReadStart, TablesOK, RequestsOK
  <2>2. ThreadsOK' /\ JobsOK'
    BY <1>6, GotoTypes DEF ReadStart, JobsOK, Steps, Unasked
  <2>. QED
    BY <2>1, <2>2
<1>7. CASE ReadEnd(t) \/ ReadFails(t)
  <2>1. TablesOK' /\ RequestsOK'
    BY <1>7 DEF ReadEnd, ReadFails, TablesOK, RequestsOK
  <2>2. ThreadsOK' /\ JobsOK'
    BY <1>7, GotoTypes DEF ReadEnd, ReadFails, JobsOK, Steps, Unasked
  <2>3. BodiesOK'
    BY <1>7, NoBodyOK DEF ReadEnd, ReadFails, BodiesOK, BodyOK
  <2>. QED
    BY <2>1, <2>2, <2>3
<1>. QED
  BY <1>1, <1>2, <1>3, <1>4, <1>5, <1>6, <1>7, EntryTypes, RunTypes, GrantTypes DEF Work

LEMMA NextTypes == TypeInv /\ [Next]_vars => TypeInv'
<1> SUFFICES ASSUME TypeInv, [Next]_vars PROVE TypeInv'
  OBVIOUS
<1> USE DEF TypeInv, crm, requests, ghosts
<1>1. CASE Tick
  <2>1. TablesOK' /\ RequestsOK' /\ ThreadsOK' /\ JobsOK'
    BY <1>1 DEF Tick, TablesOK, RequestsOK, ThreadsOK, JobsOK
  <2>2. \A t \in Threads : BodyOK(body'[t])
    BY <1>1, OlderOK DEF Tick, BodiesOK
  <2>3. BodiesOK'
    BY <1>1, <2>2, OlderOK DEF Tick, BodiesOK, BodyOK
  <2>. QED
    BY <2>1, <2>3
<1>2. CASE Crash
  <2>1. TablesOK' /\ RequestsOK'
    BY <1>2 DEF Crash, TablesOK, RequestsOK
  <2>2. ThreadsOK' /\ JobsOK'
    BY <1>2, SalesAssumption DEF Crash, ThreadsOK, Job, JobsOK, Free, Steps, Unasked
  <2>3. BodiesOK'
    BY <1>2, NoBodyOK DEF Crash, BodiesOK, BodyOK
  <2>. QED
    BY <2>1, <2>2, <2>3
<1>3. CASE UNCHANGED vars
  <2>1. TablesOK' /\ RequestsOK' /\ ThreadsOK' /\ JobsOK'
    BY <1>3 DEF vars, TablesOK, RequestsOK, ThreadsOK, JobsOK
  <2>. QED
    BY <1>3, <2>1, BodiesStay DEF vars
<1>. QED
  BY <1>1, <1>2, <1>3, ArriveTypes, WorkTypes DEF Next

LEMMA TypeInvariant == Spec => []TypeInv
BY InitTypes, NextTypes, PTL DEF Spec

\* Types are kept, for any contacts, deals, requests and threads: a thread that
\* runs a request holds one that was asked for, an entry names a contact.
THEOREM SalesTypeCorrect == Spec => []SalesTypeOK
BY TypeInvariant, TypesMeanOK, PTL

\* Whatever the cache can serve misses only writes younger than the life of an
\* entry: the age of the miss and what is left of the life never add up to more
\* than that life.
THEOREM HitsAreRecentCorrect == Spec => []HitsAreRecent
<1>1. TypeInv => HitsAreRecent
  BY SalesAssumption DEF TypeInv, BodiesOK, BodyOK, Body, HitsAreRecent
<1>. QED
  BY <1>1, TypeInvariant, PTL

-----------------------------------------------------------------------------
(* Entries stand under their contact. Whoever still writes one holds the id *)
(* of the contact's row, as long as the contact is not gone.                *)

Held(c, i) == c \in gone \/ (i # 0 /\ row[c] = i)

RowsInv ==
  /\ EntriesAreTheirs
  /\ \A r \in Requests : rstate[r] # "none" /\ kind[r] = "followup" =>
       Held(about[r].contact, about[r].row)
  /\ \A t \in Threads : pc[t] = "addEntry" => Held(job[t].contact, job[t].row)

LEMMA InitRows == Init => RowsInv
BY DEF Init, RowsInv, EntriesAreTheirs

\* Steps that leave the tables and the requests alone and begin no entry.
LEMMA RowsStay ==
  ASSUME RowsInv, UNCHANGED <<row, gone, entries, about, kind>>,
         \A r \in Requests : rstate'[r] # "none" => rstate[r] # "none",
         \A t \in Threads : pc'[t] = "addEntry" => pc[t] = "addEntry" /\ job'[t] = job[t]
  PROVE  RowsInv'
BY DEF RowsInv, EntriesAreTheirs, Held

LEMMA ArriveRows ==
  ASSUME TypeInv, RowsInv, NEW t \in Threads, Arrive(t)
  PROVE  RowsInv'
<1> USE DEF TypeInv, crm, requests, ghosts
<1>1. ASSUME NEW c \in Contacts, AddContact(t, c) PROVE RowsInv'
  <2>1. \A x \in Contacts, i \in 0 .. MaxRows : Held(x, i) => Held(x, i)'
    BY <1>1 DEF AddContact, Held, TablesOK
  <2>2. \A e \in entries : e.row # 0 /\ e.of \in Contacts
    BY DEF TablesOK, Entry, Ids
  <2>3. EntriesAreTheirs'
    BY <1>1, <2>2 DEF AddContact, RowsInv, EntriesAreTheirs, TablesOK
  <2>4. \A u \in Threads : pc'[u] = "addEntry" =>
          pc[u] = "addEntry" /\ job[u].contact \in Contacts /\ job[u].row \in 0 .. MaxRows
    BY <1>1 DEF AddContact, Serve, ThreadsOK, Job, JobsOK
  <2>5. \A r \in Requests : rstate[r] # "none" /\ kind[r] = "followup" =>
          about[r].contact \in Contacts /\ about[r].row \in 0 .. MaxRows
    BY DEF RequestsOK, Payload
  <2>. QED
    BY <1>1, <2>1, <2>3, <2>4, <2>5 DEF AddContact, RowsInv
<1>3. ASSUME NEW c \in Contacts \cup {NoContact}, NEW i \in 0 .. MaxRows,
             NEW next \in {"addDeal", "addEntry"}, Resolve(t, c, i, next)
      PROVE  RowsInv'
  <2>1. next = "addEntry" => Held(c, i)
    BY <1>3 DEF Resolve, Held
  <2>2. job'[t].contact = c /\ job'[t].row = i
    BY <1>3 DEF Resolve, ThreadsOK, Job
  <2>3. \A u \in Threads : pc'[u] = "addEntry" => Held(job'[u].contact, job'[u].row)
    BY <1>3, <2>1, <2>2 DEF Resolve, Serve, ThreadsOK, RowsInv, Held
  <2>. QED
    BY <1>3, <2>3 DEF Resolve, RowsInv, EntriesAreTheirs, Held
<1>4. ASSUME NEW r \in Requests, NEW k \in Kind, NEW p, NEW mini \in BOOLEAN,
             k = "followup" => Held(p.contact, p.row), Ask(t, r, k, p, mini)
      PROVE  RowsInv'
  <2>1. \A u \in Threads : pc'[u] = "addEntry" => pc[u] = "addEntry"
    BY <1>4 DEF Ask, Serve, ThreadsOK
  <2>2. /\ kind' \in [Requests -> Kind] /\ kind'[r] = k /\ about'[r] = p
        /\ \A q \in Requests \ {r} : about'[q] = about[q] /\ kind'[q] = kind[q]
                                     /\ rstate'[q] = rstate[q]
    BY <1>4 DEF Ask, RequestsOK
  <2>. QED
    BY <1>4, <2>1, <2>2 DEF Ask, RowsInv, EntriesAreTheirs, Held
<1>5. ASSUME NEW r \in Requests, NEW d \in Deals, AskDeal(t, r, d) PROVE RowsInv'
  BY <1>4, <1>5 DEF AskDeal, Kind
<1>6. ASSUME NEW r \in Requests, NEW c \in Contacts, AskContact(t, r, c) PROVE RowsInv'
  BY <1>4, <1>6 DEF AskContact, Kind
<1>7. ASSUME NEW r \in Requests, NEW c \in Contacts, NEW mini \in BOOLEAN, Prepare(t, r, c, mini)
      PROVE  RowsInv'
  <2>. DEFINE p == [NoPayload EXCEPT !.contact = c, !.row = row[c]]
  <2>1. p.contact = c /\ p.row = row[c]
    BY DEF NoPayload
  <2>2. Held(p.contact, p.row)
    BY <1>7, <2>1 DEF Prepare, Held
  <2>. QED
    BY <1>4, <1>7, <2>2 DEF Prepare, Kind
<1>8. ASSUME NEW r \in Requests, NEW mini \in BOOLEAN, Press(t, r, mini) PROVE RowsInv'
  BY <1>8, RowsStay DEF Press, Serve, ThreadsOK, RequestsOK
<1>9. CASE Hit(t) \/ Look(t)
  BY <1>9, RowsStay DEF Hit, Look, Serve, ThreadsOK
<1>. QED
  BY <1>1, <1>3, <1>5, <1>6, <1>7, <1>8, <1>9 DEF Arrive, AskFollowup, AskInChat

LEMMA WorkRows ==
  ASSUME TypeInv, RowsInv, NEW t \in Threads, Work(t)
  PROVE  RowsInv'
<1> USE DEF TypeInv, crm, requests, ghosts
<1>1. CASE AddEntry(t)
  <2>1. \A u \in Threads : pc'[u] = "addEntry" => pc[u] = "addEntry"
    BY <1>1 DEF AddEntry, Goto, ThreadsOK
  <2>2. Held(job[t].contact, job[t].row)
    BY <1>1 DEF AddEntry, RowsInv
  <2>3. EntriesAreTheirs'
    <3>. DEFINE e == [of |-> job[t].contact, row |-> job[t].row,
                      late |-> job[t].contact \in gone]
    <3>1. entries' = entries \cup {e} /\ row' = row
      BY <1>1 DEF AddEntry
    <3>2. e.late \/ row[e.of] = e.row
      BY <2>2 DEF Held
    <3>. QED
      BY <3>1, <3>2 DEF RowsInv, EntriesAreTheirs
  <2>. QED
    BY <1>1, <2>1, <2>3 DEF AddEntry, RowsInv, Held
<1>2. CASE DropContact(t)
  <2>1. job[t].contact \in Contacts
    BY <1>2 DEF DropContact, Running, JobsOK, RequestsOK
  <2>2. \A x, i : Held(x, i) => Held(x, i)'
    BY <1>2, <2>1 DEF DropContact, Held, TablesOK
  <2>3. EntriesAreTheirs'
    BY <1>2, <2>1 DEF DropContact, RowsInv, EntriesAreTheirs, TablesOK
  <2>4. \A u \in Threads : pc'[u] = "addEntry" => pc[u] = "addEntry"
    BY <1>2 DEF DropContact, Write, Goto, ThreadsOK
  <2>. QED
    BY <1>2, <2>2, <2>3, <2>4 DEF DropContact, RowsInv
<1>3. CASE Send(t)
  <2>1. \A u \in Threads : pc'[u] = "addEntry" => pc[u] = "addEntry" \/ u = t
    BY <1>3 DEF Send, Goto, ThreadsOK
  <2>2. Held(job[t].contact, job[t].row)
    BY <1>3 DEF Send, Running, RowsInv, JobsOK
  <2>. QED
    BY <1>3, <2>1, <2>2 DEF Send, RowsInv, EntriesAreTheirs, Held
<1>4. CASE Store(t)
  <2>1. \A r \in Requests : rstate'[r] # "none" => rstate[r] # "none"
    BY <1>4 DEF Store, JobsOK, RequestsOK
  <2>. QED
    BY <1>4, <2>1, RowsStay DEF Store, Leave, Goto, ThreadsOK
<1>5. CASE (\E d \in Deals : AddDeal(t, d)) \/ Bump(t) \/ AddFails(t) \/ Raise(t) \/ SendFails(t)
  BY <1>5, RowsStay DEF AddDeal, Bump, AddFails, Raise, SendFails, Goto, ThreadsOK
<1>7. CASE EditContact(t) \/ Move(t) \/ Point(t) \/ DropDeal(t)
  BY <1>7, RowsStay DEF EditContact, Move, Point, DropDeal, Write, Goto, ThreadsOK
<1>8. CASE GrantStep(t) \/ GrantFinal(t)
  <2>1. \A r \in Requests : rstate'[r] # "none" => rstate[r] # "none"
    BY <1>8, HasRequest DEF GrantStep, GrantFinal, Count, RequestsOK
  <2>. QED
    BY <1>8, <2>1, RowsStay DEF GrantStep, GrantFinal, Count, Leave, Goto, ThreadsOK
<1>6. CASE Answer(t) \/ ReadStart(t) \/ ReadEnd(t) \/ ReadFails(t)
  BY <1>6, RowsStay DEF Answer, ReadStart, ReadEnd, ReadFails, Goto, ThreadsOK
<1>. QED
  BY <1>1, <1>2, <1>3, <1>4, <1>5, <1>6, <1>7, <1>8 DEF Work

\* For any contacts, requests and threads, and any reuse of row ids: an
\* interaction stands under the contact it is about, unless it was entered after
\* that contact was deleted.
THEOREM EntriesAreTheirsCorrect == Spec => []EntriesAreTheirs
<1>1. TypeInv /\ RowsInv /\ [Next]_vars => RowsInv'
  <2>1. SUFFICES ASSUME TypeInv, RowsInv, [Next]_vars PROVE RowsInv'
    OBVIOUS
  <2>2. CASE Tick \/ Crash \/ UNCHANGED vars
    BY <2>1, <2>2, RowsStay DEF Tick, Crash, vars, crm, requests
  <2>. QED
    BY <2>1, <2>2, ArriveRows, WorkRows DEF Next
<1>2. RowsInv => EntriesAreTheirs
  BY DEF RowsInv
<1>. QED
  BY <1>1, <1>2, InitRows, TypeInvariant, PTL DEF Spec

-----------------------------------------------------------------------------
(* Approvals. What a request cost so far is what was felt and what is about *)
(* to be; who saw a count that is not zero saw an approval that no run used.*)

Working(r) == {t \in Threads : job[t].req = r /\ pc[t] = "run"}
Spent(r) == felt[r] + Cardinality(Working(r))
Seen(r) == count[r] # 0 \/ \E t \in Threads : job[t].req = r /\ job[t].count # 0
Red(r) == Level(kind[r]) = "red"

PaidFor(r) ==
  /\ Spent(r) <= given[r]
  /\ Red(r) /\ Seen(r) => Spent(r) + 1 <= given[r]
  /\ rstate[r] = "none" => count[r] = 0

PaidInv ==
  /\ \A r \in Requests : PaidFor(r)
  /\ \A t \in Threads : pc[t] = "run" /\ Red(job[t].req) => job[t].count # 0

LEMMA WorkingFinite ==
  ASSUME NEW r
  PROVE  /\ IsFiniteSet(Working(r)) /\ Cardinality(Working(r)) \in Nat
         /\ IsFiniteSet(Working(r)') /\ Cardinality(Working(r)') \in Nat
<1>1. Working(r) \subseteq Threads /\ Working(r)' \subseteq Threads
  BY DEF Working
<1>. QED
  BY <1>1, SalesAssumption, FS_Subset, FS_CardinalityType

\* A grant sends one more thread to work, a run takes one off.
LEMMA SpentStays ==
  ASSUME NEW r, felt[r] \in Nat, felt'[r] = felt[r], Working(r)' \subseteq Working(r)
  PROVE  Spent(r)' <= Spent(r)
<1>1. Cardinality(Working(r)') <= Cardinality(Working(r))
  BY WorkingFinite, FS_Subset
<1>. QED
  BY <1>1, WorkingFinite DEF Spent

LEMMA SpentByGrant ==
  ASSUME NEW r, felt[r] \in Nat, felt'[r] = felt[r], NEW t, Working(r)' \subseteq Working(r) \cup {t}
  PROVE  Spent(r)' <= Spent(r) + 1
<1>. DEFINE more == Working(r) \cup {t}
<1>1. /\ IsFiniteSet(more)
      /\ Cardinality(more) = IF t \in Working(r) THEN Cardinality(Working(r))
                             ELSE Cardinality(Working(r)) + 1
  BY WorkingFinite, FS_AddElement
<1>2. Cardinality(more) \in Nat /\ Cardinality(more) <= Cardinality(Working(r)) + 1
  BY <1>1, WorkingFinite
<1>3. Cardinality(Working(r)') <= Cardinality(more)
  BY <1>1, FS_Subset
<1>. HIDE DEF more
<1>. QED
  BY <1>2, <1>3, WorkingFinite DEF Spent

LEMMA SpentByRun ==
  ASSUME NEW r, felt[r] \in Nat, felt'[r] = felt[r] + 1, NEW t \in Working(r),
         Working(r)' \subseteq Working(r) \ {t}
  PROVE  Spent(r)' <= Spent(r)
<1>1. IsFiniteSet(Working(r) \ {t}) /\ Cardinality(Working(r) \ {t}) = Cardinality(Working(r)) - 1
  BY WorkingFinite, FS_RemoveElement
<1>2. Cardinality(Working(r)') <= Cardinality(Working(r)) - 1
  BY <1>1, FS_Subset
<1>. QED
  BY <1>2, WorkingFinite DEF Spent

-----------------------------------------------------------------------------
(* What a step of one thread does to all that.                             *)

Step(t) == Arrive(t) \/ Work(t)
Grant(t) == GrantStep(t) \/ GrantFinal(t)

LEMMA OthersStay ==
  ASSUME TypeInv, NEW t \in Threads, Step(t), NEW u \in Threads, u # t
  PROVE  pc'[u] = pc[u] /\ job'[u] = job[u]
<1> USE DEF TypeInv, ThreadsOK, Serve, Goto
<1>1. CASE Arrive(t)
  BY <1>1 DEF Arrive, AddContact, Resolve, Press, AskDeal, AskContact, AskFollowup, AskInChat,
     Prepare, Ask, Hit, Look
<1>2. CASE Work(t)
  BY <1>2 DEF Work, AddDeal, AddEntry, Bump, AddFails, GrantStep, GrantFinal, Leave, EditContact,
     Move, Point, DropDeal, DropContact, Write, Raise, Send, SendFails, Store, Answer,
     ReadStart, ReadEnd, ReadFails
<1>. QED
  BY <1>1, <1>2 DEF Step

\* Arrivals that ask for nothing, and steps that are no decision and no outcome,
\* leave the requests alone.
LEMMA RequestStays ==
  ASSUME TypeInv, NEW t \in Threads, Step(t), NEW r \in Requests, rstate[r] # "none"
  PROVE  kind'[r] = kind[r] /\ rstate'[r] # "none"
<1> USE DEF requests, TypeInv, RequestsOK
<1>1. CASE Arrive(t)
  BY <1>1 DEF Arrive, AddContact, Resolve, Press, AskDeal, AskContact, AskFollowup, AskInChat,
     Prepare, Ask, Hit, Look
<1>2. CASE Work(t)
  BY <1>2 DEF Work, AddDeal, AddEntry, Bump, AddFails, GrantStep, GrantFinal, Count, EditContact,
     Move, Point, DropDeal, DropContact, Raise, Send, SendFails, Store, Answer,
     ReadStart, ReadEnd, ReadFails
<1>. QED
  BY <1>1, <1>2 DEF Step

LEMMA GivenStays ==
  ASSUME NEW t \in Threads, Step(t), ~Grant(t)
  PROVE  UNCHANGED <<given, count>>
<1> USE DEF requests, ghosts
<1>1. CASE Arrive(t)
  BY <1>1 DEF Arrive, AddContact, Resolve, Press, AskDeal, AskContact, AskFollowup, AskInChat,
     Prepare, Ask, Hit, Look
<1>2. CASE Work(t)
  BY <1>2 DEF Work, Grant, AddDeal, AddEntry, Bump, AddFails, EditContact, Move, Point, DropDeal,
     DropContact, Write, Felt, Raise, Send, SendFails, Store, Answer, ReadStart, ReadEnd, ReadFails
<1>. QED
  BY <1>1, <1>2 DEF Step

LEMMA FeltByRun ==
  ASSUME TypeInv, NEW t \in Threads, Step(t), felt' # felt
  PROVE  /\ Felt(t) /\ pc[t] = "run" /\ pc'[t] # "run" /\ ~Grant(t)
         /\ UNCHANGED <<rstate, kind>>
<1> USE DEF requests, ghosts, TypeInv, ThreadsOK
<1>1. ~Arrive(t)
  BY DEF Arrive, AddContact, Resolve, Press, AskDeal, AskContact, AskFollowup, AskInChat,
     Prepare, Ask, Hit, Look
<1>2. CASE EditContact(t) \/ Move(t) \/ Point(t) \/ DropDeal(t) \/ DropContact(t)
  BY <1>2 DEF EditContact, Move, Point, DropDeal, DropContact, Write, Running, Goto,
     Grant, GrantStep, GrantFinal
<1>3. CASE Send(t) \/ SendFails(t)
  BY <1>3 DEF Send, SendFails, Running, Goto, Grant, GrantStep, GrantFinal
<1>4. ASSUME ~(EditContact(t) \/ Move(t) \/ Point(t) \/ DropDeal(t) \/ DropContact(t)),
             ~(Send(t) \/ SendFails(t)), Work(t)
      PROVE  FALSE
  BY <1>4 DEF Work, AddDeal, AddEntry, Bump, AddFails, GrantStep, GrantFinal, Count, Raise,
     Store, Answer, ReadStart, ReadEnd, ReadFails
<1>. QED
  BY <1>1, <1>2, <1>3, <1>4 DEF Step

\* A thread runs a request only once it was granted.
LEMMA RunByGrant ==
  ASSUME TypeInv, NEW t \in Threads, Step(t), pc'[t] = "run"
  PROVE  GrantFinal(t)
<1> USE DEF TypeInv, ThreadsOK, Serve, Goto
<1>1. ~Arrive(t)
  BY DEF Arrive, AddContact, Resolve, Press, AskDeal, AskContact, AskFollowup, AskInChat,
     Prepare, Ask, Hit, Look
<1>2. ASSUME Work(t), ~GrantFinal(t) PROVE FALSE
  BY <1>2 DEF Work, AddDeal, AddEntry, Bump, AddFails, GrantStep, Leave, EditContact,
     Move, Point, DropDeal, DropContact, Write, Raise, Send, SendFails, Store, Answer,
     ReadStart, ReadEnd, ReadFails
<1>. QED
  BY <1>1, <1>2 DEF Step

\* The count a thread holds is the one it read when its decision arrived.
LEMMA ReadsCounts ==
  ASSUME TypeInv, NEW t \in Threads, Step(t)
  PROVE  \/ job'[t].req = NoRequest
         \/ job'[t].req = job[t].req /\ job'[t].count = job[t].count
         \/ /\ job'[t].req \in Requests /\ job'[t].count = count[job'[t].req]
            /\ ~Grant(t) /\ rstate[job'[t].req] # "none"
<1> USE DEF TypeInv, ThreadsOK, Job
<1>1. ASSUME NEW r \in Requests, NEW mini, Press(t, r, mini)
      PROVE  job'[t].req = r /\ job'[t].count = count[r] /\ ~Grant(t) /\ rstate[r] # "none"
  BY <1>1 DEF Press, Serve, Grant, GrantStep, GrantFinal
<1>4. ASSUME NEW c, NEW i, NEW next, Resolve(t, c, i, next)
      PROVE  job'[t].req = job[t].req /\ job'[t].count = job[t].count
  BY <1>4 DEF Resolve
<1>2. ASSUME Arrive(t), ~(\E r \in Requests, mini \in BOOLEAN : Press(t, r, mini))
      PROVE  job'[t].req = job[t].req /\ job'[t].count = job[t].count
  BY <1>2, <1>4 DEF Arrive, AddContact, AskDeal, AskContact, AskFollowup, AskInChat, Prepare, Ask,
     Hit, Look
<1>3. CASE Work(t)
  BY <1>3 DEF Work, AddDeal, AddEntry, Bump, AddFails, GrantStep, GrantFinal, Leave, Free,
     EditContact, Move, Point, DropDeal, DropContact, Raise, Send, SendFails, Store, Answer,
     ReadStart, ReadEnd, ReadFails
<1>. QED
  BY <1>1, <1>2, <1>3 DEF Step, Arrive

LEMMA WorkingStays ==
  ASSUME TypeInv, NEW t \in Threads, Step(t), NEW r \in Requests
  PROVE  Working(r)' \subseteq Working(r) \cup (IF GrantFinal(t) /\ r = job[t].req THEN {t} ELSE {})
<1>1. ASSUME NEW u \in Threads, job'[u].req = r, pc'[u] = "run"
      PROVE  u \in Working(r) \/ (GrantFinal(t) /\ r = job[t].req /\ u = t)
  <2>1. CASE u # t
    BY <1>1, <2>1, OthersStay DEF Working
  <2>2. CASE u = t
    BY <1>1, <2>2, RunByGrant DEF GrantFinal
  <2>. QED
    BY <2>1, <2>2
<1>2. ASSUME NEW u \in Working(r)' PROVE u \in Threads /\ job'[u].req = r /\ pc'[u] = "run"
  BY <1>2 DEF Working
<1>. QED
  BY <1>1, <1>2

LEMMA SeenStays ==
  ASSUME TypeInv, NEW t \in Threads, Step(t), NEW r \in Requests,
         count'[r] = count[r], Seen(r)'
  PROVE  Seen(r)
<1>1. CASE count'[r] # 0
  BY <1>1 DEF Seen
<1>2. ASSUME NEW u \in Threads, job'[u].req = r, job'[u].count # 0 PROVE Seen(r)
  <2>1. CASE u # t
    BY <1>2, <2>1, OthersStay DEF Seen
  <2>2. CASE u = t
    BY <1>2, <2>2, ReadsCounts, SalesAssumption DEF Seen
  <2>. QED
    BY <2>1, <2>2
<1>. QED
  BY <1>1, <1>2 DEF Seen

\* A request nobody asked for has no thread at work, and none that read it.
LEMMA NobodyBefore ==
  ASSUME TypeInv, PaidInv, NEW r \in Requests, rstate[r] = "none"
  PROVE  ~Seen(r)
<1>1. \A t \in Threads : job[t].req # r
  BY DEF TypeInv, JobsOK
<1>2. count[r] = 0
  BY DEF PaidInv, PaidFor
<1>. QED
  BY <1>1, <1>2 DEF Seen

-----------------------------------------------------------------------------
(* The accounts are kept.                                                  *)

\* A step that is no decision on the request.
LEMMA OthersPaid ==
  ASSUME TypeInv, PaidInv, NEW t \in Threads, Step(t), NEW r \in Requests,
         ~Grant(t) \/ r # job[t].req
  PROVE  PaidFor(r)'
<1> USE DEF TypeInv
<1>1. count'[r] = count[r] /\ given'[r] = given[r]
  <2>1. CASE ~Grant(t)
    BY <2>1, GivenStays
  <2>2. CASE Grant(t)
    BY <2>2 DEF Grant, GrantStep, GrantFinal, Count, RequestsOK
  <2>. QED
    BY <2>1, <2>2
<1>2. Working(r)' \subseteq Working(r)
  BY WorkingStays DEF Grant
<1>3. felt[r] \in Nat /\ felt'[r] \in Nat /\ given[r] \in Nat /\ Spent(r) \in Nat /\ Spent(r)' \in Nat
  BY NextTypes, WorkingFinite DEF RequestsOK, Spent, Step, Next
<1>4. Spent(r)' <= Spent(r)
  <2>1. CASE felt'[r] = felt[r]
    BY <1>2, <1>3, <2>1, SpentStays
  <2>2. CASE felt'[r] # felt[r]
    <3>1. Felt(t) /\ pc[t] = "run" /\ pc'[t] # "run"
      BY <2>2, FeltByRun
    <3>2. r = job[t].req /\ felt'[r] = felt[r] + 1
      BY <2>2, <3>1 DEF Felt, RequestsOK
    <3>3. t \in Working(r) /\ t \notin Working(r)'
      BY <3>1, <3>2 DEF Working
    <3>. QED
      BY <1>2, <1>3, <3>2, <3>3, SpentByRun
  <2>. QED
    BY <2>1, <2>2
<1>5. PaidFor(r)
  BY DEF PaidInv
<1>6. Seen(r)' => Seen(r)
  BY <1>1, SeenStays
<1>7. CASE rstate[r] # "none"
  <2>1. kind'[r] = kind[r] /\ rstate'[r] # "none"
    BY <1>7, RequestStays
  <2>. QED
    BY <1>1, <1>3, <1>4, <1>5, <1>6, <2>1 DEF PaidFor, Red
<1>8. CASE rstate[r] = "none"
  <2>1. count'[r] = 0 /\ ~Seen(r)'
    BY <1>1, <1>5, <1>6, <1>8, NobodyBefore DEF PaidFor
  <2>. QED
    BY <1>1, <1>3, <1>4, <1>5, <2>1 DEF PaidFor
<1>. QED
  BY <1>7, <1>8

\* A decision adds an approval, and at most one run.
LEMMA GrantPaid ==
  ASSUME TypeInv, PaidInv, NEW t \in Threads, Grant(t), NEW r \in Requests, r = job[t].req
  PROVE  PaidFor(r)'
<1> USE DEF TypeInv
<1>1. rstate[r] # "none"
  BY HasRequest DEF Grant, GrantStep, GrantFinal
<1>2. /\ given' = [given EXCEPT ![r] = @ + 1] /\ UNCHANGED <<felt, kind>>
      /\ \E st \in {"confirming", "approved"} : rstate' = [rstate EXCEPT ![r] = st]
  BY DEF Grant, GrantStep, GrantFinal, Count
<1>3. /\ felt[r] \in Nat /\ given[r] \in Nat /\ Spent(r) \in Nat /\ Spent(r)' \in Nat
      /\ felt'[r] = felt[r] /\ given'[r] = given[r] + 1 /\ kind'[r] = kind[r]
      /\ rstate'[r] # "none"
  BY <1>1, <1>2, WorkingFinite DEF RequestsOK, Spent
<1>4. Step(t) /\ PaidFor(r)
  BY DEF Step, Work, Grant, PaidInv
<1>5. job[t].count \in Nat
  BY DEF ThreadsOK, Job
<1>6. CASE GrantFinal(t)
  <2>1. Working(r)' \subseteq Working(r) \cup {t}
    BY <1>4, <1>6, WorkingStays
  <2>2. Spent(r)' <= Spent(r) + 1
    BY <1>3, <2>1, SpentByGrant
  <2>3. Red(r) => Seen(r)
    BY <1>5, <1>6 DEF GrantFinal, Required, Red, Seen
  <2>4. Red(r) => Spent(r)' + 1 <= given'[r]
    BY <1>3, <1>4, <2>2, <2>3 DEF PaidFor
  <2>5. Spent(r)' <= given'[r]
    BY <1>3, <1>4, <2>2 DEF PaidFor
  <2>. QED
    BY <1>3, <2>4, <2>5 DEF PaidFor, Red
<1>7. CASE GrantStep(t)
  <2>1. Working(r)' \subseteq Working(r)
    <3>1. ~GrantFinal(t)
      BY <1>5, <1>7 DEF GrantStep, GrantFinal, Required
    <3>. QED
      BY <1>4, <3>1, WorkingStays
  <2>2. Spent(r)' + 1 <= given'[r]
    BY <1>3, <1>4, <2>1, SpentStays DEF PaidFor
  <2>. QED
    BY <1>3, <2>2 DEF PaidFor
<1>. QED
  BY <1>6, <1>7 DEF Grant

\* A crash takes the threads off their work.
LEMMA CrashPaid ==
  ASSUME TypeInv, PaidInv, Crash
  PROVE  PaidInv'
<1> USE DEF TypeInv, requests, ghosts
<1>1. ASSUME NEW r \in Requests PROVE PaidFor(r)'
  <2>1. Working(r)' = {} /\ (Seen(r)' => Seen(r))
    BY SalesAssumption DEF Crash, Working, Seen, Free
  <2>2. felt[r] \in Nat /\ given[r] \in Nat /\ Spent(r) \in Nat /\ Spent(r)' \in Nat
    BY WorkingFinite DEF Crash, RequestsOK, Spent
  <2>3. Spent(r)' <= Spent(r)
    BY <2>1, <2>2, SpentStays DEF Crash
  <2>4. PaidFor(r)
    BY DEF PaidInv
  <2>5. UNCHANGED <<given, count, kind, rstate>>
    BY DEF Crash
  <2>. QED
    BY <2>1, <2>2, <2>3, <2>4, <2>5 DEF PaidFor, Red
<1>. QED
  BY <1>1 DEF PaidInv, Crash

LEMMA NextPaid == TypeInv /\ PaidInv /\ [Next]_vars => PaidInv'
<1> SUFFICES ASSUME TypeInv, PaidInv, [Next]_vars PROVE PaidInv'
  OBVIOUS
<1>1. ASSUME NEW t \in Threads, Step(t) PROVE PaidInv'
  <2>1. ASSUME NEW r \in Requests PROVE PaidFor(r)'
    <3>1. CASE ~Grant(t) \/ r # job[t].req
      BY <1>1, <3>1, OthersPaid
    <3>2. CASE Grant(t) /\ r = job[t].req
      BY <3>2, GrantPaid
    <3>. QED
      BY <3>1, <3>2
  <2>2. ASSUME NEW u \in Threads, pc'[u] = "run", Level(kind'[job'[u].req]) = "red"
        PROVE  job'[u].count # 0
    <3>1. CASE u # t
      <4>1. pc[u] = "run" /\ job'[u] = job[u]
        BY <1>1, <2>2, <3>1, OthersStay
      <4>2. kind'[job[u].req] = kind[job[u].req]
        BY <1>1, <4>1, HasRequest, RequestStays
      <4>. QED
        BY <2>2, <4>1, <4>2 DEF PaidInv, Red
    <3>2. CASE u = t
      <4>1. GrantFinal(t) /\ job' = job /\ kind' = kind
        BY <1>1, <2>2, <3>2, RunByGrant DEF GrantFinal, Count
      <4>2. job[t].count \in Nat /\ job[t].count + 1 >= 2
        BY <2>2, <3>2, <4>1 DEF GrantFinal, Required, TypeInv, ThreadsOK, Job
      <4>. QED
        BY <3>2, <4>1, <4>2
    <3>. QED
      BY <3>1, <3>2
  <2>. QED
    BY <2>1, <2>2 DEF PaidInv, Red
<1>2. CASE Tick \/ UNCHANGED vars
  BY <1>2 DEF Tick, vars, requests, ghosts, PaidInv, PaidFor, Spent, Working, Seen, Red
<1>. QED
  BY <1>1, <1>2, CrashPaid DEF Next, Step

-----------------------------------------------------------------------------
(* The steps of the sales desk, as the gate sees them.                     *)

Levels == [r \in Requests |-> IF rstate[r] = "none" THEN "none" ELSE Level(kind[r])]

LEMMA LevelsStay ==
  ASSUME \A r \in Requests : (rstate'[r] = "none" <=> rstate[r] = "none")
                             /\ (rstate[r] # "none" => kind'[r] = kind[r])
  PROVE  Levels' = Levels
BY DEF Levels, Level

LEMMA AskIsAsk ==
  ASSUME TypeInv, NEW t, NEW r \in Requests, NEW k \in Kind, NEW p, NEW mini, Ask(t, r, k, p, mini)
  PROVE  Gate!GateNext
<1>1. /\ rstate[r] = "none" /\ rstate'[r] = "asked" /\ kind'[r] = k
      /\ \A q \in Requests \ {r} : rstate'[q] = rstate[q] /\ kind'[q] = kind[q]
      /\ UNCHANGED <<given, felt>>
  BY DEF Ask, TypeInv, RequestsOK, ghosts
<1>2. Level(k) \in Gate!Level /\ Levels[r] = "none"
  BY <1>1 DEF Level, Gate!Level, Levels
<1>3. Levels' = [Levels EXCEPT ![r] = Level(k)]
  BY <1>1 DEF Levels, Level
<1>4. Gate!Ask(r, Level(k))
  BY <1>1, <1>2, <1>3 DEF Gate!Ask, Levels
<1>. QED
  BY <1>2, <1>4 DEF Gate!GateNext

LEMMA GrantIsApprove ==
  ASSUME TypeInv, NEW t \in Threads, Grant(t)
  PROVE  Gate!GateNext
<1>. DEFINE r == job[t].req
<1>1. r \in Requests /\ rstate[r] # "none"
  BY HasRequest DEF Grant, GrantStep, GrantFinal
<1>2. /\ given' = [given EXCEPT ![r] = @ + 1] /\ UNCHANGED <<felt, kind>>
      /\ \E st \in {"confirming", "approved"} : rstate' = [rstate EXCEPT ![r] = st]
  BY DEF Grant, GrantStep, GrantFinal, Count
<1>. HIDE DEF r
<1>3. Levels' = Levels
  BY <1>1, <1>2, LevelsStay DEF TypeInv, RequestsOK
<1>4. Gate!Approve(r)
  BY <1>1, <1>2, <1>3 DEF Gate!Approve, Levels, Level
<1>. QED
  BY <1>1, <1>4 DEF Gate!GateNext

LEMMA FeltIsRun ==
  ASSUME TypeInv, PaidInv, NEW t \in Threads, Step(t), felt' # felt
  PROVE  Gate!GateNext
<1>. DEFINE r == job[t].req
<1>1. /\ felt' = [felt EXCEPT ![r] = @ + 1] /\ pc[t] = "run"
      /\ UNCHANGED <<rstate, kind, given>>
  BY FeltByRun, GivenStays DEF Felt
<1>2. r \in Requests /\ rstate[r] # "none"
  BY <1>1, HasRequest
<1>3. /\ felt[r] \in Nat /\ given[r] \in Nat
      /\ Cardinality(Working(r)) \in Nat /\ Cardinality(Working(r)) # 0
  <2>1. t \in Working(r)
    BY <1>1 DEF Working
  <2>. QED
    BY <1>2, <2>1, WorkingFinite, FS_EmptySet DEF TypeInv, RequestsOK
<1>4. felt[r] + Gate!Needed(Levels[r]) <= given[r]
  <2>1. PaidFor(r) /\ Levels[r] = Level(kind[r])
    BY <1>2 DEF PaidInv, Levels
  <2>2. CASE Red(r)
    <3>1. Seen(r)
      BY <1>1, <2>2 DEF PaidInv, Seen
    <3>2. Gate!Needed(Levels[r]) = 2
      BY <2>1, <2>2 DEF Red, Gate!Needed
    <3>. QED
      BY <1>3, <2>1, <2>2, <3>1, <3>2 DEF PaidFor, Spent
  <2>3. CASE ~Red(r)
    <3>1. Gate!Needed(Levels[r]) = 1
      BY <2>1, <2>3 DEF Red, Level, Gate!Needed
    <3>. QED
      BY <1>3, <2>1, <3>1 DEF PaidFor, Spent
  <2>. QED
    BY <2>2, <2>3
<1>5. Levels' = Levels
  BY <1>1 DEF Levels, Level
<1>6. Gate!Run(r)
  BY <1>1, <1>2, <1>4, <1>5 DEF Gate!Run, Levels, Level
<1>. QED
  BY <1>2, <1>6 DEF Gate!GateNext

\* An arrival, as the gate sees it: a request is asked for, or nothing happens.
LEMMA ArriveIsGateStep ==
  ASSUME TypeInv, NEW t \in Threads, Arrive(t)
  PROVE  Gate!GateNext \/ UNCHANGED <<rstate, kind, given, felt>>
<1>1. CASE \/ \E c \in Contacts : AddContact(t, c)
           \/ \E c \in Contacts \cup {NoContact}, i \in 0 .. MaxRows,
                 next \in {"addDeal", "addEntry"} : Resolve(t, c, i, next)
           \/ \E r \in Requests, mini \in BOOLEAN : Press(t, r, mini)
           \/ Hit(t) \/ Look(t)
  BY <1>1 DEF AddContact, Resolve, Press, Hit, Look, requests, ghosts
<1>2. CASE \E r \in Requests :
             \/ \E d \in Deals : AskDeal(t, r, d)
             \/ \E c \in Contacts : AskContact(t, r, c) \/ AskFollowup(t, r, c) \/ AskInChat(t, r, c)
  BY <1>2, AskIsAsk DEF AskDeal, AskContact, AskFollowup, AskInChat, Prepare, Kind
<1>. QED
  BY <1>1, <1>2 DEF Arrive

LEMMA StepIsGateStep ==
  ASSUME TypeInv, PaidInv, [Next]_vars
  PROVE  [Gate!GateNext]_(Gate!gateVars)
<1>1. ASSUME NEW t \in Threads, Step(t) PROVE [Gate!GateNext]_(Gate!gateVars)
  <2>1. CASE Grant(t)
    BY <2>1, GrantIsApprove
  <2>2. CASE felt' # felt
    BY <1>1, <2>2, FeltIsRun
  <2>3. CASE Arrive(t)
    BY <2>3, ArriveIsGateStep DEF Gate!gateVars, Level
  <2>4. ASSUME Work(t), ~Grant(t), felt' = felt PROVE UNCHANGED Gate!gateVars
    <3>1. \A r \in Requests : rstate'[r] = "none" <=> rstate[r] = "none"
      <4>1. CASE Store(t)
        BY <4>1, HasRequest DEF Store, TypeInv, RequestsOK
      <4>2. CASE ~Store(t)
        BY <2>4, <4>2 DEF Work, Grant, AddDeal, AddEntry, Bump, AddFails, EditContact, Move,
           Point, DropDeal, DropContact, Raise, Send, SendFails, Answer, ReadStart, ReadEnd,
           ReadFails, requests
      <4>. QED
        BY <4>1, <4>2
    <3>2. \A r \in Requests : rstate[r] # "none" => kind'[r] = kind[r]
      BY <1>1, RequestStays
    <3>3. Levels' = Levels /\ given' = given
      BY <1>1, <2>4, <3>1, <3>2, LevelsStay, GivenStays
    <3>. QED
      BY <2>4, <3>3 DEF Gate!gateVars, Levels
  <2>. QED
    BY <1>1, <2>1, <2>2, <2>3, <2>4 DEF Step
<1>2. CASE Tick \/ Crash \/ UNCHANGED vars
  BY <1>2 DEF Tick, Crash, vars, requests, ghosts, Gate!gateVars, Level
<1>. QED
  BY <1>1, <1>2 DEF Next, Step

\* Whatever fails after it took effect and is approved again, and however the
\* decisions on it overlap: every run of a request is paid for by an approval of
\* its own, and a deletion by one more. The sales desk implements ApprovalGate.
THEOREM SalesImplementsGate == Spec => SalesKeepTheGate
<1>1. Init => Gate!GateInit
  BY DEF Init, Gate!GateInit
<1>2. Init => PaidInv
  <2> SUFFICES ASSUME Init PROVE PaidInv
    OBVIOUS
  <2>1. ASSUME NEW r \in Requests PROVE PaidFor(r)
    <3>1. Working(r) = {} /\ ~Seen(r)
      BY DEF Init, Working, Seen, Free
    <3>2. Spent(r) = 0 /\ given[r] = 0 /\ count[r] = 0
      BY <3>1, FS_EmptySet DEF Init, Spent
    <3>. QED
      BY <3>1, <3>2 DEF PaidFor
  <2>. QED
    BY <2>1 DEF Init, PaidInv
<1>3. TypeInv /\ PaidInv /\ [Next]_vars => [Gate!GateNext]_(Gate!gateVars)
  BY StepIsGateStep
<1>. QED
  BY <1>1, <1>2, <1>3, InitTypes, NextTypes, NextPaid, PTL
     DEF Spec, SalesKeepTheGate, Gate!GateSpec
=============================================================================
