----------------------------- MODULE IncomeLedger -----------------------------
(***************************************************************************)
(* Monthly incomes and payment reminders: app/financial/repository.py,     *)
(* app/agents/financial_agent.py, the income and reminder executors of     *)
(* app/approvals/actions.py and the endpoints that call them.              *)
(*                                                                         *)
(* A handler that is one statement is one step. The overdue sweep, the     *)
(* batch of reminders and the run of an approved reminder are sequences of *)
(* statements and calls that interleave with everything else. A handler    *)
(* that finds no row changes nothing and is left out. A variant of a       *)
(* definition is a plausible slip in that code: the runs must catch it.    *)
(***************************************************************************)
EXTENDS Naturals, FiniteSets

CONSTANTS
  Incomes,     \* the income_uids
  Reminders,   \* the action_uids of requested reminders
  Threads,     \* the server's request threads
  NoIncome,    \* the income of a reminder that was never requested
  NoReminder,  \* the reminder of a thread that sends none
  MaxCalls,    \* bound on the requests served
  MaxClock,    \* bound on the clock
  MayDie       \* whether a handler can be cut short

ASSUME LedgerAssumption ==
  /\ NoIncome \notin Incomes
  /\ NoReminder \notin Reminders
  /\ IsFiniteSet(Threads)
  /\ MaxCalls \in Nat /\ MaxClock \in Nat
  /\ MayDie \in BOOLEAN

Stored == {"pending", "paid", "overdue", "cancelled", "partial"}
Never  == MaxClock + 1  \* due_at IS NULL: no clock gets past it
Due    == 0 .. Never

\* How the client of a reminder can be reached.
Way == {"chat", "mail", "both", "none"}
HasChat(w) == w \in {"chat", "both"}
HasMail(w) == w \in {"mail", "both"}

VARIABLES
  status, due,  \* project_incomes; "none" before its row, "deleted" after it
  notes,        \* how many reminder notes the row's notes hold
  rstate,       \* pending_actions.status of each reminder
  about, via,   \* its payload: the income and the client's contact
  clock,        \* time.time()
  pc,           \* the next step of each thread
  job,          \* what a sweeping thread sweeps for
  todo,         \* the incomes a thread still has to go through
  rem,          \* the reminder a thread works on
  read,         \* the notes it read
  felt,         \* whether the client felt the thread's run yet
  calls,        \* how many requests were served
  given,        \* the approvals each reminder was given
  reached,      \* how many runs of each reminder the client felt
  messages,     \* how many messages the client got about each income
  settled       \* the incomes paid while no sweep had selected them

ledger    == <<status, due, notes>>
reminders == <<rstate, about, via>>
locals    == <<job, todo, rem, read, felt>>
ghosts    == <<given, reached, messages, settled>>
vars == <<ledger, reminders, clock, pc, locals, calls, ghosts>>

Init ==
  /\ status = [i \in Incomes |-> "none"]
  /\ due = [i \in Incomes |-> Never]
  /\ notes = [i \in Incomes |-> 0]
  /\ rstate = [r \in Reminders |-> "none"]
  /\ about = [r \in Reminders |-> NoIncome]
  /\ via = [r \in Reminders |-> "none"]
  /\ clock = 0
  /\ pc = [t \in Threads |-> "idle"]
  /\ job = [t \in Threads |-> "summary"]
  /\ todo = [t \in Threads |-> {}]
  /\ rem = [t \in Threads |-> NoReminder]
  /\ read = [t \in Threads |-> 0]
  /\ felt = [t \in Threads |-> FALSE]
  /\ calls = 0
  /\ given = [r \in Reminders |-> 0]
  /\ reached = [r \in Reminders |-> 0]
  /\ messages = [i \in Incomes |-> 0]
  /\ settled = {}

Exists(i) == status[i] \in Stored

Serve(t) == pc[t] = "idle" /\ calls < MaxCalls /\ calls' = calls + 1

-----------------------------------------------------------------------------
(* The ledger. Each is one statement.                                      *)

Create(t, i, st, d) ==
  /\ Serve(t)
  /\ status[i] = "none"
  /\ status' = [status EXCEPT ![i] = st]
  /\ due' = [due EXCEPT ![i] = d]
  /\ UNCHANGED <<notes, reminders, clock, pc, locals, ghosts>>

\* The rows a sweep is about to store as overdue.
Selected == UNION {todo[t] : t \in {u \in Threads : pc[u] = "sweep"}}

MarkPaid(t, i) ==
  /\ Serve(t)
  /\ Exists(i)
  /\ status' = [status EXCEPT ![i] = "paid"]
  /\ settled' = settled \cup ({i} \ Selected)
  /\ UNCHANGED <<due, notes, reminders, clock, pc, locals, given, reached, messages>>

\* Variant: a status that is not known is stored.
UpdateAnything(t, i) ==
  /\ Serve(t)
  /\ Exists(i)
  /\ status' = [status EXCEPT ![i] = "unknown"]
  /\ settled' = settled \ {i}
  /\ UNCHANGED <<due, notes, reminders, clock, pc, locals, given, reached, messages>>

\* Any of the fields that matter, each left as it is or set; a status that is
\* not known is left out by the code.
Update(t, i) ==
  /\ Serve(t)
  /\ Exists(i)
  /\ \E st \in Stored, d \in Due, n \in {notes[i], 0} :
       /\ status' = [status EXCEPT ![i] = st]
       /\ due' = [due EXCEPT ![i] = d]
       /\ notes' = [notes EXCEPT ![i] = n]
  /\ settled' = settled \ {i}
  /\ UNCHANGED <<reminders, clock, pc, locals, given, reached, messages>>

Delete(t, i) ==
  /\ Serve(t)
  /\ Exists(i)
  /\ status' = [status EXCEPT ![i] = "deleted"]
  /\ settled' = settled \ {i}
  /\ UNCHANGED <<due, notes, reminders, clock, pc, locals, given, reached, messages>>

-----------------------------------------------------------------------------
(* The sweep, before every summary and every batch of reminders.           *)

Release(t) ==
  /\ pc' = [pc EXCEPT ![t] = "idle"]
  /\ job' = [job EXCEPT ![t] = "summary"]
  /\ todo' = [todo EXCEPT ![t] = {}]
  /\ rem' = [rem EXCEPT ![t] = NoReminder]
  /\ read' = [read EXCEPT ![t] = 0]
  /\ felt' = [felt EXCEPT ![t] = FALSE]

\* Variant: the SELECT forgets the status.
SweepAllPastDue(t, j) ==
  /\ Serve(t)
  /\ pc' = [pc EXCEPT ![t] = "sweep"]
  /\ job' = [job EXCEPT ![t] = j]
  /\ todo' = [todo EXCEPT ![t] = {i \in Incomes : Exists(i) /\ due[i] < clock}]
  /\ UNCHANGED <<ledger, reminders, clock, rem, read, felt, ghosts>>

\* The SELECT of mark_overdue_if_needed.
SweepStart(t, j) ==
  /\ Serve(t)
  /\ pc' = [pc EXCEPT ![t] = "sweep"]
  /\ job' = [job EXCEPT ![t] = j]
  /\ todo' = [todo EXCEPT
                ![t] = {i \in Incomes : status[i] = "pending" /\ due[i] < clock}]
  /\ UNCHANGED <<ledger, reminders, clock, rem, read, felt, ghosts>>

\* One of its UPDATEs, by income_uid alone.
SweepRow(t) ==
  /\ pc[t] = "sweep"
  /\ \E i \in todo[t] :
       /\ status' = IF Exists(i) THEN [status EXCEPT ![i] = "overdue"] ELSE status
       /\ todo' = [todo EXCEPT ![t] = @ \ {i}]
  /\ UNCHANGED <<due, notes, reminders, clock, pc, job, rem, read, felt, calls, ghosts>>

\* monthly_summary only reads on; so does a dry run of the reminders.
Summarise(t) ==
  /\ pc[t] = "sweep" /\ job[t] = "summary"
  /\ todo[t] = {}
  /\ Release(t)
  /\ UNCHANGED <<ledger, reminders, clock, calls, ghosts>>

\* list_incomes(status="overdue"), of one project and cut to max_send.
ListOverdue(t) ==
  /\ pc[t] = "sweep" /\ job[t] = "remind"
  /\ todo[t] = {}
  /\ \E chosen \in SUBSET {i \in Incomes : status[i] = "overdue"} :
       todo' = [todo EXCEPT ![t] = chosen]
  /\ pc' = [pc EXCEPT ![t] = "ask"]
  /\ UNCHANGED <<ledger, reminders, clock, job, rem, read, felt, calls, ghosts>>

-----------------------------------------------------------------------------
(* Requests for a reminder: a yellow action, stored as pending.            *)

Ask(r, i, w) ==
  /\ rstate[r] = "none"
  /\ rstate' = [rstate EXCEPT ![r] = "pending"]
  /\ about' = [about EXCEPT ![r] = i]
  /\ via' = [via EXCEPT ![r] = w]

\* One income of the batch; its row must still be there, and its client known.
AskNext(t) ==
  /\ pc[t] = "ask"
  /\ \E i \in todo[t] :
       /\ Exists(i)
       /\ \E r \in Reminders, w \in Way \ {"none"} : Ask(r, i, w)
       /\ todo' = [todo EXCEPT ![t] = @ \ {i}]
  /\ UNCHANGED <<ledger, clock, pc, job, rem, read, felt, calls, ghosts>>

\* No row, no client, or a request that raised: the batch goes on.
AskSkip(t) ==
  /\ pc[t] = "ask"
  /\ \E i \in todo[t] : todo' = [todo EXCEPT ![t] = @ \ {i}]
  /\ UNCHANGED <<ledger, reminders, clock, pc, job, rem, read, felt, calls, ghosts>>

AskDone(t) ==
  /\ pc[t] = "ask"
  /\ todo[t] = {}
  /\ Release(t)
  /\ UNCHANGED <<ledger, reminders, clock, calls, ghosts>>

\* The reminder of one income, from its own endpoint: any row, any client.
AskOne(t, i) ==
  /\ Serve(t)
  /\ Exists(i)
  /\ \E r \in Reminders, w \in Way : Ask(r, i, w)
  /\ UNCHANGED <<ledger, clock, pc, locals, ghosts>>

-----------------------------------------------------------------------------
(* Decisions, as the gateway takes them (ApprovalGateway): a check on the  *)
(* row that was read, then an UPDATE.                                      *)

\* Variant: a failed reminder is tried again without a new approval.
PressRetry(t, r, next) ==
  /\ Serve(t)
  /\ rstate[r] \in {"pending", "failed"}
  /\ pc' = [pc EXCEPT ![t] = IF rstate[r] = "failed" THEN "send" ELSE next]
  /\ rem' = [rem EXCEPT ![t] = r]
  /\ UNCHANGED <<ledger, reminders, clock, job, todo, read, felt, ghosts>>

Press(t, r, next) ==
  /\ Serve(t)
  /\ rstate[r] \in {"pending", "failed"}
  /\ pc' = [pc EXCEPT ![t] = next]
  /\ rem' = [rem EXCEPT ![t] = r]
  /\ UNCHANGED <<ledger, reminders, clock, job, todo, read, felt, ghosts>>

Grant(t) ==
  /\ pc[t] = "grant"
  /\ rstate' = [rstate EXCEPT ![rem[t]] = "approved"]
  /\ given' = [given EXCEPT ![rem[t]] = @ + 1]
  /\ pc' = [pc EXCEPT ![t] = "send"]
  /\ UNCHANGED <<ledger, about, via, clock, locals, calls, reached, messages, settled>>

\* The last UPDATE of a handler: rejected or expired, executed, failed.
Outcome == [close |-> "closed", store |-> "executed", fail |-> "failed"]
Store(t) ==
  /\ pc[t] \in DOMAIN Outcome
  /\ rstate' = [rstate EXCEPT ![rem[t]] = Outcome[pc[t]]]
  /\ Release(t)
  /\ UNCHANGED <<ledger, about, via, clock, calls, ghosts>>

-----------------------------------------------------------------------------
(* The executor financial.send_reminder.                                   *)

\* The thread goes on, and the client gets a message or not.
Goes(t, next, arrives) ==
  /\ pc' = [pc EXCEPT ![t] = next]
  /\ felt' = [felt EXCEPT ![t] = @ \/ arrives]
  /\ IF arrives
     THEN /\ messages' = [messages EXCEPT ![about[rem[t]]] = @ + 1]
          /\ reached' = IF felt[t] THEN reached
                        ELSE [reached EXCEPT ![rem[t]] = @ + 1]
     ELSE UNCHANGED <<messages, reached>>
  /\ UNCHANGED <<ledger, reminders, clock, job, todo, rem, read, calls, given, settled>>

\* send_message tries Markdown first and plain text after a TelegramError, also
\* when only the answer was lost; an answer that is no JSON raises through it.
SendChat(t) ==
  /\ pc[t] = "send"
  /\ HasChat(via[rem[t]])
  /\ \/ Goes(t, "mail", TRUE)
     \/ \E next \in {"resend", "fail"}, arrives \in BOOLEAN : Goes(t, next, arrives)

\* Variant: the last error is swallowed.
ResendChatQuietly(t) ==
  /\ pc[t] = "resend"
  /\ \E arrives \in BOOLEAN : Goes(t, "mail", arrives)

ResendChat(t) ==
  /\ pc[t] = "resend"
  /\ Goes(t, "mail", TRUE) \/ \E arrives \in BOOLEAN : Goes(t, "fail", arrives)

NoChat(t) ==
  /\ pc[t] = "send"
  /\ ~HasChat(via[rem[t]])
  /\ Goes(t, "mail", FALSE)

\* Sent, or failed before or after the client got it. A failure counts only if
\* nothing went to a chat before.
SendMail(t) ==
  /\ pc[t] = "mail"
  /\ HasMail(via[rem[t]])
  /\ \/ Goes(t, "note", TRUE)
     \/ \E arrives \in BOOLEAN :
          Goes(t, IF HasChat(via[rem[t]]) THEN "note" ELSE "fail", arrives)

\* No address, or no complete mail connection. Without any contact at all the
\* message is handed back; otherwise the run goes on to its note.
NoMail(t) ==
  /\ pc[t] = "mail"
  /\ Goes(t, IF via[rem[t]] = "none" THEN "store" ELSE "note", FALSE)

\* The notes are read and written back with one more line.
ReadNote(t) ==
  /\ pc[t] = "note"
  /\ pc' = [pc EXCEPT ![t] = "write"]
  /\ read' = [read EXCEPT
                ![t] = IF Exists(about[rem[t]]) THEN notes[about[rem[t]]] ELSE 0]
  /\ UNCHANGED <<ledger, reminders, clock, job, todo, rem, felt, calls, ghosts>>

WriteNote(t) ==
  /\ pc[t] = "write"
  /\ pc' = [pc EXCEPT ![t] = "store"]
  /\ notes' = IF Exists(about[rem[t]])
              THEN [notes EXCEPT ![about[rem[t]]] = read[t] + 1] ELSE notes
  /\ UNCHANGED <<status, due, reminders, clock, locals, calls, ghosts>>

\* An error over the note is swallowed.
SkipNote(t) ==
  /\ MayDie
  /\ pc[t] \in {"note", "write"}
  /\ Goes(t, "store", FALSE)

-----------------------------------------------------------------------------

Die(t) ==
  /\ MayDie
  /\ pc[t] # "idle"
  /\ Release(t)
  /\ UNCHANGED <<ledger, reminders, clock, calls, ghosts>>

Tick ==
  /\ clock < MaxClock
  /\ clock' = clock + 1
  /\ UNCHANGED <<ledger, reminders, pc, locals, calls, ghosts>>

Arrive(t) ==
  \/ \E i \in Incomes :
       \/ \E st \in Stored, d \in Due : Create(t, i, st, d)
       \/ MarkPaid(t, i) \/ Update(t, i) \/ Delete(t, i) \/ AskOne(t, i)
  \/ \E j \in {"summary", "remind"} : SweepStart(t, j)
  \/ \E r \in Reminders, next \in {"grant", "close"} : Press(t, r, next)

Work(t) ==
  \/ SweepRow(t) \/ Summarise(t) \/ ListOverdue(t)
  \/ AskNext(t) \/ AskSkip(t) \/ AskDone(t)
  \/ Grant(t) \/ Store(t)
  \/ SendChat(t) \/ ResendChat(t) \/ NoChat(t) \/ SendMail(t) \/ NoMail(t)
  \/ ReadNote(t) \/ WriteNote(t) \/ SkipNote(t)

Next == Tick \/ \E t \in Threads : Arrive(t) \/ Work(t) \/ Die(t)

Spec == Init /\ [][Next]_vars

-----------------------------------------------------------------------------
(* What must hold.                                                         *)

Steps == {"idle", "sweep", "ask", "grant", "send", "resend", "mail", "note",
          "write"} \cup DOMAIN Outcome

LedgerTypeOK ==
  /\ status \in [Incomes -> Stored \cup {"none", "deleted"}]
  /\ due \in [Incomes -> Due]
  /\ notes \in [Incomes -> Nat]
  /\ rstate \in [Reminders ->
                   {"none", "pending", "approved", "closed", "executed", "failed"}]
  /\ about \in [Reminders -> Incomes \cup {NoIncome}]
  /\ via \in [Reminders -> Way]
  /\ clock \in 0 .. MaxClock
  /\ pc \in [Threads -> Steps]
  /\ job \in [Threads -> {"summary", "remind"}]
  /\ todo \in [Threads -> SUBSET Incomes]
  /\ rem \in [Threads -> Reminders \cup {NoReminder}]
  /\ read \in [Threads -> Nat]
  /\ felt \in [Threads -> BOOLEAN]
  /\ calls \in 0 .. MaxCalls
  /\ given \in [Reminders -> Nat]
  /\ reached \in [Reminders -> Nat]
  /\ messages \in [Incomes -> Nat]
  /\ settled \subseteq Incomes

\* A recorded payment stands until someone edits or deletes the income, in
\* every interleaving with sweeps, reminders and other handlers, unless a
\* sweep had selected the income before it was paid.
RecordedPaymentStands == \A i \in settled : status[i] = "paid"

\* No note without a message: an income's notes never tell of more reminders
\* than its client got, as long as its reminders go to a chat. (By mail they
\* may: a missing mail connection is passed over and noted as sent.)
NotesAreBacked == \A i \in Incomes :
  (\A r \in Reminders : about[r] = i => HasChat(via[r])) => notes[i] <= messages[i]

\* A client is only reminded on the strength of an approval of its own:
\* however the decisions overlap, the reminders keep the promise of ApprovalGate.
Gate == INSTANCE ApprovalGate WITH
  Actions <- Reminders,
  level <- [r \in Reminders |-> IF rstate[r] = "none" THEN "none" ELSE "yellow"],
  approvals <- given, runs <- reached
RemindersKeepTheGate == Gate!GateSpec

\* mark_overdue_if_needed: "Mark pending incomes past due date as overdue".
OnlyPendingIsMarked == [][\A t \in Threads : SweepRow(t) =>
  \A i \in Incomes : status'[i] # status[i] => status[i] = "pending"]_vars
=============================================================================
