-------------------------- MODULE ApprovalGateway --------------------------
(***************************************************************************)
(* The approval gateway: app/approvals/gateway.py on top of the            *)
(* pending_actions table of app/repositories.py.                           *)
(*                                                                         *)
(* The process serves requests with several threads and the database       *)
(* commits every statement on its own, so a handler is a sequence of       *)
(* steps, one per statement, and the steps of several handlers interleave. *)
(* A handler is cut short (Die) when the process restarts or when a        *)
(* statement fails: nothing in the gateway resumes it.                     *)
(***************************************************************************)
EXTENDS Naturals, FiniteSets

CONSTANTS
  Actions,    \* the action_uids
  Threads,    \* the server's request threads
  Users,      \* the rows of the users table
  NoUser,     \* NULL in requested_by and decided_by, an unknown caller
  NoAction,   \* the action of a thread that works on none
  Ttl,        \* TTL_SECONDS, in units of the model's clock
  MaxCalls,   \* bound on the requests served
  MaxClock,   \* bound on the clock
  MayDie      \* whether a handler can be cut short

Risk == {"green", "yellow", "red"}

ASSUME GatewayAssumption ==
  /\ NoUser \notin Users
  /\ NoAction \notin Actions
  /\ IsFiniteSet(Threads)
  /\ Ttl \in [Risk -> Nat]
  /\ MaxCalls \in Nat /\ MaxClock \in Nat
  /\ MayDie \in BOOLEAN

Caller == Users \cup {NoUser}
Open == {"pending", "confirming"}
Status == Open \cup
  {"none", "approved", "rejected", "expired", "executed", "failed"}
Event == {"approval_requested", "approval_step", "approval_rejected",
          "action_executed"}
Step == {"idle", "load", "check", "approve", "reject", "exec", "succeed",
         "fail", "reply", "refused", "sweep"} \cup Event

\* create_pending_action stores max(1, APPROVALS_REQUIRED[level]).
Required(level) == IF level = "red" THEN 2 ELSE 1

VARIABLES
  status, risk, requester, count, deadline, decidedBy,  \* pending_actions
  events,     \* the types of the events recorded for each action
  clock,      \* time.time()
  pc,         \* the next statement of each thread
  act, who, op,  \* the action, the caller and the operation of each thread
  seen,       \* the status and the count each thread read
  stale,      \* the rows each sweeping thread still has to expire
  arrived,    \* when each thread's request arrived
  calls,      \* how many requests were served
  granted,    \* how many approvals each action's row was given
  effects,    \* how often the outside world felt each action
  successes   \* how often each action's executor returned

rows   == <<status, risk, requester, count, deadline, decidedBy>>
ghosts == <<granted, effects, successes>>
locals == <<act, who, op, seen, stale, arrived>>
vars   == <<rows, events, clock, pc, locals, calls, ghosts>>

Init ==
  /\ status = [a \in Actions |-> "none"]
  /\ risk = [a \in Actions |-> "yellow"]
  /\ requester = [a \in Actions |-> NoUser]
  /\ count = [a \in Actions |-> 0]
  /\ deadline = [a \in Actions |-> 0]
  /\ decidedBy = [a \in Actions |-> NoUser]
  /\ events = [a \in Actions |-> {}]
  /\ clock = 0
  /\ pc = [t \in Threads |-> "idle"]
  /\ act = [t \in Threads |-> NoAction]
  /\ who = [t \in Threads |-> NoUser]
  /\ op = [t \in Threads |-> "reject"]
  /\ seen = [t \in Threads |-> [status |-> "none", count |-> 0]]
  /\ stale = [t \in Threads |-> {}]
  /\ arrived = [t \in Threads |-> 0]
  /\ calls = 0
  /\ granted = [a \in Actions |-> 0]
  /\ effects = [a \in Actions |-> 0]
  /\ successes = [a \in Actions |-> 0]

-----------------------------------------------------------------------------
(* Requests reach idle threads. A variant of a definition, wherever one is *)
(* given, is a plausible slip in that code: the runs must catch it.        *)

Serve(t, a, u, o, next) ==
  /\ pc[t] = "idle"
  /\ calls < MaxCalls
  /\ calls' = calls + 1
  /\ pc' = [pc EXCEPT ![t] = next]
  /\ act' = [act EXCEPT ![t] = a]
  /\ who' = [who EXCEPT ![t] = u]
  /\ op' = [op EXCEPT ![t] = o]
  /\ arrived' = [arrived EXCEPT ![t] = clock]

\* The INSERT of request_action: a green action is stored as approved and
\* goes straight to its executor, any other waits for a decision.
Request(t, a, u, level) ==
  /\ status[a] = "none"
  /\ Serve(t, a, u, "approve",
           IF level = "green" THEN "exec" ELSE "approval_requested")
  /\ status' = [status EXCEPT
                  ![a] = IF level = "green" THEN "approved" ELSE "pending"]
  /\ risk' = [risk EXCEPT ![a] = level]
  /\ requester' = [requester EXCEPT ![a] = u]
  /\ deadline' = [deadline EXCEPT ![a] = clock + Ttl[level]]
  /\ UNCHANGED <<count, decidedBy, events, clock, seen, stale, ghosts>>

\* approve() or reject(), called for a button or by the Mini App.
Decide(t, a, u, o) ==
  /\ Serve(t, a, u, o, "load")
  /\ UNCHANGED <<rows, events, clock, seen, stale, ghosts>>

\* Variant: the SELECT forgets the deadline.
SweepEveryOpenRow(t) ==
  /\ Serve(t, NoAction, NoUser, "reject", "sweep")
  /\ stale' = [stale EXCEPT ![t] = {a \in Actions : status[a] \in Open}]
  /\ UNCHANGED <<rows, events, clock, seen, ghosts>>

\* The SELECT of expire_stale_actions(), run whenever the queue is listed.
SweepStart(t) ==
  /\ Serve(t, NoAction, NoUser, "reject", "sweep")
  /\ stale' = [stale EXCEPT
                 ![t] = {a \in Actions : status[a] \in Open /\ deadline[a] < clock}]
  /\ UNCHANGED <<rows, events, clock, seen, ghosts>>

-----------------------------------------------------------------------------
(* _load_open: one SELECT, then checks on the row that was read. The       *)
(* requester and the deadline of a row never change once it exists.        *)

Load(t) ==
  /\ pc[t] = "load"
  /\ seen' = [seen EXCEPT ![t] = [status |-> status[act[t]], count |-> count[act[t]]]]
  /\ pc' = [pc EXCEPT ![t] = "check"]
  /\ UNCHANGED <<rows, events, clock, act, who, op, stale, arrived, calls, ghosts>>

\* Variant: a caller without a users row is not compared with the requester.
ForeignIfKnown(t) ==
  requester[act[t]] # NoUser /\ who[t] \notin {NoUser, requester[act[t]]}
Foreign(t) == requester[act[t]] # NoUser /\ who[t] # requester[act[t]]

\* Variants: a status is missing from the list.
RefusedUnlessRejected(t) ==
  Foreign(t) \/ seen[t].status \in {"none", "executed", "approved", "expired"}
RefusedUnlessExecuted(t) ==
  Foreign(t) \/ seen[t].status \in {"none", "approved", "rejected", "expired"}
Refused(t) ==
  \/ Foreign(t)
  \/ seen[t].status \in {"none", "executed", "approved", "rejected", "expired"}

CheckRefuse(t) ==
  /\ pc[t] = "check"
  /\ Refused(t)
  /\ pc' = [pc EXCEPT ![t] = "refused"]
  /\ UNCHANGED <<rows, events, clock, locals, calls, ghosts>>

CheckExpire(t) ==
  /\ pc[t] = "check"
  /\ ~Refused(t)
  /\ deadline[act[t]] < clock
  /\ status' = [status EXCEPT ![act[t]] = "expired"]
  /\ pc' = [pc EXCEPT ![t] = "refused"]
  /\ UNCHANGED <<risk, requester, count, deadline, decidedBy, events, clock,
                 locals, calls, ghosts>>

\* Variant: the deadline is not looked at.
CheckPassLate(t) ==
  /\ pc[t] = "check"
  /\ ~Refused(t)
  /\ pc' = [pc EXCEPT ![t] = op[t]]
  /\ UNCHANGED <<rows, events, clock, locals, calls, ghosts>>

CheckPass(t) ==
  /\ pc[t] = "check"
  /\ ~Refused(t)
  /\ deadline[act[t]] >= clock
  /\ pc' = [pc EXCEPT ![t] = op[t]]
  /\ UNCHANGED <<rows, events, clock, locals, calls, ghosts>>

-----------------------------------------------------------------------------
(* The decision is an UPDATE by action_uid alone, computed from the row    *)
(* that was read.                                                          *)

Grant(t, newStatus, next) ==
  /\ status' = [status EXCEPT ![act[t]] = newStatus]
  /\ count' = [count EXCEPT ![act[t]] = seen[t].count + 1]
  /\ granted' = [granted EXCEPT ![act[t]] = @ + 1]
  /\ pc' = [pc EXCEPT ![t] = next]
  /\ UNCHANGED <<risk, requester, deadline, decidedBy, events, clock, locals,
                 calls, effects, successes>>

\* Variants: the first step runs the executor; the threshold is off by one.
GrantStepRuns(t) ==
  /\ pc[t] = "approve"
  /\ seen[t].count + 1 < Required(risk[act[t]])
  /\ Grant(t, "confirming", "exec")
GrantFinalEarly(t) ==
  /\ pc[t] = "approve"
  /\ seen[t].count + 2 >= Required(risk[act[t]])
  /\ Grant(t, "approved", "exec")

GrantStep(t) ==
  /\ pc[t] = "approve"
  /\ seen[t].count + 1 < Required(risk[act[t]])
  /\ Grant(t, "confirming", "approval_step")

GrantFinal(t) ==
  /\ pc[t] = "approve"
  /\ seen[t].count + 1 >= Required(risk[act[t]])
  /\ Grant(t, "approved", "exec")

\* The last UPDATE of a decision also says who took it.
Settle(t, newStatus, next) ==
  /\ status' = [status EXCEPT ![act[t]] = newStatus]
  /\ decidedBy' = [decidedBy EXCEPT ![act[t]] = who[t]]
  /\ pc' = [pc EXCEPT ![t] = next]
  /\ UNCHANGED <<risk, requester, count, deadline, events, clock, locals,
                 calls, ghosts>>

Reject(t) == pc[t] = "reject" /\ Settle(t, "rejected", "approval_rejected")

-----------------------------------------------------------------------------
(* _execute: the executor runs, then its outcome is stored.                *)

\* The executor returned.
ExecuteReturns(t) ==
  /\ pc[t] = "exec"
  /\ effects' = [effects EXCEPT ![act[t]] = @ + 1]
  /\ successes' = [successes EXCEPT ![act[t]] = @ + 1]
  /\ pc' = [pc EXCEPT ![t] = "succeed"]
  /\ UNCHANGED <<rows, events, clock, locals, calls, granted>>

\* Variant: the exception passes _execute by and nothing is stored.
ExecuteRaisesThrough(t) ==
  /\ pc[t] = "exec"
  /\ \E felt \in {0, 1} : effects' = [effects EXCEPT ![act[t]] = @ + felt]
  /\ pc' = [pc EXCEPT ![t] = "reply"]
  /\ UNCHANGED <<rows, events, clock, locals, calls, granted, successes>>

\* The executor raised, before or after its effect, or there is none.
ExecuteRaises(t) ==
  /\ pc[t] = "exec"
  /\ \E felt \in {0, 1} : effects' = [effects EXCEPT ![act[t]] = @ + felt]
  /\ pc' = [pc EXCEPT ![t] = "fail"]
  /\ UNCHANGED <<rows, events, clock, locals, calls, granted, successes>>

\* Variants: the run is not recorded; an unknown status is stored.
FinishUnrecorded(t) == pc[t] = "succeed" /\ Settle(t, "executed", "reply")
FinishAsError(t)    == pc[t] = "fail" /\ Settle(t, "error", "reply")

FinishExecuted(t) == pc[t] = "succeed" /\ Settle(t, "executed", "action_executed")
FinishFailed(t)   == pc[t] = "fail" /\ Settle(t, "failed", "reply")

-----------------------------------------------------------------------------

\* record_event, the statement after a decision, a request or a run.
Record(t) ==
  /\ pc[t] \in Event
  /\ events' = [events EXCEPT ![act[t]] = @ \cup {pc[t]}]
  /\ pc' = [pc EXCEPT ![t] = "reply"]
  /\ UNCHANGED <<rows, clock, locals, calls, ghosts>>

\* One UPDATE of expire_stale_actions(), by action_uid alone.
SweepRow(t) ==
  /\ pc[t] = "sweep"
  /\ \E a \in stale[t] :
       /\ status' = [status EXCEPT ![a] = "expired"]
       /\ stale' = [stale EXCEPT ![t] = @ \ {a}]
  /\ UNCHANGED <<risk, requester, count, deadline, decidedBy, events, clock,
                 pc, act, who, op, seen, arrived, calls, ghosts>>

\* The thread's locals are gone: the request is answered or was cut short.
Release(t) ==
  /\ pc' = [pc EXCEPT ![t] = "idle"]
  /\ act' = [act EXCEPT ![t] = NoAction]
  /\ who' = [who EXCEPT ![t] = NoUser]
  /\ op' = [op EXCEPT ![t] = "reject"]
  /\ seen' = [seen EXCEPT ![t] = [status |-> "none", count |-> 0]]
  /\ stale' = [stale EXCEPT ![t] = {}]
  /\ arrived' = [arrived EXCEPT ![t] = 0]
  /\ UNCHANGED <<rows, events, clock, calls, ghosts>>

Reply(t) ==
  /\ \/ pc[t] \in {"reply", "refused"}
     \/ pc[t] = "sweep" /\ stale[t] = {}
  /\ Release(t)

Die(t) == MayDie /\ pc[t] # "idle" /\ Release(t)

Tick ==
  /\ clock < MaxClock
  /\ clock' = clock + 1
  /\ UNCHANGED <<rows, events, pc, locals, calls, ghosts>>

-----------------------------------------------------------------------------

Arrive(t) ==
  \/ \E a \in Actions, u \in Caller, level \in Risk : Request(t, a, u, level)
  \/ \E a \in Actions, u \in Caller, o \in {"approve", "reject"} : Decide(t, a, u, o)
  \/ SweepStart(t)

\* What a thread does once it serves a request, up to its answer.
Work(t) ==
  \/ Load(t) \/ CheckRefuse(t) \/ CheckExpire(t) \/ CheckPass(t)
  \/ GrantStep(t) \/ GrantFinal(t) \/ Reject(t)
  \/ ExecuteReturns(t) \/ ExecuteRaises(t)
  \/ FinishExecuted(t) \/ FinishFailed(t)
  \/ Record(t) \/ SweepRow(t)

Proceed(t) == Work(t) \/ Reply(t)

Next == Tick \/ \E t \in Threads : Arrive(t) \/ Proceed(t) \/ Die(t)

Spec == Init /\ [][Next]_vars

\* A thread that runs is scheduled: nothing in a handler waits for another.
FairSpec == Spec /\ \A t \in Threads : WF_vars(Proceed(t))

-----------------------------------------------------------------------------
(* What must hold.                                                         *)

TypeOK ==
  /\ status \in [Actions -> Status]
  /\ risk \in [Actions -> Risk]
  /\ requester \in [Actions -> Caller]
  /\ count \in [Actions -> Nat]
  /\ deadline \in [Actions -> Nat]
  /\ decidedBy \in [Actions -> Caller]
  /\ events \in [Actions -> SUBSET Event]
  /\ clock \in Nat
  /\ pc \in [Threads -> Step]
  /\ act \in [Threads -> Actions \cup {NoAction}]
  /\ who \in [Threads -> Caller]
  /\ op \in [Threads -> {"approve", "reject"}]
  /\ seen \in [Threads -> [status : Status, count : Nat]]
  /\ stale \in [Threads -> SUBSET Actions]
  /\ arrived \in [Threads -> Nat]
  /\ calls \in Nat
  /\ granted \in [Actions -> Nat]
  /\ effects \in [Actions -> Nat]
  /\ successes \in [Actions -> Nat]

\* A thread past the checks of _load_open, or past the INSERT of a green action.
Deciding(t) == pc[t] \in {"approve", "reject", "exec", "succeed", "fail",
                         "approval_step", "approval_rejected", "action_executed"}
WorksOn(t, a) == act[t] = a /\ pc[t] # "idle"

\* Every run the world felt was paid for by an approval of its own, beside the
\* earlier step a red action needs; a green action's first run needs none. It
\* is what the threshold in approve() must give under every interleaving.
RunsArePaidFor == \A a \in Actions :
  effects[a] > 0 =>
    effects[a] + Required(risk[a]) <= granted[a] + (IF risk[a] = "green" THEN 2 ELSE 1)

\* Whoever gets past _load_open is the requester of the action, if it has one,
\* and the row never names anyone else as the one who decided.
OnlyTheRequesterDecides ==
  /\ \A t \in Threads :
       Deciding(t) => requester[act[t]] \in {NoUser, who[t]}
  /\ \A a \in Actions :
       requester[a] # NoUser => decidedBy[a] \in {NoUser, requester[a]}

\* No row is marked expired while it can still be decided, by either of the two
\* places that expire rows.
ExpiredOnlyAfterDeadline == \A a \in Actions :
  status[a] = "expired" => deadline[a] < clock

\* A press that arrived after the deadline decides nothing, however long the
\* handler takes between its check and its UPDATE.
NoLatePress == \A t \in Threads :
  Deciding(t) => arrived[t] <= deadline[act[t]]

\* The lifecycle of docs/APPROVALS.md, with the edges out of failed that
\* _load_open leaves open: a failed action can be decided again.
Transitions ==
  {"none"} \X {"pending", "approved"} \cup
  {"pending", "failed"} \X {"confirming", "approved", "rejected", "expired"} \cup
  {"confirming"} \X {"approved", "rejected", "expired"} \cup
  {"approved"} \X {"executed", "failed"}

\* A row moves only along the lifecycle when handlers do not overlap.
Lifecycle == [][\A a \in Actions :
  status'[a] # status[a] => <<status[a], status'[a]>> \in Transitions]_vars

\* When handlers do not overlap the row tells the truth at rest: it says
\* executed exactly when its executor returned, and that happened once.
OutcomeMatchesStatus == \A a \in Actions :
  (\A t \in Threads : ~WorksOn(t, a)) =>
    successes[a] = IF status[a] = "executed" THEN 1 ELSE 0

\* When no handler was cut short, the event log tells every decision at rest.
AuditIsComplete == \A a \in Actions :
  (\A t \in Threads : ~WorksOn(t, a)) =>
    /\ status[a] \in Open /\ risk[a] # "green" => "approval_requested" \in events[a]
    /\ status[a] = "confirming" => "approval_step" \in events[a]
    /\ status[a] = "rejected" => "approval_rejected" \in events[a]
    /\ status[a] = "executed" => "action_executed" \in events[a]

\* As long as no handler is cut short, an approved action is in the hands of a
\* thread that will store its outcome, also where several handlers overwrite
\* each other's decisions: no row is left approved with nobody to move it.
ApprovedIsInHand == \A a \in Actions :
  status[a] = "approved" =>
    \E t \in Threads : act[t] = a /\ pc[t] \in {"exec", "succeed", "fail"}

\* An approved action is executed or fails; nobody has to ask again.
ApprovedIsCarriedOut == \A a \in Actions :
  status[a] = "approved" ~> status[a] \in {"executed", "failed"}

\* A decision taken twice runs its action once: docs/APPROVALS.md, "a repeated
\* decision is refused, a stale button does not execute again".
RepeatedDecisionRunsOnce == \A a \in Actions : successes[a] <= 1

\* The gateway keeps the promise of ApprovalGate: every run is authorised, in
\* every interleaving of handlers and wherever they break off.
LevelOf == [a \in Actions |-> IF status[a] = "none" THEN "none" ELSE risk[a]]
Gate == INSTANCE ApprovalGate WITH
  level <- LevelOf, approvals <- granted, runs <- effects
KeepsTheGate == Gate!GateSpec
=============================================================================
