----------------------- MODULE ApprovalGatewayProofs -----------------------
(* Theorems about the approval gateway, for any actions, threads and users. *)
EXTENDS ApprovalGateway, FiniteSetTheorems, TLAPS

-----------------------------------------------------------------------------
(* Types.                                                                  *)

\* A thread that serves a request about an action has one.
ActOK == \A t \in Threads : pc[t] \notin {"idle", "sweep"} => act[t] \in Actions

LEMMA InitTypeOK == Init => TypeOK /\ ActOK
  BY GatewayAssumption
  DEF Init, TypeOK, ActOK, Status, Open, Risk, Caller, Step, Event

LEMMA ServeTypeOK ==
  ASSUME TypeOK, ActOK, NEW t \in Threads, NEW a \in Actions \cup {NoAction},
         NEW u \in Caller, NEW o \in {"approve", "reject"}, NEW next \in Step,
         a \in Actions \/ next = "sweep",
         Serve(t, a, u, o, next)
  PROVE  /\ pc' \in [Threads -> Step]
         /\ act' \in [Threads -> Actions \cup {NoAction}]
         /\ who' \in [Threads -> Caller]
         /\ op' \in [Threads -> {"approve", "reject"}]
         /\ arrived' \in [Threads -> Nat]
         /\ calls' \in Nat
         /\ ActOK'
  BY DEF TypeOK, ActOK, Serve

LEMMA ArriveTypeOK ==
  ASSUME TypeOK, ActOK, NEW t \in Threads, Arrive(t)
  PROVE  TypeOK' /\ ActOK'
<1>1. ASSUME NEW a \in Actions, NEW u \in Caller, NEW level \in Risk,
             Request(t, a, u, level)
      PROVE  TypeOK' /\ ActOK'
  <2>1. PICK next \in {"exec", "approval_requested"} : Serve(t, a, u, "approve", next)
    BY <1>1 DEF Request
  <2>2. next \in Step
    BY DEF Step, Event
  <2>3. /\ pc' \in [Threads -> Step]
        /\ act' \in [Threads -> Actions \cup {NoAction}]
        /\ who' \in [Threads -> Caller]
        /\ op' \in [Threads -> {"approve", "reject"}]
        /\ arrived' \in [Threads -> Nat]
        /\ calls' \in Nat
        /\ ActOK'
    BY <2>1, <2>2, ServeTypeOK
  <2>4. clock + Ttl[level] \in Nat
    BY GatewayAssumption DEF TypeOK
  <2>. QED
    BY <1>1, <2>3, <2>4 DEF Request, TypeOK, Status, Open, ghosts
<1>2. ASSUME NEW a \in Actions, NEW u \in Caller, NEW o \in {"approve", "reject"},
             Decide(t, a, u, o)
      PROVE  TypeOK' /\ ActOK'
  <2>1. "load" \in Step
    BY DEF Step
  <2>2. /\ pc' \in [Threads -> Step]
        /\ act' \in [Threads -> Actions \cup {NoAction}]
        /\ who' \in [Threads -> Caller]
        /\ op' \in [Threads -> {"approve", "reject"}]
        /\ arrived' \in [Threads -> Nat]
        /\ calls' \in Nat
        /\ ActOK'
    BY <1>2, <2>1, ServeTypeOK DEF Decide
  <2>. QED
    BY <1>2, <2>2 DEF Decide, TypeOK, rows, ghosts
<1>3. CASE SweepStart(t)
  <2>1. "sweep" \in Step /\ NoUser \in Caller
    BY DEF Step, Caller
  <2>2. /\ pc' \in [Threads -> Step]
        /\ act' \in [Threads -> Actions \cup {NoAction}]
        /\ who' \in [Threads -> Caller]
        /\ op' \in [Threads -> {"approve", "reject"}]
        /\ arrived' \in [Threads -> Nat]
        /\ calls' \in Nat
        /\ ActOK'
    BY <1>3, <2>1, ServeTypeOK DEF SweepStart
  <2>. QED
    BY <1>3, <2>2 DEF SweepStart, TypeOK, rows, ghosts
<1>. QED
  BY <1>1, <1>2, <1>3 DEF Arrive

LEMMA GrantTypeOK ==
  ASSUME TypeOK, ActOK, NEW t \in Threads, pc[t] = "approve",
         NEW st \in Status, NEW next \in Step \ {"idle", "sweep"},
         Grant(t, st, next)
  PROVE  TypeOK' /\ ActOK'
  BY DEF TypeOK, ActOK, Grant, locals

LEMMA SettleTypeOK ==
  ASSUME TypeOK, ActOK, NEW t \in Threads, pc[t] \notin {"idle", "sweep"},
         NEW st \in Status, NEW next \in Step \ {"idle", "sweep"},
         Settle(t, st, next)
  PROVE  TypeOK' /\ ActOK'
  BY DEF TypeOK, ActOK, Settle, locals, ghosts

LEMMA ReleaseTypeOK ==
  ASSUME TypeOK, ActOK, NEW t \in Threads, Release(t)
  PROVE  TypeOK' /\ ActOK'
  BY GatewayAssumption
  DEF TypeOK, ActOK, Release, rows, ghosts, Step, Caller, Status

LEMMA ProceedTypeOK ==
  ASSUME TypeOK, ActOK, NEW t \in Threads, Proceed(t)
  PROVE  TypeOK' /\ ActOK'
<1> USE DEF Step, Event, Status, Open
<1>1. CASE Load(t)
  <2>1. act[t] \in Actions
    BY <1>1 DEF Load, ActOK
  <2>2. [status |-> status[act[t]], count |-> count[act[t]]]
          \in [status : Status, count : Nat]
    BY <2>1 DEF TypeOK
  <2>3. seen' \in [Threads -> [status : Status, count : Nat]]
    BY <1>1, <2>2 DEF Load, TypeOK
  <2>4. pc' \in [Threads -> Step] /\ ActOK'
    BY <1>1 DEF Load, TypeOK, ActOK
  <2>. QED
    BY <1>1, <2>3, <2>4 DEF Load, TypeOK, rows, ghosts
<1>2. CASE CheckRefuse(t) \/ CheckPass(t)
  <2>1. pc' \in [Threads -> Step]
    BY <1>2 DEF CheckRefuse, CheckPass, TypeOK
  <2>2. pc[t] = "check" /\ UNCHANGED act
    BY <1>2 DEF CheckRefuse, CheckPass, locals
  <2>3. ActOK'
    BY <1>2, <2>2 DEF CheckRefuse, CheckPass, TypeOK, ActOK
  <2>. QED
    BY <1>2, <2>1, <2>3 DEF CheckRefuse, CheckPass, TypeOK, rows, locals, ghosts
<1>3. CASE CheckExpire(t)
  BY <1>3 DEF CheckExpire, TypeOK, ActOK, locals, ghosts
<1>4. CASE GrantStep(t) \/ GrantFinal(t)
  BY <1>4, GrantTypeOK DEF GrantStep, GrantFinal
<1>5. CASE Reject(t) \/ FinishExecuted(t) \/ FinishFailed(t)
  BY <1>5, SettleTypeOK DEF Reject, FinishExecuted, FinishFailed
<1>6. CASE ExecuteReturns(t)
  <2>1. act[t] \in Actions
    BY <1>6 DEF ExecuteReturns, ActOK
  <2>2. /\ effects' \in [Actions -> Nat]
        /\ successes' \in [Actions -> Nat]
    BY <1>6, <2>1 DEF ExecuteReturns, TypeOK
  <2>3. pc' \in [Threads -> Step] /\ ActOK'
    BY <1>6 DEF ExecuteReturns, TypeOK, ActOK, locals
  <2>. QED
    BY <1>6, <2>2, <2>3 DEF ExecuteReturns, TypeOK, rows, locals
<1>7. CASE ExecuteRaises(t)
  BY <1>7 DEF ExecuteRaises, TypeOK, ActOK, rows, locals
<1>8. CASE Record(t)
  BY <1>8 DEF Record, TypeOK, ActOK, rows, locals, ghosts
<1>9. CASE SweepRow(t)
  BY <1>9 DEF SweepRow, TypeOK, ActOK, ghosts
<1>10. CASE Reply(t)
  BY <1>10, ReleaseTypeOK DEF Reply
<1>. QED
  BY <1>1, <1>2, <1>3, <1>4, <1>5, <1>6, <1>7, <1>8, <1>9, <1>10 DEF Proceed, Work

LEMMA NextTypeOK == TypeOK /\ ActOK /\ [Next]_vars => TypeOK' /\ ActOK'
<1> SUFFICES ASSUME TypeOK, ActOK, [Next]_vars
             PROVE  TypeOK' /\ ActOK'
  OBVIOUS
<1>1. CASE Tick
  BY <1>1 DEF Tick, TypeOK, ActOK, rows, locals, ghosts
<1>2. ASSUME NEW t \in Threads, Die(t)
      PROVE  TypeOK' /\ ActOK'
  BY <1>2, ReleaseTypeOK DEF Die
<1>3. CASE UNCHANGED vars
  BY <1>3 DEF vars, TypeOK, ActOK, rows, locals, ghosts
<1>. QED
  BY <1>1, <1>2, <1>3, ArriveTypeOK, ProceedTypeOK DEF Next

\* The state of the gateway keeps its types: every status, step and reader of
\* a row in app/approvals/gateway.py is one the code names.
THEOREM TypeCorrect == Spec => [](TypeOK /\ ActOK)
<1>1. Init => TypeOK /\ ActOK
  BY InitTypeOK
<1>2. TypeOK /\ ActOK /\ [Next]_vars => (TypeOK /\ ActOK)'
  BY NextTypeOK
<1>. QED
  BY <1>1, <1>2, PTL DEF Spec

-----------------------------------------------------------------------------
(* Rows. What a handler relies on after it read a row: the row stays, and  *)
(* its risk, requester and deadline never change again.                    *)

\* A row that does not exist has no history, and a row's count is backed by
\* approvals that were really given.
RowInv == \A a \in Actions :
  /\ status[a] = "none" => effects[a] = 0 /\ decidedBy[a] = NoUser
  /\ count[a] > 0 => granted[a] > 0

\* A thread that got as far as using its row has one.
HasRow(t) ==
  \/ Deciding(t)
  \/ pc[t] = "approval_requested"
  \/ pc[t] = "check" /\ seen[t].status # "none"

ThreadInv == \A t \in Threads :
  /\ HasRow(t) => status[act[t]] # "none"
  /\ pc[t] \in {"check", "approve"} /\ seen[t].count > 0 => granted[act[t]] > 0
  /\ arrived[t] <= clock
  /\ \A a \in stale[t] : status[a] # "none" /\ deadline[a] < clock

LEMMA SettleFrame ==
  ASSUME TypeOK, NEW t \in Threads, NEW st \in Status \ {"none"}, NEW next,
         Settle(t, st, next), NEW a \in Actions, status[a] # "none"
  PROVE  /\ status'[a] # "none"
         /\ risk'[a] = risk[a] /\ requester'[a] = requester[a]
         /\ deadline'[a] = deadline[a]
  BY DEF Settle, TypeOK

\* The columns that request_action writes are never written again.
LEMMA RowsStay ==
  ASSUME TypeOK, ActOK, [Next]_vars, NEW a \in Actions, status[a] # "none"
  PROVE  /\ status'[a] # "none"
         /\ risk'[a] = risk[a] /\ requester'[a] = requester[a]
         /\ deadline'[a] = deadline[a]
<1>1. CASE Tick \/ UNCHANGED vars
  BY <1>1 DEF Tick, vars, rows
<1>2. ASSUME NEW t \in Threads, Arrive(t)
      PROVE  /\ status'[a] # "none"
             /\ risk'[a] = risk[a] /\ requester'[a] = requester[a]
             /\ deadline'[a] = deadline[a]
  BY <1>2 DEF Arrive, Request, Decide, SweepStart, rows, TypeOK
<1>3. ASSUME NEW t \in Threads, Proceed(t)
      PROVE  /\ status'[a] # "none"
             /\ risk'[a] = risk[a] /\ requester'[a] = requester[a]
             /\ deadline'[a] = deadline[a]
  <2>1. CASE Load(t) \/ CheckRefuse(t) \/ CheckPass(t) \/ Record(t) \/ Reply(t)
             \/ ExecuteReturns(t) \/ ExecuteRaises(t)
    BY <2>1 DEF Load, CheckRefuse, CheckPass, Record, Reply, Release,
                ExecuteReturns, ExecuteRaises, rows
  <2>2. CASE CheckExpire(t) \/ SweepRow(t)
    BY <2>2 DEF CheckExpire, SweepRow, TypeOK
  <2>3. CASE GrantStep(t) \/ GrantFinal(t)
    BY <2>3 DEF GrantStep, GrantFinal, Grant, TypeOK
  <2>4. CASE Reject(t) \/ FinishExecuted(t) \/ FinishFailed(t)
    BY <2>4, SettleFrame DEF Reject, FinishExecuted, FinishFailed, Status
  <2>. QED
    BY <1>3, <2>1, <2>2, <2>3, <2>4 DEF Proceed, Work
<1>4. ASSUME NEW t \in Threads, Die(t)
      PROVE  /\ status'[a] # "none"
             /\ risk'[a] = risk[a] /\ requester'[a] = requester[a]
             /\ deadline'[a] = deadline[a]
  BY <1>4 DEF Die, Release, rows
<1>. QED
  BY <1>1, <1>2, <1>3, <1>4 DEF Next

\* Approvals are never taken back.
LEMMA GrantedGrows ==
  ASSUME TypeOK, [Next]_vars, NEW a \in Actions
  PROVE  granted'[a] >= granted[a]
<1>1. ASSUME NEW t \in Threads, Proceed(t)
      PROVE  granted'[a] >= granted[a]
  <2>1. CASE GrantStep(t) \/ GrantFinal(t)
    BY <2>1 DEF GrantStep, GrantFinal, Grant, TypeOK
  <2>2. CASE ~(GrantStep(t) \/ GrantFinal(t))
    BY <1>1, <2>2 DEF Proceed, Work, Load, CheckRefuse, CheckExpire, CheckPass, Reject,
       ExecuteReturns, ExecuteRaises, FinishExecuted, FinishFailed, Settle,
       Record, SweepRow, Reply, Release, ghosts, TypeOK
  <2>. QED
    BY <2>1, <2>2
<1>. QED
  BY <1>1 DEF Next, Tick, Arrive, Request, Decide, SweepStart, Die, Release,
              vars, ghosts, TypeOK

\* What only one thread does leaves every other thread's locals alone.
LEMMA OthersStay ==
  ASSUME TypeOK, NEW t \in Threads, Arrive(t) \/ Proceed(t) \/ Die(t),
         NEW s \in Threads \ {t}
  PROVE  /\ pc'[s] = pc[s] /\ act'[s] = act[s] /\ who'[s] = who[s]
         /\ seen'[s] = seen[s] /\ stale'[s] = stale[s] /\ arrived'[s] = arrived[s]
<1>1. CASE Arrive(t)
  BY <1>1 DEF Arrive, Request, Decide, SweepStart, Serve, TypeOK
<1>2. CASE Proceed(t)
  <2>1. CASE GrantStep(t) \/ GrantFinal(t)
    BY <2>1 DEF GrantStep, GrantFinal, Grant, locals, TypeOK
  <2>2. CASE Reject(t) \/ FinishExecuted(t) \/ FinishFailed(t)
    BY <2>2 DEF Reject, FinishExecuted, FinishFailed, Settle, locals, TypeOK
  <2>3. CASE Load(t) \/ CheckRefuse(t) \/ CheckExpire(t) \/ CheckPass(t)
    BY <2>3 DEF Load, CheckRefuse, CheckExpire, CheckPass, locals, TypeOK
  <2>4. CASE ExecuteReturns(t) \/ ExecuteRaises(t) \/ Record(t)
    BY <2>4 DEF ExecuteReturns, ExecuteRaises, Record, locals, TypeOK
  <2>5. CASE SweepRow(t) \/ Reply(t)
    BY <2>5 DEF SweepRow, Reply, Release, TypeOK
  <2>. QED
    BY <1>2, <2>1, <2>2, <2>3, <2>4, <2>5 DEF Proceed, Work
<1>3. CASE Die(t)
  BY <1>3 DEF Die, Release, TypeOK
<1>. QED
  BY <1>1, <1>2, <1>3

-----------------------------------------------------------------------------
(* The invariant on rows and threads.                                      *)

LEMMA InitRows == Init => RowInv /\ ThreadInv
  BY DEF Init, RowInv, ThreadInv, HasRow, Deciding

LEMMA SettleRows ==
  ASSUME TypeOK, ActOK, RowInv, ThreadInv, NEW t \in Threads, HasRow(t),
         pc[t] # "idle", pc[t] # "sweep",
         NEW st \in Status \ {"none"}, NEW next, Settle(t, st, next)
  PROVE  RowInv'
  BY DEF Settle, RowInv, ThreadInv, TypeOK, ActOK, ghosts

LEMMA ProceedRows ==
  ASSUME TypeOK, ActOK, RowInv, ThreadInv, NEW t \in Threads, Proceed(t)
  PROVE  RowInv'
<1>1. CASE Load(t) \/ CheckRefuse(t) \/ CheckPass(t) \/ Record(t) \/ Reply(t)
  BY <1>1 DEF Load, CheckRefuse, CheckPass, Record, Reply, Release, rows, ghosts, RowInv
<1>2. CASE CheckExpire(t) \/ SweepRow(t)
  BY <1>2 DEF CheckExpire, SweepRow, RowInv, TypeOK, ghosts
<1>3. CASE GrantStep(t) \/ GrantFinal(t)
  <2>1. PICK st \in {"confirming", "approved"}, next \in Step : Grant(t, st, next)
    BY <1>3 DEF GrantStep, GrantFinal, Step, Event
  <2>2. act[t] \in Actions /\ granted[act[t]] + 1 > 0
    BY <1>3 DEF GrantStep, GrantFinal, ActOK, TypeOK
  <2>. QED
    BY <2>1, <2>2 DEF Grant, RowInv, TypeOK
<1>4. CASE ExecuteReturns(t) \/ ExecuteRaises(t)
  <2>1. act[t] \in Actions /\ status[act[t]] # "none"
    BY <1>4 DEF ExecuteReturns, ExecuteRaises, ActOK, ThreadInv, HasRow, Deciding
  <2>2. \A a \in Actions \ {act[t]} : effects'[a] = effects[a]
    BY <1>4, <2>1 DEF ExecuteReturns, ExecuteRaises, TypeOK
  <2>3. UNCHANGED <<rows, granted>>
    BY <1>4 DEF ExecuteReturns, ExecuteRaises
  <2>. QED
    BY <2>1, <2>2, <2>3 DEF RowInv, rows
<1>5. CASE Reject(t) \/ FinishExecuted(t) \/ FinishFailed(t)
  BY <1>5, SettleRows DEF Reject, FinishExecuted, FinishFailed, HasRow, Deciding, Status
<1>. QED
  BY <1>1, <1>2, <1>3, <1>4, <1>5 DEF Proceed, Work

LEMMA NextRows ==
  ASSUME TypeOK, ActOK, RowInv, ThreadInv, [Next]_vars
  PROVE  RowInv'
<1>1. ASSUME NEW t \in Threads, Arrive(t)
      PROVE  RowInv'
  BY <1>1 DEF Arrive, Request, Decide, SweepStart, RowInv, TypeOK, rows, ghosts
<1>2. CASE Tick \/ UNCHANGED vars \/ \E t \in Threads : Die(t)
  BY <1>2 DEF Tick, Die, Release, vars, rows, ghosts, RowInv
<1>. QED
  BY <1>1, <1>2, ProceedRows DEF Next

\* A thread's facts survive the steps of the others.
LEMMA OthersThreads ==
  ASSUME TypeOK, ActOK, ThreadInv, [Next]_vars, clock' >= clock,
         NEW s \in Threads,
         pc'[s] = pc[s], act'[s] = act[s], seen'[s] = seen[s],
         stale'[s] = stale[s], arrived'[s] = arrived[s]
  PROVE  /\ HasRow(s)' => status'[act'[s]] # "none"
         /\ pc'[s] \in {"check", "approve"} /\ seen'[s].count > 0 => granted'[act'[s]] > 0
         /\ arrived'[s] <= clock'
         /\ \A a \in stale'[s] : status'[a] # "none" /\ deadline'[a] < clock'
<1>1. HasRow(s) <=> HasRow(s)'
  BY DEF HasRow, Deciding
<1>2. HasRow(s) \/ pc[s] \in {"check", "approve"} => act[s] \in Actions
  BY DEF ActOK, HasRow, Deciding
<1>3. HasRow(s) => status'[act[s]] # "none"
  BY <1>2, RowsStay DEF ThreadInv
<1>4. ASSUME pc[s] \in {"check", "approve"}, seen[s].count > 0
      PROVE  granted'[act[s]] > 0
  <2>1. act[s] \in Actions /\ granted[act[s]] > 0
    BY <1>2, <1>4 DEF ThreadInv
  <2>2. granted'[act[s]] >= granted[act[s]]
    BY <2>1, GrantedGrows
  <2>3. granted[act[s]] \in Nat /\ granted'[act[s]] \in Nat
    BY <2>1, NextTypeOK DEF TypeOK
  <2>. QED
    BY <2>1, <2>2, <2>3
<1>5. ASSUME NEW a \in stale[s]
      PROVE  status'[a] # "none" /\ deadline'[a] < clock'
  <2>1. a \in Actions /\ status[a] # "none" /\ deadline[a] < clock
    BY DEF TypeOK, ThreadInv
  <2>2. deadline[a] \in Nat /\ clock \in Nat /\ clock' \in Nat
    BY <2>1, NextTypeOK DEF TypeOK
  <2>. QED
    BY <2>1, <2>2, RowsStay
<1>6. arrived[s] \in Nat /\ clock \in Nat /\ clock' \in Nat
  BY NextTypeOK DEF TypeOK
<1>. QED
  BY <1>1, <1>3, <1>4, <1>5, <1>6 DEF ThreadInv

LEMMA ClockGrows ==
  ASSUME TypeOK, [Next]_vars
  PROVE  clock' >= clock
<1>1. ASSUME NEW t \in Threads, Proceed(t)
      PROVE  clock' = clock
  BY <1>1 DEF Proceed, Work, Load, CheckRefuse, CheckExpire, CheckPass, GrantStep,
     GrantFinal, Grant, Reject, ExecuteReturns, ExecuteRaises, FinishExecuted,
     FinishFailed, Settle, Record, SweepRow, Reply, Release
<1>. QED
  BY <1>1 DEF Next, Tick, Arrive, Request, Decide, SweepStart, Die, Release, vars, TypeOK

\* The facts of the thread that moves.
LEMMA OwnThread ==
  ASSUME TypeOK, ActOK, RowInv, ThreadInv, [Next]_vars,
         NEW t \in Threads, Arrive(t) \/ Proceed(t) \/ Die(t)
  PROVE  /\ HasRow(t)' => status'[act'[t]] # "none"
         /\ pc'[t] \in {"check", "approve"} /\ seen'[t].count > 0 => granted'[act'[t]] > 0
         /\ arrived'[t] <= clock'
         /\ \A a \in stale'[t] : status'[a] # "none" /\ deadline'[a] < clock'
<1> DEFINE Own == /\ HasRow(t)' => status'[act'[t]] # "none"
                  /\ pc'[t] \in {"check", "approve"} /\ seen'[t].count > 0
                       => granted'[act'[t]] > 0
                  /\ arrived'[t] <= clock'
                  /\ \A a \in stale'[t] : status'[a] # "none" /\ deadline'[a] < clock'
<1> USE DEF HasRow, Deciding
<1>1. ASSUME NEW a \in Actions, NEW u \in Caller, NEW level \in Risk, Request(t, a, u, level)
      PROVE  Own
  BY <1>1, RowsStay DEF Request, Serve, TypeOK, ThreadInv
<1>2. ASSUME NEW a \in Actions, NEW u \in Caller, NEW o \in {"approve", "reject"},
             Decide(t, a, u, o)
      PROVE  Own
  BY <1>2 DEF Decide, Serve, TypeOK, ThreadInv, rows
<1>3. CASE SweepStart(t)
  BY <1>3 DEF SweepStart, Serve, TypeOK, ThreadInv, rows, Open
<1>4. CASE Load(t)
  <2>1. act[t] \in Actions
    BY <1>4 DEF Load, ActOK
  <2>2. /\ pc'[t] = "check" /\ act'[t] = act[t] /\ status' = status
        /\ seen'[t].status = status[act[t]] /\ seen'[t].count = count[act[t]]
        /\ granted' = granted /\ arrived' = arrived /\ clock' = clock
        /\ stale' = stale /\ deadline' = deadline
    BY <1>4 DEF Load, TypeOK, rows, ghosts
  <2>. QED
    BY <2>1, <2>2 DEF RowInv, ThreadInv
<1>5. CASE CheckRefuse(t) \/ CheckExpire(t)
  <2>1. /\ pc'[t] = "refused" /\ arrived' = arrived /\ clock' = clock /\ stale' = stale
    BY <1>5 DEF CheckRefuse, CheckExpire, TypeOK, locals
  <2>. QED
    BY <2>1, RowsStay DEF TypeOK, ThreadInv
<1>6. CASE CheckPass(t)
  <2>1. /\ pc[t] = "check" /\ seen[t].status # "none"
        /\ UNCHANGED <<rows, locals, clock, ghosts>>
    BY <1>6 DEF CheckPass, Refused
  <2>2. pc'[t] \in {"approve", "reject"}
    BY <1>6 DEF CheckPass, TypeOK
  <2>. QED
    BY <2>1, <2>2 DEF ThreadInv, locals, rows, ghosts
<1>7. CASE GrantStep(t) \/ GrantFinal(t)
  <2>1. /\ pc'[t] \in {"approval_step", "exec"} /\ pc[t] = "approve"
        /\ UNCHANGED <<locals, clock>>
    BY <1>7 DEF GrantStep, GrantFinal, Grant, TypeOK
  <2>2. act[t] \in Actions /\ status[act[t]] # "none"
    BY <2>1 DEF ActOK, ThreadInv
  <2>. QED
    BY <2>1, <2>2, RowsStay DEF ThreadInv, locals, TypeOK
<1>8. CASE \/ Reject(t) \/ FinishExecuted(t) \/ FinishFailed(t)
           \/ ExecuteReturns(t) \/ ExecuteRaises(t) \/ Record(t)
  <2>1. /\ pc'[t] \notin {"check", "approve"} /\ UNCHANGED <<locals, clock>>
        /\ pc[t] \in Event \cup {"reject", "exec", "succeed", "fail"}
    BY <1>8 DEF Reject, FinishExecuted, FinishFailed, Settle, ExecuteReturns,
                ExecuteRaises, Record, TypeOK
  <2>2. act[t] \in Actions /\ status[act[t]] # "none"
    BY <2>1 DEF ActOK, ThreadInv, Event
  <2>. QED
    BY <2>1, <2>2, RowsStay DEF ThreadInv, locals, TypeOK
<1>9. CASE SweepRow(t)
  <2>1. /\ pc'[t] = "sweep" /\ UNCHANGED <<arrived, clock>>
        /\ stale'[t] \subseteq stale[t]
    BY <1>9 DEF SweepRow, TypeOK
  <2>. QED
    BY <2>1, RowsStay DEF ThreadInv, TypeOK
<1>10. CASE Reply(t) \/ Die(t)
  BY <1>10 DEF Reply, Die, Release, TypeOK
<1>. QED
  BY <1>1, <1>2, <1>3, <1>4, <1>5, <1>6, <1>7, <1>8, <1>9, <1>10 DEF Arrive, Proceed, Work

LEMMA NextThreads ==
  ASSUME TypeOK, ActOK, RowInv, ThreadInv, [Next]_vars
  PROVE  ThreadInv'
<1>1. ASSUME NEW t \in Threads, Arrive(t) \/ Proceed(t) \/ Die(t)
      PROVE  ThreadInv'
  BY <1>1, OwnThread, OthersStay, OthersThreads, ClockGrows DEF ThreadInv
<1>2. CASE Tick \/ UNCHANGED vars
  <2>1. UNCHANGED <<pc, act, seen, stale, arrived>>
    BY <1>2 DEF Tick, vars, locals
  <2>. QED
    BY <2>1, OthersThreads, ClockGrows DEF ThreadInv
<1>. QED
  BY <1>1, <1>2 DEF Next

BaseInv == TypeOK /\ ActOK /\ RowInv /\ ThreadInv

LEMMA BaseInvariant == Spec => []BaseInv
<1>1. Init => BaseInv
  BY InitTypeOK, InitRows DEF BaseInv
<1>2. BaseInv /\ [Next]_vars => BaseInv'
  BY NextTypeOK, NextRows, NextThreads DEF BaseInv
<1>. QED
  BY <1>1, <1>2, PTL DEF Spec

-----------------------------------------------------------------------------
(* Who decides, and when.                                                  *)

\* How a thread gets past the checks.
LEMMA StartsDeciding ==
  ASSUME BaseInv, NEW t \in Threads, Proceed(t), ~Deciding(t), Deciding(t)'
  PROVE  CheckPass(t)
  BY DEF Proceed, Work, Load, CheckRefuse, CheckExpire, GrantStep, GrantFinal, Grant,
     Reject, ExecuteReturns, ExecuteRaises, FinishExecuted, FinishFailed, Settle,
     Record, SweepRow, Reply, Release, Deciding, Event, BaseInv, TypeOK

LEMMA LocalsStay ==
  ASSUME BaseInv, NEW t \in Threads, Proceed(t), Deciding(t)'
  PROVE  act'[t] = act[t] /\ who'[t] = who[t] /\ arrived'[t] = arrived[t]
  BY DEF Proceed, Work, Load, CheckRefuse, CheckExpire, CheckPass, GrantStep, GrantFinal,
     Grant, Reject, ExecuteReturns, ExecuteRaises, FinishExecuted, FinishFailed,
     Settle, Record, SweepRow, Reply, Release, Deciding, locals, BaseInv, TypeOK

\* The pass through _load_open that every decision rests on.
Passed(t) ==
  Deciding(t) => /\ requester[act[t]] \in {NoUser, who[t]}
                 /\ arrived[t] <= deadline[act[t]]

LEMMA PassedByCheck ==
  ASSUME BaseInv, NEW t \in Threads, CheckPass(t)
  PROVE  Passed(t)'
<1>1. /\ act[t] \in Actions /\ UNCHANGED <<act, who, arrived, requester, deadline>>
  BY DEF CheckPass, BaseInv, ActOK, rows, locals
<1>2. requester[act[t]] \in {NoUser, who[t]}
  BY DEF CheckPass, Refused, Foreign
<1>3. arrived[t] <= deadline[act[t]]
  <2>1. arrived[t] <= clock /\ deadline[act[t]] >= clock
    BY DEF CheckPass, BaseInv, ThreadInv
  <2>2. arrived[t] \in Nat /\ clock \in Nat /\ deadline[act[t]] \in Nat
    BY <1>1 DEF BaseInv, TypeOK
  <2>. QED
    BY <2>1, <2>2
<1>. QED
  BY <1>1, <1>2, <1>3 DEF Passed

LEMMA PassedStays ==
  ASSUME BaseInv, [Next]_vars, NEW s \in Threads, Passed(s),
         Deciding(s), act'[s] = act[s], who'[s] = who[s], arrived'[s] = arrived[s]
  PROVE  Passed(s)'
<1>1. act[s] \in Actions /\ status[act[s]] # "none"
  BY DEF BaseInv, ActOK, ThreadInv, HasRow, Deciding
<1>. QED
  BY <1>1, RowsStay DEF BaseInv, Passed

LEMMA NextPassed ==
  ASSUME BaseInv, [Next]_vars, \A t \in Threads : Passed(t)
  PROVE  \A t \in Threads : Passed(t)'
<1>1. ASSUME NEW t \in Threads, Arrive(t) \/ Proceed(t) \/ Die(t), NEW s \in Threads \ {t}
      PROVE  Passed(s)'
  BY <1>1, OthersStay, PassedStays DEF BaseInv, Passed, Deciding
<1>2. ASSUME NEW t \in Threads, Proceed(t)
      PROVE  Passed(t)'
  <2>1. CASE ~Deciding(t)'
    BY <2>1 DEF Passed, Deciding
  <2>2. CASE Deciding(t)' /\ ~Deciding(t)
    BY <1>2, <2>2, StartsDeciding, PassedByCheck
  <2>3. CASE Deciding(t)' /\ Deciding(t)
    BY <1>2, <2>3, LocalsStay, PassedStays
  <2>. QED
    BY <2>1, <2>2, <2>3
<1>3. ASSUME NEW t \in Threads, NEW a \in Actions, NEW u \in Caller, NEW level \in Risk,
             Request(t, a, u, level)
      PROVE  Passed(t)'
  <2>1. Ttl[level] \in Nat /\ clock \in Nat
    BY GatewayAssumption DEF BaseInv, TypeOK
  <2>2. /\ act'[t] = a /\ who'[t] = u /\ arrived'[t] = clock
        /\ requester'[a] = u /\ deadline'[a] = clock + Ttl[level]
    BY <1>3 DEF Request, Serve, BaseInv, TypeOK
  <2>. QED
    BY <2>1, <2>2 DEF Passed
<1>4. ASSUME NEW t \in Threads, Arrive(t), ~Deciding(t)'
      PROVE  Passed(t)'
  BY <1>4 DEF Passed, Deciding
<1>5. ASSUME NEW t \in Threads, Arrive(t), Deciding(t)'
      PROVE  \E a \in Actions, u \in Caller, level \in Risk : Request(t, a, u, level)
  BY <1>5 DEF Arrive, Decide, SweepStart, Serve, Deciding, BaseInv, TypeOK
<1>6. ASSUME NEW t \in Threads, Die(t)
      PROVE  Passed(t)'
  BY <1>6 DEF Die, Release, Passed, Deciding, BaseInv, TypeOK
<1>7. CASE Tick \/ UNCHANGED vars
  BY <1>7 DEF Tick, vars, rows, locals, Passed, Deciding
<1>. QED
  BY <1>1, <1>2, <1>3, <1>4, <1>5, <1>6, <1>7 DEF Next

DeciderInv == \A a \in Actions :
  requester[a] # NoUser => decidedBy[a] \in {NoUser, requester[a]}

LEMMA NextDecider ==
  ASSUME BaseInv, [Next]_vars, \A t \in Threads : Passed(t), DeciderInv
  PROVE  DeciderInv'
<1>1. ASSUME NEW t \in Threads, Arrive(t)
      PROVE  DeciderInv'
  BY <1>1 DEF Arrive, Request, Decide, SweepStart, rows, DeciderInv, BaseInv, RowInv, TypeOK
<1>2. ASSUME NEW t \in Threads, Reject(t) \/ FinishExecuted(t) \/ FinishFailed(t)
      PROVE  DeciderInv'
  <2>1. act[t] \in Actions /\ requester[act[t]] \in {NoUser, who[t]}
    BY <1>2 DEF Reject, FinishExecuted, FinishFailed, Passed, Deciding, BaseInv, ActOK
  <2>. QED
    BY <1>2, <2>1 DEF Reject, FinishExecuted, FinishFailed, Settle, DeciderInv, BaseInv, TypeOK
<1>3. ASSUME NEW t \in Threads, Proceed(t), ~(Reject(t) \/ FinishExecuted(t) \/ FinishFailed(t))
      PROVE  UNCHANGED <<requester, decidedBy>>
  BY <1>3 DEF Proceed, Work, Load, CheckRefuse, CheckExpire, CheckPass, GrantStep, GrantFinal,
     Grant, ExecuteReturns, ExecuteRaises, Record, SweepRow, Reply, Release, rows
<1>4. CASE Tick \/ UNCHANGED vars \/ \E t \in Threads : Die(t)
  BY <1>4 DEF Tick, Die, Release, vars, rows, DeciderInv
<1>. QED
  BY <1>1, <1>2, <1>3, <1>4 DEF Next, DeciderInv

ExpiredInv == \A a \in Actions : status[a] = "expired" => deadline[a] < clock

LEMMA NextExpired ==
  ASSUME BaseInv, [Next]_vars, ExpiredInv
  PROVE  ExpiredInv'
<1>1. ASSUME NEW a \in Actions, status[a] = "expired"
      PROVE  deadline'[a] < clock'
  <2>1. deadline'[a] = deadline[a] /\ deadline[a] < clock
    BY <1>1, RowsStay DEF BaseInv, ExpiredInv
  <2>2. clock' >= clock /\ clock \in Nat /\ clock' \in Nat /\ deadline[a] \in Nat
    BY ClockGrows, NextTypeOK DEF BaseInv, TypeOK
  <2>. QED
    BY <2>1, <2>2
<1>2. ASSUME NEW a \in Actions, NEW t \in Threads, CheckExpire(t) \/ SweepRow(t),
             status'[a] = "expired", status[a] # "expired"
      PROVE  deadline'[a] < clock'
  BY <1>2 DEF CheckExpire, SweepRow, BaseInv, ThreadInv, TypeOK
<1>3. ASSUME NEW a \in Actions, NEW t \in Threads, Proceed(t),
             ~(CheckExpire(t) \/ SweepRow(t)), status[a] # "expired"
      PROVE  status'[a] # "expired"
  BY <1>3 DEF Proceed, Work, Load, CheckRefuse, CheckPass, GrantStep, GrantFinal, Grant,
     Reject, ExecuteReturns, ExecuteRaises, FinishExecuted, FinishFailed, Settle,
     Record, Reply, Release, rows, BaseInv, TypeOK
<1>4. ASSUME NEW a \in Actions, status[a] # "expired",
             Tick \/ UNCHANGED vars \/ \E t \in Threads : Arrive(t) \/ Die(t)
      PROVE  status'[a] # "expired"
  BY <1>4 DEF Tick, Die, Release, vars, rows, Arrive, Request, Decide, SweepStart,
     BaseInv, TypeOK
<1>. QED
  BY <1>1, <1>2, <1>3, <1>4 DEF Next, ExpiredInv

AuthorityInv ==
  BaseInv /\ (\A t \in Threads : Passed(t)) /\ DeciderInv /\ ExpiredInv

LEMMA AuthorityInvariant == Spec => []AuthorityInv
<1>1. Init => AuthorityInv
  BY InitTypeOK, InitRows
  DEF Init, AuthorityInv, BaseInv, Passed, Deciding, DeciderInv, ExpiredInv
<1>2. AuthorityInv /\ [Next]_vars => AuthorityInv'
  BY NextTypeOK, NextRows, NextThreads, NextPassed, NextDecider, NextExpired
  DEF AuthorityInv, BaseInv
<1>. QED
  BY <1>1, <1>2, PTL DEF Spec

\* However the handlers of app/approvals/gateway.py interleave or break off, a
\* decision on an action with a requester is the requester's.
THEOREM RequesterDecides == Spec => []OnlyTheRequesterDecides
<1>1. AuthorityInv => OnlyTheRequesterDecides
  BY DEF AuthorityInv, Passed, DeciderInv, OnlyTheRequesterDecides
<1>. QED
  BY <1>1, AuthorityInvariant, PTL

\* Neither _load_open nor expire_stale_actions expires a row before its time.
THEOREM ExpiryIsTimely == Spec => []ExpiredOnlyAfterDeadline
<1>1. AuthorityInv => ExpiredOnlyAfterDeadline
  BY DEF AuthorityInv, ExpiredInv, ExpiredOnlyAfterDeadline
<1>. QED
  BY <1>1, AuthorityInvariant, PTL

\* A press that reached the server after the deadline decides nothing.
THEOREM LatePressDecidesNothing == Spec => []NoLatePress
<1>1. AuthorityInv => NoLatePress
  BY DEF AuthorityInv, Passed, NoLatePress
<1>. QED
  BY <1>1, AuthorityInvariant, PTL

-----------------------------------------------------------------------------
(* Every run is paid for. The runs still to come count too: a thread at    *)
(* "exec" has its approval already.                                        *)

Claims(a) == {t \in Threads : pc[t] = "exec" /\ act[t] = a}

\* The runs of an action, done and begun.
Used(a) == effects[a] + Cardinality(Claims(a))

\* What an action's approvals are worth, beside those its first run needs.
Worth(a) == granted[a] + (IF risk[a] = "green" THEN 2 ELSE 1)

PaidInv == \A a \in Actions : Used(a) > 0 => Used(a) + Required(risk[a]) <= Worth(a)

LEMMA ClaimsFinite ==
  ASSUME NEW a
  PROVE  IsFiniteSet(Claims(a)) /\ Cardinality(Claims(a)) \in Nat
<1>1. Claims(a) \subseteq Threads
  BY DEF Claims
<1>2. IsFiniteSet(Claims(a))
  BY <1>1, GatewayAssumption, FS_Subset
<1>. QED
  BY <1>2, FS_CardinalityType

\* A row that does not exist has no claim.
LEMMA NoClaimBefore ==
  ASSUME BaseInv, NEW a \in Actions, status[a] = "none"
  PROVE  Used(a) = 0
<1>1. Claims(a) = {}
  BY DEF Claims, BaseInv, ThreadInv, HasRow, Deciding
<1>2. Cardinality(Claims(a)) = 0
  BY <1>1, FS_EmptySet
<1>. QED
  BY <1>2 DEF Used, BaseInv, RowInv

\* A thread that reaches its executor adds one claim, one that leaves it ends one.
LEMMA ClaimBegins ==
  ASSUME BaseInv, NEW t \in Threads, NEW a \in Actions,
         pc[t] # "exec", pc'[t] = "exec", act'[t] = a,
         \A s \in Threads \ {t} : pc'[s] = pc[s] /\ act'[s] = act[s]
  PROVE  /\ Cardinality(Claims(a)') = Cardinality(Claims(a)) + 1
         /\ \A b \in Actions \ {a} : Claims(b)' = Claims(b)
<1>1. Claims(a)' = Claims(a) \cup {t} /\ t \notin Claims(a)
  BY DEF Claims
<1>2. Cardinality(Claims(a) \cup {t}) = Cardinality(Claims(a)) + 1
  BY <1>1, ClaimsFinite, FS_AddElement
<1>3. \A b \in Actions \ {a} : Claims(b)' = Claims(b)
  BY DEF Claims
<1>. QED
  BY <1>1, <1>2, <1>3

LEMMA ClaimEnds ==
  ASSUME BaseInv, NEW t \in Threads, NEW a \in Actions, act[t] = a,
         pc[t] = "exec", pc'[t] # "exec",
         \A s \in Threads \ {t} : pc'[s] = pc[s] /\ act'[s] = act[s]
  PROVE  /\ Cardinality(Claims(a)') = Cardinality(Claims(a)) - 1
         /\ \A b \in Actions \ {a} : Claims(b)' = Claims(b)
<1>1. Claims(a)' = Claims(a) \ {t} /\ t \in Claims(a)
  BY DEF Claims
<1>2. Cardinality(Claims(a) \ {t}) = Cardinality(Claims(a)) - 1
  BY <1>1, ClaimsFinite, FS_RemoveElement
<1>3. \A b \in Actions \ {a} : Claims(b)' = Claims(b)
  <2>. TAKE b \in Actions \ {a}
  <2>1. t \notin Claims(b) /\ t \notin Claims(b)'
    BY DEF Claims
  <2>2. \A s \in Threads \ {t} : s \in Claims(b)' <=> s \in Claims(b)
    BY DEF Claims
  <2>. QED
    BY <2>1, <2>2 DEF Claims
<1>. QED
  BY <1>1, <1>2, <1>3

\* A step that neither begins nor ends a claim, nor runs anything, keeps PaidInv.
LEMMA PaidStays ==
  ASSUME BaseInv, [Next]_vars, PaidInv, NEW a \in Actions,
         Claims(a)' = Claims(a), effects'[a] = effects[a]
  PROVE  Used(a)' > 0 => Used(a)' + Required(risk'[a]) <= Worth(a)'
<1>1. Used(a)' = Used(a)
  BY DEF Used
<1>2. CASE status[a] = "none"
  BY <1>1, <1>2, NoClaimBefore
<1>3. CASE status[a] # "none"
  <2>1. risk'[a] = risk[a] /\ granted'[a] >= granted[a]
    BY <1>3, RowsStay, GrantedGrows DEF BaseInv
  <2>2. Used(a) \in Nat /\ granted[a] \in Nat /\ granted'[a] \in Nat
    BY ClaimsFinite, NextTypeOK DEF Used, BaseInv, TypeOK
  <2>. QED
    BY <1>1, <2>1, <2>2 DEF PaidInv, Worth, Required
<1>. QED
  BY <1>2, <1>3

LEMMA RequestPaid ==
  ASSUME BaseInv, [Next]_vars, PaidInv, NEW t \in Threads, NEW a \in Actions,
         NEW u \in Caller, NEW level \in Risk, Request(t, a, u, level)
  PROVE  PaidInv'
<1>1. \A s \in Threads \ {t} : pc'[s] = pc[s] /\ act'[s] = act[s]
  BY DEF Request, Serve, BaseInv, TypeOK
<1>2. UNCHANGED <<effects, granted>> /\ pc[t] = "idle" /\ act'[t] = a
  BY DEF Request, Serve, ghosts, BaseInv, TypeOK
<1>3. CASE level = "green"
  <2>1. pc'[t] = "exec" /\ risk'[a] = "green"
    BY <1>3 DEF Request, Serve, BaseInv, TypeOK
  <2>2. /\ Cardinality(Claims(a)') = Cardinality(Claims(a)) + 1
        /\ \A b \in Actions \ {a} : Claims(b)' = Claims(b)
    BY <1>1, <1>2, <2>1, ClaimBegins
  <2>3. Used(a) = 0
    BY NoClaimBefore DEF Request
  <2>4. Used(a)' = 1
    BY <1>2, <2>2, <2>3, ClaimsFinite DEF Used, BaseInv, TypeOK
  <2>5. Used(a)' + Required(risk'[a]) <= Worth(a)'
    BY <1>2, <2>1, <2>4 DEF Worth, Required, BaseInv, TypeOK
  <2>. QED
    BY <1>2, <2>2, <2>5, PaidStays DEF PaidInv
<1>4. CASE level # "green"
  <2>1. pc'[t] # "exec"
    BY <1>4 DEF Request, Serve, BaseInv, TypeOK
  <2>2. \A b \in Actions : Claims(b)' = Claims(b)
    BY <1>1, <1>2, <2>1 DEF Claims
  <2>. QED
    BY <1>2, <2>2, PaidStays DEF PaidInv
<1>. QED
  BY <1>3, <1>4

LEMMA GrantFinalPaid ==
  ASSUME BaseInv, [Next]_vars, PaidInv, NEW t \in Threads, GrantFinal(t)
  PROVE  PaidInv'
<1>0. PICK a \in Actions : a = act[t]
  BY DEF GrantFinal, ExecuteReturns, ExecuteRaises, BaseInv, ActOK
<1>1. /\ act[t] = a /\ act'[t] = a /\ pc[t] = "approve" /\ pc'[t] = "exec" /\ act' = act
      /\ \A s \in Threads \ {t} : pc'[s] = pc[s]
      /\ UNCHANGED <<risk, effects>>
  BY <1>0 DEF GrantFinal, Grant, BaseInv, ActOK, TypeOK, locals
<1>2. /\ Cardinality(Claims(a)') = Cardinality(Claims(a)) + 1
      /\ \A b \in Actions \ {a} : Claims(b)' = Claims(b)
  BY <1>1, ClaimBegins
<1>3. granted'[a] = granted[a] + 1 /\ granted[a] \in Nat
  BY <1>1 DEF GrantFinal, Grant, BaseInv, TypeOK
<1>4. /\ Used(a)' = Used(a) + 1 /\ Worth(a)' = Worth(a) + 1
      /\ Used(a) \in Nat /\ Worth(a) \in Nat
  BY <1>1, <1>2, <1>3, ClaimsFinite DEF Used, Worth, BaseInv, TypeOK
<1>5. risk[a] = "red" => granted[a] > 0
  <2>1. risk[a] = "red" => seen[t].count + 1 >= 2
    BY <1>0 DEF GrantFinal, Required
  <2>2. seen[t].count \in Nat
    BY DEF BaseInv, TypeOK
  <2>. QED
    BY <1>0, <1>1, <2>1, <2>2 DEF BaseInv, ThreadInv
<1>6. Used(a)' + Required(risk'[a]) <= Worth(a)'
  <2>1. CASE Used(a) > 0
    BY <1>1, <1>4, <2>1 DEF PaidInv, Required
  <2>2. CASE Used(a) = 0
    BY <1>1, <1>3, <1>4, <1>5, <2>2 DEF Worth, Required
  <2>. QED
    BY <1>4, <2>1, <2>2
<1>. QED
  BY <1>1, <1>2, <1>6, PaidStays DEF PaidInv

LEMMA ExecutePaid ==
  ASSUME BaseInv, [Next]_vars, PaidInv, NEW t \in Threads,
         ExecuteReturns(t) \/ ExecuteRaises(t)
  PROVE  PaidInv'
<1>0. PICK a \in Actions : a = act[t]
  BY DEF GrantFinal, ExecuteReturns, ExecuteRaises, BaseInv, ActOK
<1>1. /\ act[t] = a /\ act'[t] = a /\ pc[t] = "exec" /\ pc'[t] # "exec" /\ act' = act
      /\ \A s \in Threads \ {t} : pc'[s] = pc[s]
      /\ UNCHANGED <<risk, granted>>
  BY <1>0 DEF ExecuteReturns, ExecuteRaises, BaseInv, ActOK, TypeOK, rows, locals
<1>2. /\ Cardinality(Claims(a)') = Cardinality(Claims(a)) - 1
      /\ \A b \in Actions \ {a} : Claims(b)' = Claims(b)
  BY <1>1, ClaimEnds
<1>3. /\ effects'[a] \in {effects[a], effects[a] + 1} /\ effects[a] \in Nat
      /\ \A b \in Actions \ {a} : effects'[b] = effects[b]
  BY <1>1 DEF ExecuteReturns, ExecuteRaises, BaseInv, TypeOK
<1>4. Cardinality(Claims(a)) \in Nat \ {0}
  <2>1. t \in Claims(a)
    BY <1>1 DEF Claims
  <2>. QED
    BY <2>1, ClaimsFinite, FS_EmptySet
<1>5. Used(a)' <= Used(a) /\ Used(a)' >= 0 /\ Used(a) \in Nat /\ Used(a)' \in Int
  BY <1>2, <1>3, <1>4 DEF Used
<1>6. Worth(a)' = Worth(a) /\ Worth(a) \in Nat
  BY <1>1 DEF Worth, BaseInv, TypeOK
<1>7. Used(a)' > 0 => Used(a)' + Required(risk'[a]) <= Worth(a)'
  <2>1. risk' = risk /\ Required(risk[a]) \in {1, 2}
    BY <1>1 DEF Required
  <2>. QED
    BY <1>5, <1>6, <2>1 DEF PaidInv
<1>. QED
  BY <1>2, <1>3, <1>7, PaidStays DEF PaidInv

LEMMA NextPaid ==
  ASSUME BaseInv, [Next]_vars, PaidInv
  PROVE  PaidInv'
<1>1. ASSUME NEW t \in Threads,
             \/ SweepStart(t)
             \/ \E a \in Actions, u \in Caller, o \in {"approve", "reject"} :
                  Decide(t, a, u, o)
      PROVE  PaidInv'
  <2>1. /\ effects' = effects /\ pc[t] # "exec" /\ pc'[t] # "exec"
        /\ \A s \in Threads \ {t} : pc'[s] = pc[s] /\ act'[s] = act[s]
    BY <1>1 DEF Decide, SweepStart, Serve, ghosts, BaseInv, TypeOK
  <2>2. \A b \in Actions : Claims(b)' = Claims(b)
    BY <2>1 DEF Claims
  <2>. QED
    BY <2>1, <2>2, PaidStays DEF PaidInv
<1>2. ASSUME NEW t \in Threads, Proceed(t),
             ~(GrantFinal(t) \/ ExecuteReturns(t) \/ ExecuteRaises(t))
      PROVE  PaidInv'
  <2>1. /\ effects' = effects /\ pc[t] # "exec" /\ pc'[t] # "exec"
        /\ \A s \in Threads \ {t} : pc'[s] = pc[s] /\ act'[s] = act[s]
    <3>1. effects' = effects
      BY <1>2 DEF Proceed, Work, Load, CheckRefuse, CheckExpire, CheckPass, GrantStep, Grant,
         Reject, FinishExecuted, FinishFailed, Settle, Record, SweepRow, Reply, Release,
         ghosts
    <3>2. pc[t] # "exec" /\ pc'[t] # "exec"
      BY <1>2 DEF Proceed, Work, Load, CheckRefuse, CheckExpire, CheckPass, GrantStep, Grant,
         Reject, FinishExecuted, FinishFailed, Settle, Record, SweepRow, Reply, Release,
         Event, BaseInv, TypeOK
    <3>. QED
      BY <1>2, <3>1, <3>2, OthersStay DEF BaseInv
  <2>2. \A b \in Actions : Claims(b)' = Claims(b)
    BY <2>1 DEF Claims
  <2>. QED
    BY <2>1, <2>2, PaidStays DEF PaidInv
<1>3. ASSUME NEW t \in Threads, Release(t), pc[t] # "exec"
      PROVE  \A b \in Actions : Claims(b)' = Claims(b)
  BY <1>3 DEF Release, Claims, BaseInv, TypeOK
<1>4. ASSUME NEW t \in Threads, Die(t)
      PROVE  PaidInv'
  <2>1. effects' = effects /\ pc'[t] = "idle" /\ (\A s \in Threads \ {t} :
          pc'[s] = pc[s] /\ act'[s] = act[s])
    BY <1>4 DEF Die, Release, ghosts, BaseInv, TypeOK
  <2>2. CASE pc[t] # "exec"
    BY <1>3, <1>4, <2>1, <2>2, PaidStays DEF Die, PaidInv
  <2>3. CASE pc[t] = "exec"
    <3>1. PICK a \in Actions : act[t] = a
      BY <2>3 DEF BaseInv, ActOK
    <3>2. /\ Cardinality(Claims(a)') = Cardinality(Claims(a)) - 1
          /\ \A b \in Actions \ {a} : Claims(b)' = Claims(b)
      BY <2>1, <2>3, <3>1, ClaimEnds
    <3>3. risk' = risk /\ granted' = granted /\ Worth(a)' = Worth(a)
      BY <1>4 DEF Die, Release, rows, ghosts, Worth
    <3>4. Used(a)' = Used(a) - 1 /\ Used(a) \in Nat
      <4>1. effects[a] \in Nat /\ effects'[a] = effects[a] /\ Cardinality(Claims(a)) \in Nat
        BY <2>1, ClaimsFinite DEF BaseInv, TypeOK
      <4>. QED
        BY <3>2, <4>1 DEF Used
    <3>5. Worth(a) \in Nat /\ Required(risk[a]) \in {1, 2}
      BY DEF Worth, Required, BaseInv, TypeOK
    <3>6. Used(a)' > 0 => Used(a)' + Required(risk'[a]) <= Worth(a)'
      BY <3>3, <3>4, <3>5 DEF PaidInv
    <3>7. ASSUME NEW b \in Actions \ {a}
          PROVE  Used(b)' > 0 => Used(b)' + Required(risk'[b]) <= Worth(b)'
      BY <2>1, <3>2, <3>7, PaidStays
    <3>. QED
      BY <3>6, <3>7 DEF PaidInv
  <2>. QED
    BY <2>2, <2>3
<1>5. CASE Tick \/ UNCHANGED vars
  <2>1. UNCHANGED <<effects, pc, act>>
    BY <1>5 DEF Tick, vars, locals, ghosts
  <2>2. \A b \in Actions : Claims(b)' = Claims(b)
    BY <2>1 DEF Claims
  <2>. QED
    BY <2>1, <2>2, PaidStays DEF PaidInv
<1>6. ASSUME NEW t \in Threads, Arrive(t)
      PROVE  PaidInv'
  BY <1>1, <1>6, RequestPaid DEF Arrive
<1>7. ASSUME NEW t \in Threads, Proceed(t)
      PROVE  PaidInv'
  BY <1>2, <1>7, GrantFinalPaid, ExecutePaid
<1>. QED
  BY <1>4, <1>5, <1>6, <1>7 DEF Next

PaidForInv == BaseInv /\ PaidInv

LEMMA PaidForInvariant == Spec => []PaidForInv
<1>1. ASSUME Init
      PROVE  PaidInv
  <2>1. \A a \in Actions : Claims(a) = {} /\ effects[a] = 0
    BY <1>1 DEF Init, Claims
  <2>2. \A a \in Actions : Used(a) = 0
    BY <2>1, FS_EmptySet DEF Used
  <2>. QED
    BY <2>2 DEF PaidInv
<1>2. Init => PaidForInv
  BY <1>1, InitTypeOK, InitRows DEF PaidForInv, BaseInv
<1>3. PaidForInv /\ [Next]_vars => PaidForInv'
  BY NextPaid, NextTypeOK, NextRows, NextThreads DEF PaidForInv, BaseInv
<1>. QED
  BY <1>2, <1>3, PTL DEF Spec

\* No run without an approval of its own: whatever the interleaving of the
\* handlers in app/approvals/gateway.py and wherever they break off, an action
\* that was felt n times had n approvals, one more if it is red.
THEOREM EveryRunIsPaidFor == Spec => []RunsArePaidFor
<1>1. PaidForInv => RunsArePaidFor
  <2> SUFFICES ASSUME PaidForInv, NEW a \in Actions, effects[a] > 0
               PROVE  effects[a] + Required(risk[a]) <= Worth(a)
    BY DEF RunsArePaidFor, Worth
  <2>1. Used(a) >= effects[a] /\ effects[a] \in Nat /\ Used(a) \in Nat
    BY ClaimsFinite DEF Used, PaidForInv, BaseInv, TypeOK
  <2>2. Worth(a) \in Nat /\ Required(risk[a]) \in {1, 2}
    BY DEF Worth, Required, PaidForInv, BaseInv, TypeOK
  <2>. QED
    BY <2>1, <2>2 DEF PaidForInv, PaidInv
<1>. QED
  BY <1>1, PaidForInvariant, PTL

-----------------------------------------------------------------------------
(* The gateway implements the gate.                                        *)

\* What a step that is not a request does to the levels.
LEMMA LevelsStay ==
  ASSUME BaseInv, [Next]_vars, \A a \in Actions : status[a] = "none" => status'[a] = "none"
  PROVE  LevelOf' = LevelOf
<1>1. ASSUME NEW a \in Actions
      PROVE  LevelOf'[a] = LevelOf[a]
  BY RowsStay DEF LevelOf, BaseInv
<1>. QED
  BY <1>1 DEF LevelOf

LEMMA RequestIsAsk ==
  ASSUME BaseInv, [Next]_vars, NEW t \in Threads, NEW a \in Actions,
         NEW u \in Caller, NEW level \in Risk, Request(t, a, u, level)
  PROVE  Gate!Ask(a, level) /\ level \in Gate!Level
<1>1. UNCHANGED <<granted, effects>> /\ LevelOf[a] = "none" /\ level \in Gate!Level
  BY DEF Request, ghosts, LevelOf, Gate!Level, Risk
<1>2. LevelOf'[a] = level
  BY DEF Request, LevelOf, BaseInv, TypeOK
<1>3. ASSUME NEW b \in Actions \ {a}
      PROVE  LevelOf'[b] = LevelOf[b]
  BY DEF Request, LevelOf, BaseInv, TypeOK
<1>4. LevelOf' = [LevelOf EXCEPT ![a] = level]
  BY <1>2, <1>3 DEF LevelOf
<1>. QED
  BY <1>1, <1>4 DEF Gate!Ask

LEMMA GrantIsApprove ==
  ASSUME BaseInv, [Next]_vars, NEW t \in Threads, GrantStep(t) \/ GrantFinal(t)
  PROVE  act[t] \in Actions /\ Gate!Approve(act[t])
<1>1. act[t] \in Actions /\ status[act[t]] # "none"
  BY DEF GrantStep, GrantFinal, BaseInv, ActOK, ThreadInv, HasRow, Deciding
<1>2. /\ granted' = [granted EXCEPT ![act[t]] = @ + 1] /\ effects' = effects
      /\ \A a \in Actions : status[a] = "none" => status'[a] = "none"
  BY <1>1 DEF GrantStep, GrantFinal, Grant, BaseInv, TypeOK
<1>3. LevelOf[act[t]] # "none" /\ LevelOf' = LevelOf
  BY <1>1, <1>2, LevelsStay DEF LevelOf, BaseInv, TypeOK, Risk
<1>. QED
  BY <1>1, <1>2, <1>3 DEF Gate!Approve

LEMMA ExecuteIsRun ==
  ASSUME PaidForInv, [Next]_vars, NEW t \in Threads, ExecuteReturns(t) \/ ExecuteRaises(t)
  PROVE  \/ UNCHANGED <<LevelOf, granted, effects>>
         \/ act[t] \in Actions /\ Gate!Run(act[t])
<1>1. PICK a \in Actions : a = act[t] /\ status[a] # "none" /\ t \in Claims(a)
  BY DEF ExecuteReturns, ExecuteRaises, PaidForInv, BaseInv, ActOK, ThreadInv, HasRow,
         Deciding, Claims
<1>2. /\ granted' = granted /\ status' = status /\ LevelOf' = LevelOf
      /\ effects' \in {effects, [effects EXCEPT ![a] = @ + 1]}
  BY <1>1 DEF ExecuteReturns, ExecuteRaises, LevelOf, rows, PaidForInv, BaseInv, TypeOK
<1>3. LevelOf[a] = risk[a] /\ LevelOf[a] # "none"
  BY <1>1 DEF LevelOf, PaidForInv, BaseInv, TypeOK, Risk
<1>4. effects[a] + Gate!Needed(LevelOf[a]) <= granted[a]
  <2>1. Cardinality(Claims(a)) \in Nat \ {0}
    BY <1>1, ClaimsFinite, FS_EmptySet
  <2>2. effects[a] \in Nat /\ granted[a] \in Nat
    BY DEF PaidForInv, BaseInv, TypeOK
  <2>3. Used(a) > 0 /\ Used(a) \in Nat /\ Used(a) >= effects[a] + 1
    BY <2>1, <2>2 DEF Used
  <2>4. effects[a] + 1 + Required(risk[a]) <= Worth(a)
    <3>1. Used(a) + Required(risk[a]) <= Worth(a)
      BY <2>3 DEF PaidForInv, PaidInv
    <3>2. Worth(a) \in Nat /\ Required(risk[a]) \in {1, 2}
      BY <2>2 DEF Worth, Required
    <3>. QED
      BY <2>2, <2>3, <3>1, <3>2
  <2>5. risk[a] \in {"green", "yellow", "red"}
    BY DEF PaidForInv, BaseInv, TypeOK, Risk
  <2>. QED
    BY <1>3, <2>2, <2>4, <2>5 DEF Worth, Required, Gate!Needed
<1>. QED
  BY <1>1, <1>2, <1>3, <1>4 DEF Gate!Run

LEMMA StepIsGateStep ==
  ASSUME PaidForInv, [Next]_vars
  PROVE  [Gate!GateNext]_(Gate!gateVars)
<1> USE DEF Gate!gateVars, Gate!GateNext
<1>1. ASSUME NEW t \in Threads, NEW a \in Actions, NEW u \in Caller, NEW level \in Risk,
             Request(t, a, u, level)
      PROVE  Gate!GateNext
  BY <1>1, RequestIsAsk DEF PaidForInv
<1>2. ASSUME NEW t \in Threads, GrantStep(t) \/ GrantFinal(t)
      PROVE  Gate!GateNext
  BY <1>2, GrantIsApprove DEF PaidForInv
<1>3. ASSUME NEW t \in Threads, ExecuteReturns(t) \/ ExecuteRaises(t)
      PROVE  [Gate!GateNext]_(Gate!gateVars)
  BY <1>3, ExecuteIsRun DEF PaidForInv
<1>4. ASSUME UNCHANGED <<granted, effects>>,
             \A a \in Actions : status[a] = "none" => status'[a] = "none"
      PROVE  UNCHANGED Gate!gateVars
  BY <1>4, LevelsStay DEF PaidForInv
<1>5. ASSUME NEW t \in Threads, Proceed(t),
             ~(GrantStep(t) \/ GrantFinal(t) \/ ExecuteReturns(t) \/ ExecuteRaises(t))
      PROVE  UNCHANGED Gate!gateVars
  <2>1. UNCHANGED <<granted, effects>>
    BY <1>5 DEF Proceed, Work, Load, CheckRefuse, CheckExpire, CheckPass, Reject,
       FinishExecuted, FinishFailed, Settle, Record, SweepRow, Reply, Release, ghosts
  <2>2. CASE Load(t) \/ CheckRefuse(t) \/ CheckPass(t) \/ Record(t) \/ Reply(t)
    BY <1>4, <2>1, <2>2 DEF Load, CheckRefuse, CheckPass, Record, Reply, Release, rows
  <2>3. CASE CheckExpire(t)
    <3>1. act[t] \in Actions /\ status[act[t]] # "none"
      BY <2>3 DEF CheckExpire, Refused, PaidForInv, BaseInv, ActOK, ThreadInv, HasRow
    <3>. QED
      BY <1>4, <2>1, <2>3, <3>1 DEF CheckExpire, PaidForInv, BaseInv, TypeOK
  <2>4. CASE SweepRow(t)
    BY <1>4, <2>1, <2>4 DEF SweepRow, PaidForInv, BaseInv, ThreadInv, TypeOK
  <2>5. CASE Reject(t) \/ FinishExecuted(t) \/ FinishFailed(t)
    <3>1. act[t] \in Actions /\ status[act[t]] # "none"
      BY <2>5 DEF Reject, FinishExecuted, FinishFailed, PaidForInv, BaseInv, ActOK,
                  ThreadInv, HasRow, Deciding
    <3>. QED
      BY <1>4, <2>1, <2>5, <3>1 DEF Reject, FinishExecuted, FinishFailed, Settle,
         PaidForInv, BaseInv, TypeOK
  <2>. QED
    BY <1>5, <2>2, <2>3, <2>4, <2>5 DEF Proceed, Work
<1>6. CASE Tick \/ UNCHANGED vars \/ \E t \in Threads :
             \/ Die(t) \/ SweepStart(t)
             \/ \E a \in Actions, u \in Caller, o \in {"approve", "reject"} :
                  Decide(t, a, u, o)
  BY <1>4, <1>6 DEF Tick, Die, Release, vars, SweepStart, Decide, rows, ghosts
<1>. QED
  BY <1>1, <1>2, <1>3, <1>5, <1>6 DEF Next, Arrive

\* The gateway of app/approvals/gateway.py implements ApprovalGate: its first
\* state maps to the gate's, and each of its steps to a step of the gate or none.
THEOREM GatewayImplementsGate == Spec => KeepsTheGate
<1>1. Init => Gate!GateInit
  BY DEF Init, Gate!GateInit, LevelOf
<1>2. PaidForInv /\ [Next]_vars => [Gate!GateNext]_(Gate!gateVars)
  BY StepIsGateStep
<1>. QED
  BY <1>1, <1>2, PaidForInvariant, PTL DEF Spec, KeepsTheGate, Gate!GateSpec

-----------------------------------------------------------------------------
(* Approved actions.                                                       *)

LEMMA ProceedInHand ==
  ASSUME TypeOK, ActOK, ApprovedIsInHand, NEW t \in Threads, Proceed(t),
         NEW a \in Actions, status'[a] = "approved"
  PROVE  \E u \in Threads : act'[u] = a /\ pc'[u] \in {"exec", "succeed", "fail"}
<1>1. CASE act[t] = a /\ pc[t] \in {"exec", "succeed", "fail"}
  <2>1. ExecuteReturns(t) \/ ExecuteRaises(t)
    <3>1. ~(FinishExecuted(t) \/ FinishFailed(t))
      BY <1>1 DEF FinishExecuted, FinishFailed, Settle, TypeOK
    <3>. QED
      BY <1>1, <3>1 DEF Proceed, Work, Load, CheckRefuse, CheckExpire, CheckPass, GrantStep,
         GrantFinal, Reject, Record, SweepRow, Reply, Event
  <2>. QED
    BY <1>1, <2>1 DEF ExecuteReturns, ExecuteRaises, TypeOK, locals
<1>2. CASE GrantFinal(t) /\ act[t] = a
  BY <1>2 DEF GrantFinal, Grant, TypeOK, locals
<1>3. CASE /\ ~(act[t] = a /\ pc[t] \in {"exec", "succeed", "fail"})
           /\ ~(GrantFinal(t) /\ act[t] = a)
  <2>1. status[a] = "approved"
    <3>1. CASE GrantStep(t) \/ GrantFinal(t)
      BY <1>3, <3>1 DEF GrantStep, GrantFinal, Grant, TypeOK
    <3>2. CASE Reject(t) \/ FinishExecuted(t) \/ FinishFailed(t)
      BY <3>2 DEF Reject, FinishExecuted, FinishFailed, Settle, TypeOK
    <3>3. CASE CheckExpire(t) \/ SweepRow(t)
      BY <3>3 DEF CheckExpire, SweepRow, TypeOK
    <3>4. CASE Load(t) \/ CheckRefuse(t) \/ CheckPass(t) \/ Record(t) \/ Reply(t)
               \/ ExecuteReturns(t) \/ ExecuteRaises(t)
      BY <3>4 DEF Load, CheckRefuse, CheckPass, Record, Reply, Release,
                  ExecuteReturns, ExecuteRaises, rows
    <3>. QED
      BY <3>1, <3>2, <3>3, <3>4 DEF Proceed, Work
  <2>2. PICK u \in Threads : act[u] = a /\ pc[u] \in {"exec", "succeed", "fail"}
    BY <2>1 DEF ApprovedIsInHand
  <2>3. act'[u] = act[u] /\ pc'[u] = pc[u]
    BY <1>3, <2>2, OthersStay
  <2>. QED
    BY <2>2, <2>3
<1>. QED
  BY <1>1, <1>2, <1>3

\* Whoever stores "approved" goes on to the executor, and whoever is at the
\* executor stores another status when it is done: the last to write is still
\* there, whatever the overlap. What remains of "an approved action is carried
\* out" is that the thread is scheduled.
THEOREM ApprovedStaysInHand ==
  ASSUME MayDie = FALSE
  PROVE  Spec => []ApprovedIsInHand
<1>1. Init => ApprovedIsInHand
  BY DEF Init, ApprovedIsInHand
<1>2. TypeOK /\ ActOK /\ ApprovedIsInHand /\ [Next]_vars => ApprovedIsInHand'
  <2> SUFFICES ASSUME TypeOK, ActOK, ApprovedIsInHand, [Next]_vars
               PROVE  ApprovedIsInHand'
    OBVIOUS
  <2>1. CASE Tick \/ UNCHANGED vars
    BY <2>1 DEF Tick, vars, rows, locals, ApprovedIsInHand
  <2>2. ASSUME NEW t \in Threads, Arrive(t)
        PROVE  ApprovedIsInHand'
    <3> SUFFICES ASSUME NEW a \in Actions, status'[a] = "approved"
                 PROVE  \E u \in Threads :
                          act'[u] = a /\ pc'[u] \in {"exec", "succeed", "fail"}
      BY DEF ApprovedIsInHand
    <3>1. CASE status[a] = "approved"
      <4>1. PICK u \in Threads : act[u] = a /\ pc[u] \in {"exec", "succeed", "fail"}
        BY <3>1 DEF ApprovedIsInHand
      <4>2. u # t
        BY <2>2, <4>1 DEF Arrive, Request, Decide, SweepStart, Serve
      <4>. QED
        BY <2>2, <4>1, <4>2, OthersStay
    <3>2. CASE status[a] # "approved"
      <4>1. act'[t] = a /\ pc'[t] = "exec"
        BY <2>2, <3>2 DEF Arrive, Request, Decide, SweepStart, Serve, rows, TypeOK
      <4>. QED
        BY <4>1
    <3>. QED
      BY <3>1, <3>2
  <2>3. ASSUME NEW t \in Threads, Proceed(t)
        PROVE  ApprovedIsInHand'
    BY <2>3, ProceedInHand DEF ApprovedIsInHand
  <2>. QED
    BY <2>1, <2>2, <2>3 DEF Next, Die
<1>. QED
  BY <1>1, <1>2, TypeCorrect, PTL DEF Spec
=============================================================================
