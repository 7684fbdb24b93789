---------------------- MODULE ApprovalSequentialProofs ----------------------
(* Theorems about the gateway and its cards when no two handlers work on    *)
(* the same action at once: what a lock per action, or a server with one    *)
(* thread, would give to the code as it is. Handlers of different actions   *)
(* still interleave.                                                        *)
EXTENDS ApprovalCardsProofs

\* A thread has an action in hand from the arrival of a request about it to
\* the answer, and every row its sweep still has to expire.
Busy(t, a) == WorksOn(t, a) \/ a \in stale[t]

NoOverlap == \A a \in Actions : \A t, u \in Threads : Busy(t, a) /\ Busy(u, a) => t = u

-----------------------------------------------------------------------------
(* What a handler may rely on between two of its statements.               *)

\* The row is what the handler read or wrote last.
Holds(t) ==
  /\ pc[t] \in {"check", "approve", "reject"} =>
       seen[t].status = status[act[t]] /\ seen[t].count = count[act[t]]
  /\ pc[t] \in {"approve", "reject"} =>
       status[act[t]] \in {"pending", "confirming", "failed"}
  /\ pc[t] \in {"exec", "succeed", "fail"} => status[act[t]] = "approved"
  /\ pc[t] \in {"exec", "fail"} => successes[act[t]] = 0
  /\ pc[t] = "succeed" => successes[act[t]] = 1
  /\ pc[t] = "approval_requested" => status[act[t]] = "pending"
  /\ pc[t] = "approval_step" => status[act[t]] = "confirming"
  /\ pc[t] = "approval_rejected" => status[act[t]] = "rejected"
  /\ pc[t] = "action_executed" => status[act[t]] = "executed"
  /\ pc[t] # "sweep" => stale[t] = {}
  /\ \A a \in stale[t] : status[a] \in Open

\* A row says executed only after its one successful run, and a red row that
\* went on to its executor had its first approval before.
RowHolds(a) ==
  /\ status[a] \notin {"approved", "executed"} => successes[a] = 0
  /\ status[a] = "executed" => successes[a] = 1
  /\ successes[a] <= 1
  /\ risk[a] = "red" /\ status[a] \in {"approved", "failed"} => count[a] >= 1

SeqInv == (\A t \in Threads : Holds(t)) /\ (\A a \in Actions : RowHolds(a))

\* The lifecycle of a row when nobody else decides it meanwhile: a closed row,
\* a failed one included, never waits for an answer again.
Moves(a) ==
  \/ status'[a] = status[a]
  \/ status[a] = "none" /\ status'[a] \in {"pending", "approved"}
  \/ status[a] = "pending" /\
       status'[a] \in {"confirming", "approved", "rejected", "expired"}
  \/ status[a] \in {"confirming", "failed"} /\
       status'[a] \in {"approved", "rejected", "expired"}
  \/ status[a] = "approved" /\ status'[a] \in {"executed", "failed"}

LEMMA InitSeq == Init => SeqInv
  BY DEF Init, SeqInv, Holds, RowHolds

\* A thread writes the rows and the history of the actions it has in hand only.
LEMMA RowFrame ==
  ASSUME TypeOK, ActOK, NEW t \in Threads, Arrive(t) \/ Proceed(t) \/ Die(t),
         NEW a \in Actions, ~Busy(t, a), ~Busy(t, a)'
  PROVE  /\ status'[a] = status[a] /\ count'[a] = count[a]
         /\ successes'[a] = successes[a]
<1>1. CASE Arrive(t)
  BY <1>1 DEF Arrive, Request, Serve, Decide, SweepStart, Busy, WorksOn, TypeOK, rows, ghosts
<1>2. CASE Die(t)
  BY <1>2 DEF Die, Release, rows, ghosts
<1>3. CASE Load(t) \/ CheckRefuse(t) \/ CheckPass(t) \/ Record(t) \/ Reply(t)
  BY <1>3 DEF Load, CheckRefuse, CheckPass, Record, Reply, Release, rows, ghosts
<1>4. CASE CheckExpire(t) \/ SweepRow(t)
  BY <1>4 DEF CheckExpire, SweepRow, Busy, WorksOn, TypeOK, ghosts
<1>5. CASE GrantStep(t) \/ GrantFinal(t)
  BY <1>5 DEF GrantStep, GrantFinal, Grant, Busy, WorksOn, TypeOK
<1>6. CASE ExecuteReturns(t) \/ ExecuteRaises(t)
  BY <1>6 DEF ExecuteReturns, ExecuteRaises, Busy, WorksOn, TypeOK, rows
<1>7. CASE Reject(t) \/ FinishExecuted(t) \/ FinishFailed(t)
  BY <1>7 DEF Reject, FinishExecuted, FinishFailed, Settle, Busy, WorksOn, TypeOK, ghosts
<1>. QED
  BY <1>1, <1>2, <1>3, <1>4, <1>5, <1>6, <1>7 DEF Proceed, Work

\* What one thread relies on survives the steps of every other.
LEMMA OthersHold ==
  ASSUME TypeOK, ActOK, NoOverlap, NoOverlap', SeqInv,
         NEW t \in Threads, Arrive(t) \/ Proceed(t) \/ Die(t),
         NEW s \in Threads \ {t}
  PROVE  Holds(s)'
<1>1. /\ pc'[s] = pc[s] /\ act'[s] = act[s]
      /\ seen'[s] = seen[s] /\ stale'[s] = stale[s]
  BY OthersStay
<1>2. ASSUME NEW a \in Actions, Busy(s, a)
      PROVE  /\ status'[a] = status[a] /\ count'[a] = count[a]
             /\ successes'[a] = successes[a]
  <2>1. ~Busy(t, a)
    BY <1>2 DEF NoOverlap
  <2>2. Busy(s, a)'
    BY <1>1, <1>2 DEF Busy, WorksOn
  <2>3. ~Busy(t, a)'
    BY <2>2 DEF NoOverlap
  <2>. QED
    BY <2>1, <2>3, RowFrame
<1>3. Holds(s)
  BY DEF SeqInv
<1>4. \A a \in stale[s] : status'[a] = status[a]
  BY <1>2 DEF Busy, TypeOK
<1>5. CASE pc[s] \in {"idle", "sweep"}
  BY <1>1, <1>3, <1>4, <1>5 DEF Holds
<1>6. CASE pc[s] \notin {"idle", "sweep"}
  <2>1. act[s] \in Actions /\ Busy(s, act[s])
    BY <1>6 DEF ActOK, Busy, WorksOn
  <2>2. /\ status'[act[s]] = status[act[s]] /\ count'[act[s]] = count[act[s]]
        /\ successes'[act[s]] = successes[act[s]]
    BY <1>2, <2>1
  <2>. QED
    BY <1>1, <1>3, <1>4, <2>2 DEF Holds
<1>. QED
  BY <1>5, <1>6

-----------------------------------------------------------------------------
(* The thread that moves.                                                  *)

LEMMA ArriveHolds ==
  ASSUME TypeOK, ActOK, SeqInv, NEW t \in Threads, Arrive(t)
  PROVE  Holds(t)' /\ \A a \in Actions : RowHolds(a)' /\ Moves(a)
<1>0. Holds(t) /\ \A a \in Actions : RowHolds(a)
  BY DEF SeqInv
<1>1. ASSUME NEW a \in Actions, NEW u \in Caller, NEW level \in Risk, Request(t, a, u, level)
      PROVE  Holds(t)' /\ \A b \in Actions : RowHolds(b)' /\ Moves(b)
  <2>1. /\ pc[t] = "idle" /\ pc'[t] \in {"exec", "approval_requested"} /\ act'[t] = a
        /\ stale[t] = {} /\ stale' = stale /\ successes[a] = 0
        /\ pc'[t] = "exec" <=> level = "green"
    BY <1>0, <1>1 DEF Request, Serve, Holds, RowHolds, TypeOK
  <2>2. /\ status'[a] = (IF level = "green" THEN "approved" ELSE "pending")
        /\ risk'[a] = level /\ status[a] = "none" /\ successes' = successes /\ count' = count
        /\ \A b \in Actions \ {a} : status'[b] = status[b] /\ risk'[b] = risk[b]
    BY <1>1 DEF Request, TypeOK, ghosts
  <2>3. Holds(t)'
    BY <2>1, <2>2 DEF Holds
  <2>4. \A b \in Actions : RowHolds(b)' /\ Moves(b)
    BY <1>0, <2>1, <2>2 DEF RowHolds, Moves
  <2>. QED
    BY <2>3, <2>4
<1>2. ASSUME NEW a \in Actions, NEW u \in Caller, NEW o \in {"approve", "reject"},
             Decide(t, a, u, o)
      PROVE  Holds(t)' /\ \A b \in Actions : RowHolds(b)' /\ Moves(b)
  <2>1. /\ pc[t] = "idle" /\ pc'[t] = "load" /\ stale' = stale
        /\ UNCHANGED <<rows, ghosts>>
    BY <1>2 DEF Decide, Serve, TypeOK
  <2>. QED
    BY <1>0, <2>1 DEF Holds, RowHolds, Moves, rows, ghosts
<1>3. CASE SweepStart(t)
  <2>1. /\ pc'[t] = "sweep" /\ \A b \in stale'[t] : status[b] \in Open
        /\ UNCHANGED <<rows, ghosts>>
    BY <1>3 DEF SweepStart, Serve, TypeOK
  <2>. QED
    BY <1>0, <2>1 DEF Holds, RowHolds, Moves, rows, ghosts
<1>. QED
  BY <1>1, <1>2, <1>3 DEF Arrive

LEMMA ReleaseHolds ==
  ASSUME TypeOK, SeqInv, NEW t \in Threads, Release(t)
  PROVE  Holds(t)' /\ \A a \in Actions : RowHolds(a)' /\ Moves(a)
<1>1. /\ pc'[t] = "idle" /\ stale'[t] = {} /\ UNCHANGED <<rows, ghosts>>
  BY DEF Release, TypeOK
<1>. QED
  BY <1>1 DEF SeqInv, Holds, RowHolds, Moves, rows, ghosts

LEMMA ProceedHolds ==
  ASSUME TypeOK, ActOK, SeqInv, NEW t \in Threads, Proceed(t)
  PROVE  Holds(t)' /\ \A a \in Actions : RowHolds(a)' /\ Moves(a)
<1>0. Holds(t) /\ \A a \in Actions : RowHolds(a)
  BY DEF SeqInv
<1>1. CASE Load(t)
  <2>1. act[t] \in Actions
    BY <1>1 DEF Load, ActOK
  <2>2. /\ pc[t] = "load" /\ pc'[t] = "check" /\ act' = act /\ stale' = stale
        /\ seen'[t].status = status[act[t]] /\ seen'[t].count = count[act[t]]
        /\ UNCHANGED <<rows, ghosts>>
    BY <1>1 DEF Load, TypeOK
  <2>. QED
    BY <1>0, <2>1, <2>2 DEF Holds, RowHolds, Moves, rows, ghosts
<1>2. CASE CheckRefuse(t) \/ CheckPass(t)
  <2>1. /\ pc[t] = "check" /\ pc'[t] \in {"refused", "approve", "reject"}
        /\ pc'[t] # "refused" => ~Refused(t)
        /\ act[t] \in Actions /\ UNCHANGED <<rows, locals, ghosts>>
    BY <1>2 DEF CheckRefuse, CheckPass, TypeOK, ActOK
  <2>2. pc'[t] # "refused" => status[act[t]] \in {"pending", "confirming", "failed"}
    BY <1>0, <2>1 DEF Refused, Holds, TypeOK, Status, Open
  <2>. QED
    BY <1>0, <2>1, <2>2 DEF Holds, RowHolds, Moves, rows, locals, ghosts
<1>3. CASE CheckExpire(t)
  <2>1. /\ pc[t] = "check" /\ pc'[t] = "refused" /\ act[t] \in Actions
        /\ status' = [status EXCEPT ![act[t]] = "expired"]
        /\ UNCHANGED <<risk, count, locals, ghosts>>
    BY <1>3 DEF CheckExpire, TypeOK, ActOK
  <2>2. status[act[t]] \in {"pending", "confirming", "failed"}
    BY <1>0, <1>3, <2>1 DEF CheckExpire, Refused, Holds, TypeOK, Status, Open
  <2>3. Holds(t)'
    BY <1>0, <2>1 DEF Holds, locals
  <2>4. \A a \in Actions : RowHolds(a)' /\ Moves(a)
    BY <1>0, <2>1, <2>2 DEF RowHolds, Moves, TypeOK, ghosts
  <2>. QED
    BY <2>3, <2>4
<1>4. CASE GrantStep(t) \/ GrantFinal(t)
  <2>1. /\ pc[t] = "approve" /\ act[t] \in Actions
        /\ status[act[t]] \in {"pending", "confirming", "failed"}
        /\ seen[t].count = count[act[t]] /\ count[act[t]] \in Nat
        /\ count'[act[t]] = count[act[t]] + 1
        /\ \A a \in Actions \ {act[t]} : status'[a] = status[a] /\ count'[a] = count[a]
        /\ UNCHANGED <<risk, locals, successes>>
    BY <1>0, <1>4 DEF GrantStep, GrantFinal, Grant, Holds, TypeOK, ActOK
  <2>2. \/ /\ pc'[t] = "approval_step" /\ status'[act[t]] = "confirming"
           /\ count[act[t]] + 1 < Required(risk[act[t]])
        \/ /\ pc'[t] = "exec" /\ status'[act[t]] = "approved"
           /\ count[act[t]] + 1 >= Required(risk[act[t]])
    BY <1>4, <2>1 DEF GrantStep, GrantFinal, Grant, TypeOK
  <2>3. Holds(t)'
    BY <1>0, <2>1, <2>2 DEF Holds, RowHolds, locals
  <2>4. status[act[t]] = "failed" => status'[act[t]] = "approved"
    BY <1>0, <2>1, <2>2 DEF RowHolds, Required
  <2>5. ASSUME NEW a \in Actions, a = act[t]
        PROVE  RowHolds(a)' /\ Moves(a)
    BY <1>0, <2>1, <2>2, <2>4, <2>5 DEF RowHolds, Moves, Required
  <2>6. \A a \in Actions \ {act[t]} : RowHolds(a)' /\ Moves(a)
    BY <1>0, <2>1 DEF RowHolds, Moves
  <2>. QED
    BY <2>3, <2>5, <2>6
<1>5. CASE ExecuteReturns(t)
  <2>1. /\ pc[t] = "exec" /\ pc'[t] = "succeed" /\ act[t] \in Actions
        /\ successes'[act[t]] = successes[act[t]] + 1
        /\ \A a \in Actions \ {act[t]} : successes'[a] = successes[a]
        /\ UNCHANGED <<rows, locals>>
    BY <1>5 DEF ExecuteReturns, TypeOK, ActOK
  <2>2. status[act[t]] = "approved" /\ successes[act[t]] = 0
    BY <1>0, <2>1 DEF Holds
  <2>. QED
    BY <1>0, <2>1, <2>2 DEF Holds, RowHolds, Moves, rows, locals
<1>6. CASE ExecuteRaises(t)
  <2>1. /\ pc[t] = "exec" /\ pc'[t] = "fail" /\ UNCHANGED <<rows, locals, successes>>
    BY <1>6 DEF ExecuteRaises, TypeOK
  <2>. QED
    BY <1>0, <2>1 DEF Holds, RowHolds, Moves, rows, locals
<1>7. CASE Reject(t) \/ FinishExecuted(t) \/ FinishFailed(t)
  <2>1. /\ act[t] \in Actions /\ \A a \in Actions \ {act[t]} : status'[a] = status[a]
        /\ UNCHANGED <<risk, count, locals, ghosts>>
        /\ pc[t] \in {"reject", "succeed", "fail"} /\ stale[t] = {}
    BY <1>0, <1>7 DEF Reject, FinishExecuted, FinishFailed, Settle, TypeOK, ActOK, Holds
  <2>2. \/ /\ status[act[t]] \in {"pending", "confirming", "failed"}
           /\ pc'[t] = "approval_rejected" /\ status'[act[t]] = "rejected"
        \/ /\ status[act[t]] = "approved" /\ successes[act[t]] = 1
           /\ pc'[t] = "action_executed" /\ status'[act[t]] = "executed"
        \/ /\ status[act[t]] = "approved" /\ successes[act[t]] = 0
           /\ pc'[t] = "reply" /\ status'[act[t]] = "failed"
    BY <1>0, <1>7, <2>1 DEF Reject, FinishExecuted, FinishFailed, Settle, TypeOK, Holds
  <2>3. Holds(t)'
    BY <2>1, <2>2 DEF Holds, locals
  <2>4. ASSUME NEW a \in Actions, a = act[t]
        PROVE  RowHolds(a)' /\ Moves(a)
    BY <1>0, <2>1, <2>2, <2>4 DEF RowHolds, Moves, ghosts
  <2>5. \A a \in Actions \ {act[t]} : RowHolds(a)' /\ Moves(a)
    BY <1>0, <2>1 DEF RowHolds, Moves, ghosts
  <2>. QED
    BY <2>3, <2>4, <2>5
<1>8. CASE Record(t)
  <2>1. /\ pc[t] \in Event /\ pc'[t] = "reply" /\ UNCHANGED <<rows, locals, ghosts>>
    BY <1>8 DEF Record, TypeOK
  <2>. QED
    BY <1>0, <2>1 DEF Holds, RowHolds, Moves, Event, rows, locals, ghosts
<1>9. CASE SweepRow(t)
  <2>1. PICK b \in stale[t] : /\ status' = [status EXCEPT ![b] = "expired"]
                              /\ stale' = [stale EXCEPT ![t] = @ \ {b}]
    BY <1>9 DEF SweepRow
  <2>2. /\ pc'[t] = "sweep" /\ UNCHANGED <<risk, count, successes>>
        /\ b \in Actions /\ status[b] \in Open
    BY <1>0, <1>9, <2>1 DEF SweepRow, TypeOK, Holds, ghosts
  <2>3. Holds(t)'
    BY <1>0, <2>1, <2>2 DEF Holds, TypeOK
  <2>4. \A a \in Actions : RowHolds(a)' /\ Moves(a)
    BY <1>0, <2>1, <2>2 DEF RowHolds, Moves, TypeOK, Open
  <2>. QED
    BY <2>3, <2>4
<1>10. CASE Reply(t)
  BY <1>10, ReleaseHolds DEF Reply
<1>. QED
  BY <1>1, <1>2, <1>3, <1>4, <1>5, <1>6, <1>7, <1>8, <1>9, <1>10 DEF Proceed, Work

\* A step of any thread, under the hypothesis of this module.
LEMMA NextSeq ==
  ASSUME TypeOK, ActOK, NoOverlap, NoOverlap', SeqInv, [Next]_vars
  PROVE  SeqInv' /\ \A a \in Actions : Moves(a)
<1>1. CASE Tick \/ UNCHANGED vars
  BY <1>1 DEF Tick, vars, rows, locals, ghosts, SeqInv, Holds, RowHolds, Moves
<1>2. ASSUME NEW t \in Threads, Arrive(t) \/ Proceed(t) \/ Die(t)
      PROVE  SeqInv' /\ \A a \in Actions : Moves(a)
  <2>1. Holds(t)' /\ \A a \in Actions : RowHolds(a)' /\ Moves(a)
    BY <1>2, ArriveHolds, ProceedHolds, ReleaseHolds DEF Die
  <2>2. \A s \in Threads \ {t} : Holds(s)'
    BY <1>2, OthersHold
  <2>. QED
    BY <2>1, <2>2 DEF SeqInv
<1>. QED
  BY <1>1, <1>2 DEF Next

LEMMA SeqInvariant == Spec /\ []NoOverlap => []SeqInv
<1>1. TypeOK /\ ActOK /\ NoOverlap /\ NoOverlap' /\ SeqInv /\ [Next]_vars => SeqInv'
  BY NextSeq
<1>. QED
  BY <1>1, InitSeq, TypeCorrect, PTL DEF Spec

-----------------------------------------------------------------------------
(* What follows for the rows.                                              *)

\* A row moves only along the lifecycle of docs/APPROVALS.md: with one handler
\* per action no decision is computed from a status that has moved on.
THEOREM SequentialLifecycle == Spec /\ []NoOverlap => Lifecycle
<1>1. ASSUME NEW a \in Actions, Moves(a)
      PROVE  status'[a] # status[a] => <<status[a], status'[a]>> \in Transitions
  BY <1>1 DEF Moves, Transitions
<1>2. /\ TypeOK /\ ActOK /\ NoOverlap /\ NoOverlap' /\ SeqInv /\ [Next]_vars
      => [\A a \in Actions :
            status'[a] # status[a] => <<status[a], status'[a]>> \in Transitions]_vars
  BY <1>1, NextSeq
<1>. QED
  BY <1>2, SeqInvariant, TypeCorrect, PTL DEF Spec, Lifecycle

\* However often an action is decided, in turn, its executor succeeds once,
\* even where handlers break off between two statements of approve().
THEOREM SequentialRunsOnce == Spec /\ []NoOverlap => []RepeatedDecisionRunsOnce
<1>1. SeqInv => RepeatedDecisionRunsOnce
  BY DEF SeqInv, RowHolds, RepeatedDecisionRunsOnce
<1>. QED
  BY <1>1, SeqInvariant, PTL

\* At rest the row tells the truth about its executor: it says executed exactly
\* when the executor returned, and it returned once. _execute and approve() write
\* the outcome in the handler that ran it, so it takes a handler that is cut short
\* or an overlap to part them.
THEOREM SequentialOutcome ==
  ASSUME MayDie = FALSE
  PROVE  Spec /\ []NoOverlap => []OutcomeMatchesStatus
<1>1. SeqInv /\ ApprovedIsInHand => OutcomeMatchesStatus
  BY DEF OutcomeMatchesStatus, WorksOn, SeqInv, RowHolds, ApprovedIsInHand
<1>. QED
  BY <1>1, SeqInvariant, ApprovedStaysInHand, PTL

-----------------------------------------------------------------------------
(* What follows when no handler is cut short: the log tells everything.    *)

\* An event is in the log, or the statement that writes it comes next.
Told(a, e) == e \in events[a] \/ \E t \in Threads : act[t] = a /\ pc[t] = e

AllTold(a) ==
  /\ status[a] \in Open => Told(a, "approval_requested")
  /\ status[a] = "confirming" => Told(a, "approval_step")
  /\ status[a] = "rejected" => Told(a, "approval_rejected")
  /\ status[a] = "executed" => Told(a, "action_executed")

ToldInv == \A a \in Actions : AllTold(a)

LEMMA InitTold == Init => ToldInv
  BY DEF Init, ToldInv, AllTold, Open

\* A row whose status and log stay keeps the threads that have yet to write
\* there, unless the one that moves was one of them.
LEMMA ToldFrame ==
  ASSUME TypeOK, NEW t \in Threads, Arrive(t) \/ Proceed(t),
         NEW a \in Actions, AllTold(a),
         act[t] # a \/ pc[t] \notin Event,
         status'[a] = status[a], events'[a] = events[a]
  PROVE  AllTold(a)'
<1>1. ASSUME NEW u \in Threads, act[u] = a, pc[u] \in Event
      PROVE  pc'[u] = pc[u] /\ act'[u] = act[u]
  BY <1>1, OthersStay
<1>. QED
  BY <1>1 DEF AllTold, Told, Event

LEMMA ArriveTold ==
  ASSUME TypeOK, ActOK, SeqInv, ToldInv, NEW t \in Threads, Arrive(t), NEW a \in Actions
  PROVE  AllTold(a)'
<1>1. pc[t] = "idle" /\ AllTold(a)
  BY DEF Arrive, Request, Decide, SweepStart, Serve, ToldInv
<1>2. CASE status'[a] = status[a] /\ events'[a] = events[a]
  BY <1>1, <1>2, ToldFrame DEF Event
<1>3. ASSUME NEW u \in Caller, NEW level \in Risk, Request(t, a, u, level)
      PROVE  AllTold(a)'
  <2>1. /\ act'[t] = a
        /\ \/ pc'[t] = "exec" /\ status'[a] = "approved"
           \/ pc'[t] = "approval_requested" /\ status'[a] = "pending"
    BY <1>3 DEF Request, Serve, TypeOK
  <2>. QED
    BY <2>1 DEF AllTold, Told, Open
<1>. QED
  BY <1>2, <1>3 DEF Arrive, Request, Decide, SweepStart, rows, TypeOK

\* Nobody else has the action of the thread that moves in hand.
LEMMA Alone ==
  ASSUME NoOverlap, NEW t \in Threads, NEW a \in Actions, act[t] = a, pc[t] # "idle",
         NEW u \in Threads, act[u] = a, pc[u] # "idle"
  PROVE  u = t
  BY DEF NoOverlap, Busy, WorksOn

LEMMA ProceedTold ==
  ASSUME TypeOK, ActOK, NoOverlap, SeqInv, ToldInv, NEW t \in Threads, Proceed(t),
         NEW a \in Actions
  PROVE  AllTold(a)'
<1>0. AllTold(a) /\ Holds(t) /\ RowHolds(a)
  BY DEF ToldInv, SeqInv
<1>1. CASE Load(t) \/ CheckRefuse(t) \/ CheckPass(t) \/ Reply(t)
  <2>1. pc[t] \notin Event /\ UNCHANGED <<rows, events>>
    BY <1>1 DEF Load, CheckRefuse, CheckPass, Reply, Release, Event
  <2>. QED
    BY <1>0, <1>1, <2>1, ToldFrame DEF rows
<1>2. CASE CheckExpire(t) \/ SweepRow(t)
  <2>1. /\ pc[t] \in {"check", "sweep"} /\ events' = events
        /\ status'[a] \in {status[a], "expired"}
    BY <1>2 DEF CheckExpire, SweepRow, TypeOK
  <2>2. CASE status'[a] = status[a]
    BY <1>0, <1>2, <2>1, <2>2, ToldFrame DEF Event
  <2>3. CASE status'[a] = "expired"
    BY <2>3 DEF AllTold, Open
  <2>. QED
    BY <2>1, <2>2, <2>3
<1>3. CASE /\ act[t] # a
           /\ \/ GrantStep(t) \/ GrantFinal(t) \/ Reject(t) \/ ExecuteReturns(t)
              \/ ExecuteRaises(t) \/ FinishExecuted(t) \/ FinishFailed(t) \/ Record(t)
  <2>1. status'[a] = status[a] /\ events'[a] = events[a]
    BY <1>3 DEF GrantStep, GrantFinal, Grant, Reject, ExecuteReturns, ExecuteRaises,
       FinishExecuted, FinishFailed, Settle, Record, TypeOK, rows
  <2>. QED
    BY <1>0, <1>3, <2>1, ToldFrame
<1>4. CASE act[t] = a /\ (GrantStep(t) \/ GrantFinal(t))
  <2>1. /\ pc[t] = "approve" /\ act'[t] = a /\ events' = events
        /\ \/ pc'[t] = "approval_step" /\ status'[a] = "confirming"
              /\ count[a] + 1 < Required(risk[a])
           \/ pc'[t] = "exec" /\ status'[a] = "approved"
    BY <1>0, <1>4 DEF GrantStep, GrantFinal, Grant, TypeOK, locals, Holds
  <2>2. pc'[t] = "approval_step" => status[a] \in Open
    BY <1>0, <1>4, <2>1 DEF Holds, RowHolds, Required, Open, TypeOK
  <2>3. pc'[t] = "approval_step" => "approval_requested" \in events[a]
    BY <1>0, <1>4, <2>1, <2>2, Alone DEF AllTold, Told
  <2>. QED
    BY <2>1, <2>3 DEF AllTold, Told, Open
<1>5. CASE act[t] = a /\ (ExecuteReturns(t) \/ ExecuteRaises(t))
  <2>1. act'[t] = a /\ pc'[t] \in {"succeed", "fail"} /\ status'[a] = "approved"
    BY <1>0, <1>5 DEF ExecuteReturns, ExecuteRaises, TypeOK, locals, rows, Holds
  <2>. QED
    BY <2>1 DEF AllTold, Open
<1>6. CASE act[t] = a /\ (Reject(t) \/ FinishExecuted(t) \/ FinishFailed(t))
  <2>1. /\ act'[t] = a
        /\ \/ pc'[t] = "approval_rejected" /\ status'[a] = "rejected"
           \/ pc'[t] = "action_executed" /\ status'[a] = "executed"
           \/ status'[a] = "failed"
    BY <1>6 DEF Reject, FinishExecuted, FinishFailed, Settle, TypeOK, locals
  <2>. QED
    BY <2>1 DEF AllTold, Told, Open
<1>7. CASE act[t] = a /\ Record(t)
  <2>1. /\ pc[t] \in Event /\ status' = status
        /\ events'[a] = events[a] \cup {pc[t]}
    BY <1>7 DEF Record, TypeOK, rows
  <2>2. ASSUME NEW e \in Event, Told(a, e)
        PROVE  e \in events'[a]
    BY <1>7, <2>1, <2>2, Alone DEF Told, Event
  <2>. QED
    BY <1>0, <2>1, <2>2 DEF AllTold, Told, Event
<1>. QED
  BY <1>1, <1>2, <1>3, <1>4, <1>5, <1>6, <1>7 DEF Proceed, Work

LEMMA ToldInvariant ==
  ASSUME MayDie = FALSE
  PROVE  Spec /\ []NoOverlap => []ToldInv
<1>1. /\ TypeOK /\ ActOK /\ NoOverlap /\ SeqInv /\ ToldInv /\ [Next]_vars
      => ToldInv'
  <2> SUFFICES ASSUME TypeOK, ActOK, NoOverlap, SeqInv, ToldInv, [Next]_vars
               PROVE  ToldInv'
    OBVIOUS
  <2>1. CASE Tick \/ UNCHANGED vars
    BY <2>1 DEF Tick, vars, rows, locals, ToldInv, AllTold, Told
  <2>2. ASSUME NEW t \in Threads, Arrive(t) \/ Proceed(t)
        PROVE  ToldInv'
    BY <2>2, ArriveTold, ProceedTold DEF ToldInv
  <2>. QED
    BY <2>1, <2>2 DEF Next, Die
<1>. QED
  BY <1>1, InitTold, SeqInvariant, TypeCorrect, PTL DEF Spec

\* At rest the event log tells every request, step, rejection and run of an
\* action, although each is recorded by a statement of its own after the row.
THEOREM SequentialAudit ==
  ASSUME MayDie = FALSE
  PROVE  Spec /\ []NoOverlap => []AuditIsComplete
<1>1. ToldInv => AuditIsComplete
  BY DEF AuditIsComplete, WorksOn, ToldInv, AllTold, Told
<1>. QED
  BY <1>1, ToldInvariant, PTL

-----------------------------------------------------------------------------
(* The cards: a keyboard is removed only once its action is decided.       *)

\* A card is in the chat of the one who asked for the action, so the presses on
\* it are theirs: request_action's callers pass the chat of requested_by.
OwnPresses == \A p \in updates : requester[p.act] \in {NoUser, p.user}

\* What a press and its handler may rely on.
PressHolds(t) ==
  /\ pc[t] = "reply" => status[act[t]] # "none"
  /\ press[t] = NoPress => shown[t] = "none"
  /\ press[t] # NoPress =>
       /\ pc[t] \notin {"idle", "sweep", "approval_requested"}
       /\ status[act[t]] # "none"
       /\ requester[act[t]] \in {NoUser, who[t]}
       /\ pc[t] = "refused" => status[act[t]] \notin Open
       /\ pc[t] = "reply" => status[act[t]] # "pending"
       /\ shown[t] # "none" =>
            pc[t] \in {"reply", "refused"} /\ shown[t] = status[act[t]]

ChatHolds ==
  /\ \A a \in Actions : card[a] # "none" => status[a] # "none"
  /\ \A a \in Actions : card[a] = "plain" => status[a] \notin Open
  /\ \A p \in updates : status[p.act] # "none"

PressInv == ChatHolds /\ \A t \in Threads : PressHolds(t)

\* The handlers of the presses, the gateway's own facts included.
CardsFacts == BaseInv /\ CardsTypes /\ SeqInv

LEMMA InitPress == CardsInit => PressInv
  BY DEF CardsInit, Init, PressInv, ChatHolds, PressHolds

\* A row that is closed stays closed, and a row that exists stays.
LEMMA ClosedStays ==
  ASSUME NEW a \in Actions, Moves(a), status[a] \notin Open, status[a] # "none"
  PROVE  status'[a] \notin Open /\ status'[a] # "none"
  BY DEF Moves, Open

\* What the chat relies on of a row survives every step of the gateway.
LEMMA ChatStays ==
  ASSUME CardsTypes, ChatHolds, \A a \in Actions : Moves(a),
         \A a \in Actions : status[a] # "none" => status'[a] # "none"
  PROVE  /\ \A a \in Actions : card[a] # "none" => status'[a] # "none"
         /\ \A a \in Actions : card[a] = "plain" => status'[a] \notin Open
         /\ \A p \in updates : status'[p.act] # "none"
<1>1. \A p \in updates : p.act \in Actions
  BY DEF CardsTypes, CardsTypeOK, Press
<1>. QED
  BY <1>1, ClosedStays DEF ChatHolds

\* The facts of a thread survive the steps of every other.
LEMMA OthersPress ==
  ASSUME TypeOK, ActOK, NoOverlap, NoOverlap',
         NEW t \in Threads, Arrive(t) \/ Proceed(t) \/ Die(t),
         [Next]_vars, NEW s \in Threads \ {t}, PressHolds(s),
         press'[s] = press[s], shown'[s] = shown[s]
  PROVE  PressHolds(s)'
<1>1. pc'[s] = pc[s] /\ act'[s] = act[s] /\ who'[s] = who[s]
  BY OthersStay
<1>2. CASE pc[s] \in {"idle", "sweep"}
  BY <1>1, <1>2 DEF PressHolds
<1>3. CASE pc[s] \notin {"idle", "sweep"}
  <2>1. act[s] \in Actions /\ Busy(s, act[s]) /\ Busy(s, act[s])'
    BY <1>1, <1>3 DEF ActOK, Busy, WorksOn
  <2>2. PICK a \in Actions : a = act[s]
    BY <2>1
  <2>3. ~Busy(t, a) /\ ~Busy(t, a)'
    BY <1>1, <2>1, <2>2 DEF NoOverlap, Busy, WorksOn
  <2>4. status'[a] = status[a] /\ (status[a] # "none" => requester'[a] = requester[a])
    BY <2>3, RowFrame, RowsStay
  <2>. QED
    BY <1>1, <2>2, <2>4 DEF PressHolds
<1>. QED
  BY <1>2, <1>3

\* The handler of a press, up to its answer: _load_open never refuses it as a
\* stranger's.
LEMMA WorkPress ==
  ASSUME CardsFacts, NEW t \in Threads, Work(t), PressHolds(t),
         press'[t] = press[t], shown'[t] = shown[t],
         \A a \in Actions : Moves(a),
         \A a \in Actions : status[a] # "none" =>
           status'[a] # "none" /\ requester'[a] = requester[a]
  PROVE  PressHolds(t)'
<1>0. Holds(t) /\ TypeOK /\ ActOK
  BY DEF CardsFacts, CardsTypes, SeqInv
<1>1. /\ pc[t] \notin {"idle", "reply", "refused"} /\ act' = act /\ who' = who
  BY DEF Work, Load, CheckRefuse, CheckExpire, CheckPass, GrantStep, GrantFinal, Grant,
     Reject, ExecuteReturns, ExecuteRaises, FinishExecuted, FinishFailed, Settle, Record,
     SweepRow, Event, locals
<1>2. press[t] # NoPress => shown[t] = "none" /\ shown'[t] = "none" /\ act[t] \in Actions
  BY <1>0, <1>1 DEF PressHolds, ActOK
<1>3. CASE pc[t] = "check"
  <2>1. /\ pc'[t] \in {"refused", "approve", "reject"}
        /\ pc'[t] = "refused" => Refused(t) \/ status'[act[t]] = "expired"
        /\ Refused(t) => status' = status
    BY <1>0, <1>3 DEF Work, Load, CheckRefuse, CheckExpire, CheckPass, GrantStep, GrantFinal,
       Reject, ExecuteReturns, ExecuteRaises, FinishExecuted, FinishFailed, Record,
       SweepRow, Event, TypeOK, ActOK, rows
  <2>2. press[t] # NoPress => ~Foreign(t)
    BY DEF Foreign, PressHolds
  <2>3. press[t] # NoPress /\ pc'[t] = "refused" => status'[act[t]] \notin Open
    BY <1>0, <1>3, <2>1, <2>2 DEF Refused, Holds, PressHolds, Open
  <2>. QED
    BY <1>1, <1>2, <2>1, <2>3 DEF PressHolds
<1>4. CASE pc[t] # "check"
  <2>1. pc'[t] \notin {"idle", "refused", "approval_requested"}
        /\ (pc'[t] = "sweep" => pc[t] = "sweep")
    BY <1>0, <1>4 DEF Work, Load, CheckRefuse, CheckExpire, CheckPass, GrantStep, GrantFinal,
       Grant, Reject, ExecuteReturns, ExecuteRaises, FinishExecuted, FinishFailed, Settle,
       Record, SweepRow, Event, TypeOK
  <2>2. pc'[t] = "reply" =>
          /\ status'[act[t]] \in {"pending", "confirming", "rejected", "executed", "failed"}
          /\ pc[t] # "approval_requested" => status'[act[t]] # "pending"
    BY <1>0, <1>4 DEF Work, Load, CheckRefuse, CheckExpire, CheckPass, GrantStep, GrantFinal,
       Grant, Reject, ExecuteReturns, ExecuteRaises, FinishExecuted, FinishFailed, Settle,
       Record, SweepRow, Event, TypeOK, ActOK, Holds, rows
  <2>. QED
    BY <1>1, <1>2, <2>1, <2>2 DEF PressHolds
<1>. QED
  BY <1>3, <1>4

LEMMA NextPress ==
  ASSUME CardsFacts, NoOverlap, NoOverlap', OwnPresses, PressInv, [CardsNext]_<<vars, cardVars>>
  PROVE  PressInv'
<1>0. TypeOK /\ ActOK /\ CardsTypeOK /\ [Next]_vars
  BY CardsStepIsGatewayStep DEF CardsFacts, CardsTypes
<1>1. /\ \A a \in Actions : Moves(a)
      /\ \A a \in Actions : status[a] # "none" =>
           status'[a] # "none" /\ requester'[a] = requester[a]
  BY <1>0, NextSeq, RowsStay DEF CardsFacts
<1>2. /\ \A a \in Actions : card[a] # "none" => status'[a] # "none"
      /\ \A a \in Actions : card[a] = "plain" => status'[a] \notin Open
      /\ \A p \in updates : status'[p.act] # "none"
  BY <1>1, ChatStays DEF CardsFacts, PressInv
<1>3. ASSUME UNCHANGED <<pc, act, who, status, requester, press, shown>>
      PROVE  \A t \in Threads : PressHolds(t)'
  BY <1>3 DEF PressInv, PressHolds
<1>4. ASSUME NEW t \in Threads, Arrive(t) \/ Proceed(t) \/ Die(t),
             \A s \in Threads \ {t} : press'[s] = press[s] /\ shown'[s] = shown[s]
      PROVE  \A s \in Threads \ {t} : PressHolds(s)'
  BY <1>0, <1>4, OthersPress DEF PressInv
<1>5. ASSUME NEW a \in Actions, NEW u \in Pressers, NEW kind \in {"ok", "ok2", "no"},
             PressButton(a, kind, u)
      PROVE  PressInv'
  <2>1. card[a] # "none" /\ card' = card
    BY <1>5 DEF PressButton, Buttons
  <2>2. \A p \in updates' : p \in updates \/ p.act = a
    BY <1>5 DEF PressButton
  <2>3. UNCHANGED <<pc, act, who, status, requester, press, shown>>
    BY <1>5 DEF PressButton, vars, rows, locals
  <2>. QED
    BY <1>2, <1>3, <2>1, <2>2, <2>3 DEF PressInv, ChatHolds
<1>6. ASSUME NEW t \in Threads, NEW p \in updates, Deliver(t, p)
      PROVE  PressInv'
  <2>1. /\ p.act \in Actions /\ p.user \in Pressers /\ p.user \in Caller
        /\ Operation(p.kind) \in {"approve", "reject"}
    BY <1>0, CardsAssumption DEF CardsTypeOK, Press, Operation
  <2>2. Arrive(t)
    BY <1>6, <2>1 DEF Deliver, Arrive
  <2>3. /\ pc[t] = "idle" /\ pc'[t] = "load" /\ act'[t] = p.act /\ who'[t] = p.user
        /\ status' = status /\ requester' = requester /\ press'[t] = p /\ shown' = shown
    BY <1>0, <1>6 DEF Deliver, Decide, Serve, TypeOK, CardsTypeOK, rows
  <2>4. \A s \in Threads \ {t} : press'[s] = press[s]
    BY <1>0, <1>6 DEF Deliver, CardsTypeOK
  <2>5. shown[t] = "none"
    BY <2>3 DEF PressInv, PressHolds
  <2>6. PressHolds(t)'
    BY <2>1, <2>3, <2>5 DEF PressHolds, PressInv, ChatHolds, OwnPresses
  <2>7. \A s \in Threads \ {t} : PressHolds(s)'
    BY <1>4, <2>2, <2>3, <2>4
  <2>. QED
    BY <1>2, <1>6, <2>6, <2>7 DEF Deliver, PressInv, ChatHolds
<1>7. ASSUME NEW t \in Threads, Elsewhere(t)
      PROVE  PressInv'
  <2>1. UNCHANGED cardVars /\ (Arrive(t) \/ Work(t))
    BY <1>7 DEF Elsewhere, Arrive
  <2>2. ASSUME Arrive(t) PROVE PressHolds(t)'
    <3>1. pc[t] = "idle" /\ pc'[t] \notin {"idle", "reply", "refused"}
      BY <1>0, <2>2 DEF Arrive, Request, Decide, SweepStart, Serve, TypeOK
    <3>. QED
      BY <2>1, <3>1 DEF PressInv, PressHolds, cardVars
  <2>3. ASSUME Work(t) PROVE PressHolds(t)'
    BY <1>1, <2>1, <2>3, WorkPress DEF PressInv, cardVars
  <2>4. PressHolds(t)'
    BY <2>1, <2>2, <2>3
  <2>5. \A s \in Threads \ {t} : PressHolds(s)'
    BY <1>4, <2>1 DEF Proceed, cardVars
  <2>. QED
    BY <1>2, <2>1, <2>4, <2>5 DEF PressInv, ChatHolds, cardVars
<1>8. ASSUME NEW t \in Threads, Release(t), Proceed(t) \/ Die(t),
             press'[t] = NoPress, shown'[t] = "none",
             \A s \in Threads \ {t} : press'[s] = press[s] /\ shown'[s] = shown[s]
      PROVE  \A s \in Threads : PressHolds(s)'
  <2>1. pc'[t] = "idle"
    BY <1>0, <1>8 DEF Release, TypeOK
  <2>2. PressHolds(t)'
    BY <1>8, <2>1 DEF PressHolds
  <2>. QED
    BY <1>4, <1>8, <2>2
<1>9. ASSUME NEW t \in Threads, SendCard(t) \/ AnswerCaller(t)
      PROVE  PressInv'
  <2>1. /\ Release(t) /\ Proceed(t) /\ press[t] = NoPress
        /\ UNCHANGED <<updates, press, shown>>
    BY <1>9 DEF SendCard, AnswerCaller, Reply, Proceed, cardVars
  <2>2. \A s \in Threads : PressHolds(s)'
    BY <1>8, <2>1 DEF PressInv, PressHolds
  <2>3. \A a \in Actions : card'[a] = card[a] \/ (card'[a] = "ask" /\ status[a] # "none")
    BY <1>0, <1>9 DEF SendCard, AnswerCaller, Asks, cardVars, CardsTypeOK, PressInv, PressHolds
  <2>. QED
    BY <1>1, <1>2, <2>1, <2>2, <2>3 DEF PressInv, ChatHolds
<1>10. ASSUME NEW t \in Threads, ReadBack(t)
       PROVE  PressInv'
  <2>1. /\ UNCHANGED <<pc, act, who, status, requester, press, card, updates>> /\ press[t] # NoPress
        /\ pc[t] \in {"reply", "refused"}
        /\ shown'[t] = status[act[t]] /\ \A s \in Threads \ {t} : shown'[s] = shown[s]
    BY <1>0, <1>10 DEF ReadBack, CardsTypeOK, vars, rows, locals
  <2>2. \A s \in Threads : PressHolds(s)'
    BY <2>1 DEF PressInv, PressHolds
  <2>. QED
    BY <1>2, <2>1, <2>2 DEF PressInv, ChatHolds
<1>11. ASSUME NEW t \in Threads, EditCard(t)
       PROVE  PressInv'
  <2>1. /\ Release(t) /\ Proceed(t) /\ press[t] # NoPress /\ shown[t] # "none"
        /\ press'[t] = NoPress /\ shown'[t] = "none" /\ updates' \subseteq updates
        /\ \A s \in Threads \ {t} : press'[s] = press[s] /\ shown'[s] = shown[s]
        /\ status' = status
    BY <1>0, <1>11 DEF EditCard, Reply, Proceed, Release, rows, CardsTypeOK
  <2>2. \A s \in Threads : PressHolds(s)'
    BY <1>8, <2>1
  <2>3. /\ status[act[t]] # "none"
        /\ Keyboard(t) = "plain" => status[act[t]] \notin Open
    BY <2>1 DEF PressInv, PressHolds, Keyboard, Open
  <2>4. \A a \in Actions : card'[a] = card[a] \/ (a = act[t] /\ card'[a] = Keyboard(t))
    BY <1>0, <1>11 DEF EditCard, CardsTypeOK
  <2>. QED
    BY <1>2, <2>1, <2>2, <2>3, <2>4 DEF PressInv, ChatHolds
<1>12. ASSUME NEW t \in Threads, CutShort(t)
       PROVE  PressInv'
  <2>1. /\ Release(t) /\ Die(t) /\ card' = card
        /\ press'[t] = NoPress /\ shown'[t] = "none" /\ updates' \subseteq updates
        /\ \A s \in Threads \ {t} : press'[s] = press[s] /\ shown'[s] = shown[s]
    BY <1>0, <1>12 DEF CutShort, Die, CardsTypeOK
  <2>2. \A s \in Threads : PressHolds(s)'
    BY <1>8, <2>1
  <2>. QED
    BY <1>2, <2>1, <2>2 DEF PressInv, ChatHolds
<1>13. CASE Startup \/ (Tick /\ UNCHANGED cardVars) \/ UNCHANGED <<vars, cardVars>>
  <2>1. /\ UNCHANGED <<pc, act, who, status, requester, press, shown, card>>
        /\ updates' \subseteq updates
    BY <1>13 DEF Startup, Tick, vars, rows, locals, cardVars
  <2>. QED
    BY <1>2, <1>3, <2>1 DEF PressInv, ChatHolds
<1>. QED
  BY <1>5, <1>6, <1>7, <1>9, <1>10, <1>11, <1>12, <1>13 DEF CardsNext

\* A card loses its buttons only once its action is decided: what handle_callback
\* reads back for the edit is still true when the edit is sent, and a decided
\* action never waits for an answer again. A stranger's press would be refused
\* and would take the buttons from the one who has to answer.
THEOREM SequentialCards ==
  CardsSpec /\ []NoOverlap /\ []OwnPresses => []PlainCardIsDecided
<1>1. /\ CardsFacts /\ NoOverlap /\ NoOverlap' /\ OwnPresses /\ PressInv
      /\ [CardsNext]_<<vars, cardVars>>
      => PressInv'
  BY NextPress
<1>2. BaseInv /\ CardsTypes /\ SeqInv => CardsFacts
  BY DEF CardsFacts
<1>3. PaidForInv => BaseInv
  BY DEF PaidForInv
<1>4. PressInv => PlainCardIsDecided
  BY DEF PressInv, ChatHolds, PlainCardIsDecided
<1>. QED
  BY <1>1, <1>2, <1>3, <1>4, InitPress, CardsTypesInvariant, CardsImplementGateway,
     PaidForInvariant, SeqInvariant, PTL DEF CardsSpec

\* A decision pressed twice on a card runs its action once.
THEOREM SequentialPresses == CardsSpec /\ []NoOverlap => []RepeatedDecisionRunsOnce
  BY CardsImplementGateway, SequentialRunsOnce, PTL
=============================================================================
