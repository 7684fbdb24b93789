------------------------- MODULE ApprovalCardsProofs -------------------------
(* Theorems about the approval cards: what the chat adds to the gateway     *)
(* takes nothing away from it, and where the final button can come from.    *)
EXTENDS ApprovalCards, ApprovalGatewayProofs

-----------------------------------------------------------------------------
(* The cards drive the gateway.                                            *)

\* Whatever a handler of a press or a caller does, the gateway did a step too.
LEMMA CardsStepIsGatewayStep ==
  ASSUME CardsTypeOK, [CardsNext]_<<vars, cardVars>>
  PROVE  [Next]_vars
<1>1. ASSUME NEW t \in Threads, NEW p \in updates, Deliver(t, p)
      PROVE  Next
  <2>1. p.act \in Actions /\ p.user \in Caller
    BY CardsAssumption DEF CardsTypeOK, Press
  <2>2. Operation(p.kind) \in {"approve", "reject"}
    BY DEF Operation
  <2>. QED
    BY <1>1, <2>1, <2>2 DEF Deliver, Next, Arrive
<1>2. ASSUME NEW t \in Threads, Elsewhere(t)
      PROVE  Next
  BY <1>2 DEF Elsewhere, Next, Arrive, Proceed
<1>3. ASSUME NEW t \in Threads,
             SendCard(t) \/ AnswerCaller(t) \/ EditCard(t) \/ CutShort(t)
      PROVE  Next
  BY <1>3 DEF SendCard, AnswerCaller, EditCard, CutShort, Next, Proceed
<1>4. ASSUME NEW t \in Threads, ReadBack(t)
      PROVE  UNCHANGED vars
  BY <1>4 DEF ReadBack
<1>5. ASSUME NEW a \in Actions, NEW u \in Pressers, NEW kind \in {"ok", "ok2", "no"},
             PressButton(a, kind, u)
      PROVE  UNCHANGED vars
  BY <1>5 DEF PressButton
<1>6. CASE Startup \/ UNCHANGED <<vars, cardVars>>
  BY <1>6 DEF Startup
<1>7. CASE Tick /\ UNCHANGED cardVars
  BY <1>7 DEF Next
<1>. QED
  BY <1>1, <1>2, <1>3, <1>4, <1>5, <1>6, <1>7 DEF CardsNext

-----------------------------------------------------------------------------
(* Types.                                                                  *)

CardsTypes == TypeOK /\ ActOK /\ CardsTypeOK

LEMMA InitCardsTypes == CardsInit => CardsTypes
  BY InitTypeOK, CardsAssumption
  DEF CardsInit, CardsTypes, CardsTypeOK, Card, Status

\* A button that can be pressed yields an update of the right shape.
LEMMA PressButtonTypes ==
  ASSUME CardsTypes, NEW a \in Actions, NEW u \in Pressers,
         NEW kind \in {"ok", "ok2", "no"}, PressButton(a, kind, u)
  PROVE  CardsTypeOK'
<1>1. pressed' \in 1 .. MaxPresses
  BY CardsAssumption DEF PressButton, CardsTypes, CardsTypeOK
<1>2. [id |-> pressed', act |-> a, kind |-> kind, user |-> u] \in Press
  BY <1>1 DEF Press
<1>. QED
  BY <1>1, <1>2 DEF PressButton, CardsTypes, CardsTypeOK

LEMMA NextCardsTypes ==
  CardsTypes /\ [CardsNext]_<<vars, cardVars>> => CardsTypes'
<1> SUFFICES ASSUME CardsTypes, [CardsNext]_<<vars, cardVars>>
             PROVE  CardsTypes'
  OBVIOUS
<1>0. TypeOK' /\ ActOK'
  BY CardsStepIsGatewayStep, NextTypeOK DEF CardsTypes
<1>1. CASE \E a \in Actions, u \in Pressers, kind \in {"ok", "ok2", "no"} :
             PressButton(a, kind, u)
  BY <1>0, <1>1, PressButtonTypes DEF CardsTypes
<1>2. ASSUME NEW t \in Threads, NEW p \in updates, Deliver(t, p)
      PROVE  CardsTypeOK'
  BY <1>2 DEF Deliver, CardsTypes, CardsTypeOK
<1>3. ASSUME NEW t \in Threads, SendCard(t)
      PROVE  CardsTypeOK'
  <2>1. card' \in [Actions -> Card]
    BY <1>3 DEF SendCard, Card, CardsTypes, CardsTypeOK
  <2>. QED
    BY <1>3, <2>1 DEF SendCard, CardsTypes, CardsTypeOK
<1>4. ASSUME NEW t \in Threads, EditCard(t)
      PROVE  CardsTypeOK'
  <2>1. Keyboard(t) \in Card
    BY DEF Keyboard, Card
  <2>2. card' \in [Actions -> Card]
    BY <1>4, <2>1 DEF EditCard, CardsTypes, CardsTypeOK
  <2>3. "none" \in Status
    BY DEF Status
  <2>. QED
    BY <1>4, <2>2, <2>3 DEF EditCard, CardsTypes, CardsTypeOK
<1>5. ASSUME NEW t \in Threads, ReadBack(t)
      PROVE  CardsTypeOK'
  <2>1. act[t] \in Actions
    BY <1>5 DEF ReadBack, CardsTypes, ActOK
  <2>2. status[act[t]] \in Status
    BY <2>1 DEF CardsTypes, TypeOK
  <2>. QED
    BY <1>5, <2>2 DEF ReadBack, CardsTypes, CardsTypeOK
<1>6. ASSUME NEW t \in Threads, CutShort(t)
      PROVE  CardsTypeOK'
  <2>1. updates' \subseteq Press /\ "none" \in Status
    BY <1>6 DEF CutShort, CardsTypes, CardsTypeOK, Status
  <2>. QED
    BY <1>6, <2>1 DEF CutShort, CardsTypes, CardsTypeOK
<1>7. CASE \/ \E t \in Threads : Elsewhere(t) \/ AnswerCaller(t)
           \/ Startup \/ (Tick /\ UNCHANGED cardVars) \/ UNCHANGED <<vars, cardVars>>
  BY <1>0, <1>7 DEF Elsewhere, AnswerCaller, Startup, cardVars, CardsTypes, CardsTypeOK
<1>. QED
  BY <1>0, <1>1, <1>2, <1>3, <1>4, <1>5, <1>6, <1>7 DEF CardsNext, CardsTypes

LEMMA CardsTypesInvariant == CardsSpec => []CardsTypes
  BY InitCardsTypes, NextCardsTypes, PTL DEF CardsSpec

\* The state of the chat keeps its types: a card carries one of the keyboards
\* of build_keyboard and every update names a button of one.
THEOREM CardsTypeCorrect == CardsSpec => []CardsTypeOK
<1>1. CardsTypes => CardsTypeOK
  BY DEF CardsTypes
<1>. QED
  BY <1>1, CardsTypesInvariant, PTL

\* The cards implement the gateway: redelivered presses, lost edits and dropped
\* updates only ever make the gateway take steps of its own.
THEOREM CardsImplementGateway == CardsSpec => Spec
<1>1. CardsInit => Init
  BY DEF CardsInit
<1>2. CardsTypes /\ [CardsNext]_<<vars, cardVars>> => [Next]_vars
  BY CardsStepIsGatewayStep DEF CardsTypes
<1>. QED
  BY <1>1, <1>2, CardsTypesInvariant, PTL DEF CardsSpec, Spec

\* Under the cards too, no action is felt beyond the approvals it was given,
\* however often Telegram delivers a press.
THEOREM PressesKeepTheGate == CardsSpec => KeepsTheGate /\ []RunsArePaidFor
  BY CardsImplementGateway, GatewayImplementsGate, EveryRunIsPaidFor, PTL

-----------------------------------------------------------------------------
(* The final button.                                                       *)

\* A row with its first approval of two: once so, always so.
Earned(a) == status[a] # "none" /\ risk[a] = "red" /\ granted[a] > 0

\* Only a row that earned it is ever read as confirming, by anyone, and only
\* such a read puts the final button on a card.
FinalInv ==
  /\ \A a \in Actions :
       status[a] = "confirming" \/ card[a] = "confirm" \/ a \in finals => Earned(a)
  /\ \A t \in Threads :
       shown[t] = "confirming" =>
         pc[t] \in {"reply", "refused"} /\ press[t] # NoPress /\ Earned(act[t])

LEMMA EarnedStays ==
  ASSUME TypeOK, ActOK, [Next]_vars, NEW a \in Actions, Earned(a)
  PROVE  Earned(a)'
<1>1. status'[a] # "none" /\ risk'[a] = risk[a]
  BY RowsStay DEF Earned
<1>2. granted'[a] >= granted[a] /\ granted[a] \in Nat /\ granted'[a] \in Nat
  BY GrantedGrows, NextTypeOK DEF TypeOK
<1>. QED
  BY <1>1, <1>2 DEF Earned

\* The only step that makes a row confirming is the first approval of a red one.
LEMMA ConfirmingIsEarned ==
  ASSUME BaseInv, [Next]_vars, NEW a \in Actions,
         status'[a] = "confirming", status[a] # "confirming"
  PROVE  Earned(a)'
<1>1. PICK t \in Threads : GrantStep(t)
  <2>1. ASSUME NEW t \in Threads, Arrive(t) \/ Die(t)
        PROVE  FALSE
    BY <2>1 DEF Arrive, Request, Decide, SweepStart, Die, Release, rows, BaseInv, TypeOK
  <2>2. ASSUME NEW t \in Threads, Proceed(t), ~GrantStep(t)
        PROVE  FALSE
    <3>1. CASE Load(t) \/ CheckRefuse(t) \/ CheckPass(t) \/ Record(t) \/ Reply(t)
               \/ ExecuteReturns(t) \/ ExecuteRaises(t)
      BY <3>1 DEF Load, CheckRefuse, CheckPass, Record, Reply, Release,
                  ExecuteReturns, ExecuteRaises, rows
    <3>2. CASE CheckExpire(t) \/ SweepRow(t)
      BY <3>2 DEF CheckExpire, SweepRow, BaseInv, TypeOK
    <3>3. CASE GrantFinal(t)
      BY <3>3 DEF GrantFinal, Grant, BaseInv, TypeOK
    <3>4. CASE Reject(t) \/ FinishExecuted(t) \/ FinishFailed(t)
      BY <3>4 DEF Reject, FinishExecuted, FinishFailed, Settle, BaseInv, TypeOK
    <3>. QED
      BY <2>2, <3>1, <3>2, <3>3, <3>4 DEF Proceed, Work
  <2>. QED
    BY <2>1, <2>2 DEF Next, Tick, vars, rows
<1>2. act[t] = a
  BY <1>1 DEF GrantStep, Grant, BaseInv, TypeOK
<1>3. risk[a] = "red"
  <2>1. seen[t].count \in Nat /\ seen[t].count + 1 < Required(risk[a])
    BY <1>1, <1>2 DEF GrantStep, BaseInv, TypeOK
  <2>. QED
    BY <2>1 DEF Required
<1>4. granted'[a] = granted[a] + 1 /\ granted[a] \in Nat /\ risk' = risk
  BY <1>1, <1>2 DEF GrantStep, Grant, BaseInv, TypeOK
<1>. QED
  BY <1>3, <1>4 DEF Earned

\* A handler that read its row back changes nothing more until it edits.
LEMMA HeldStays ==
  ASSUME CardsTypes, [CardsNext]_<<vars, cardVars>>, NEW t \in Threads,
         shown[t] = "confirming", shown'[t] = "confirming",
         pc[t] \in {"reply", "refused"}, press[t] # NoPress
  PROVE  pc'[t] = pc[t] /\ act'[t] = act[t] /\ press'[t] = press[t]
<1>1. ASSUME NEW s \in Threads, Arrive(s) \/ Proceed(s) \/ Die(s), s # t
      PROVE  pc'[t] = pc[t] /\ act'[t] = act[t]
  BY <1>1, OthersStay DEF CardsTypes
<1>2. ~Arrive(t) /\ ~Work(t)
  BY DEF Arrive, Request, Decide, SweepStart, Serve, Work, Load, CheckRefuse, CheckExpire,
     CheckPass, GrantStep, GrantFinal, Reject, ExecuteReturns, ExecuteRaises,
     FinishExecuted, FinishFailed, Record, SweepRow, Event
<1>3. ASSUME NEW s \in Threads, NEW p \in updates, Deliver(s, p)
      PROVE  pc'[t] = pc[t] /\ act'[t] = act[t] /\ press'[t] = press[t]
  <2>1. p.act \in Actions /\ p.user \in Caller /\ Operation(p.kind) \in {"approve", "reject"}
    BY CardsAssumption DEF CardsTypes, CardsTypeOK, Press, Operation
  <2>2. Arrive(s)
    BY <1>3, <2>1 DEF Deliver, Arrive
  <2>3. s # t
    BY <1>2, <2>2
  <2>. QED
    BY <1>1, <1>3, <2>2, <2>3 DEF Deliver, CardsTypes, CardsTypeOK
<1>4. ASSUME NEW s \in Threads, Elsewhere(s)
      PROVE  pc'[t] = pc[t] /\ act'[t] = act[t] /\ press'[t] = press[t]
  <2>1. Arrive(s) \/ Work(s)
    BY <1>4 DEF Elsewhere, Arrive
  <2>2. s # t
    BY <1>2, <2>1
  <2>. QED
    BY <1>1, <1>4, <2>1, <2>2 DEF Elsewhere, Proceed, cardVars
<1>5. ASSUME NEW s \in Threads, SendCard(s) \/ AnswerCaller(s) \/ EditCard(s) \/ CutShort(s)
      PROVE  pc'[t] = pc[t] /\ act'[t] = act[t] /\ press'[t] = press[t]
  <2>1. s # t
    BY <1>5 DEF SendCard, AnswerCaller, EditCard, CutShort, CardsTypes, CardsTypeOK
  <2>2. pc'[t] = pc[t] /\ act'[t] = act[t]
    BY <1>1, <1>5, <2>1 DEF SendCard, AnswerCaller, EditCard, CutShort, Proceed
  <2>. QED
    BY <1>5, <2>1, <2>2
    DEF SendCard, AnswerCaller, EditCard, CutShort, cardVars, CardsTypes, CardsTypeOK
<1>6. CASE \/ \E a \in Actions, u \in Pressers, kind \in {"ok", "ok2", "no"} :
                PressButton(a, kind, u)
           \/ \E s \in Threads : ReadBack(s)
           \/ Startup \/ (Tick /\ UNCHANGED cardVars) \/ UNCHANGED <<vars, cardVars>>
  BY <1>6 DEF PressButton, ReadBack, Startup, Tick, vars, locals, cardVars
<1>. QED
  BY <1>3, <1>4, <1>5, <1>6 DEF CardsNext

LEMMA NextFinal ==
  ASSUME BaseInv, CardsTypes, FinalInv, [CardsNext]_<<vars, cardVars>>
  PROVE  FinalInv'
<1>0. [Next]_vars
  BY CardsStepIsGatewayStep DEF CardsTypes
<1>1. \A a \in Actions : Earned(a) => Earned(a)'
  BY <1>0, EarnedStays DEF CardsTypes
<1>2. \A a \in Actions : status'[a] = "confirming" => Earned(a)'
  BY <1>0, <1>1, ConfirmingIsEarned DEF FinalInv
<1>3. ASSUME NEW a \in Actions, card'[a] = "confirm"
      PROVE  Earned(a)'
  <2>1. CASE card[a] = "confirm"
    BY <1>1, <2>1 DEF FinalInv
  <2>2. CASE card[a] # "confirm"
    <3>1. PICK t \in Threads : EditCard(t)
      BY <1>3, <2>2 DEF CardsNext, PressButton, Deliver, Elsewhere, SendCard, AnswerCaller,
         ReadBack, CutShort, Startup, cardVars, CardsTypes, CardsTypeOK
    <3>2. act[t] = a /\ Keyboard(t) = "confirm"
      BY <1>3, <2>2, <3>1 DEF EditCard, CardsTypes, CardsTypeOK
    <3>3. Earned(a)
      BY <3>2 DEF Keyboard, FinalInv
    <3>. QED
      BY <1>1, <3>3
  <2>. QED
    BY <2>1, <2>2
<1>4. ASSUME NEW a \in Actions, a \in finals'
      PROVE  Earned(a)'
  <2>1. CASE a \in finals
    BY <1>1, <2>1 DEF FinalInv
  <2>2. CASE a \notin finals
    <3>1. PICK u \in Pressers : PressButton(a, "ok2", u)
      BY <1>4, <2>2 DEF CardsNext, PressButton, Deliver, Elsewhere, SendCard, AnswerCaller,
         ReadBack, EditCard, CutShort, Startup, cardVars
    <3>2. card[a] = "confirm"
      BY <3>1 DEF PressButton, Buttons
    <3>. QED
      BY <1>1, <3>2 DEF FinalInv
  <2>. QED
    BY <2>1, <2>2
<1>5. ASSUME NEW t \in Threads, shown'[t] = "confirming"
      PROVE  pc'[t] \in {"reply", "refused"} /\ press'[t] # NoPress /\ Earned(act[t])'
  <2>1. CASE ReadBack(t)
    <3>1. act[t] \in Actions /\ act' = act /\ pc' = pc /\ press' = press
      BY <2>1 DEF ReadBack, CardsTypes, ActOK, vars, locals
    <3>2. status[act[t]] = "confirming"
      BY <1>5, <2>1 DEF ReadBack, CardsTypes, CardsTypeOK
    <3>3. Earned(act[t])'
      BY <1>1, <3>1, <3>2 DEF FinalInv
    <3>. QED
      BY <2>1, <3>1, <3>3 DEF ReadBack
  <2>2. CASE ~ReadBack(t)
    <3>1. /\ shown[t] = "confirming" /\ act[t] \in Actions
          /\ pc[t] \in {"reply", "refused"} /\ press[t] # NoPress /\ Earned(act[t])
      <4>1. shown[t] = "confirming"
        BY <1>5, <2>2 DEF CardsNext, PressButton, Deliver, Elsewhere, SendCard,
           AnswerCaller, ReadBack, EditCard, CutShort, Startup, cardVars, CardsTypes,
           CardsTypeOK
      <4>. QED
        BY <4>1 DEF FinalInv, CardsTypes, ActOK
    <3>2. pc'[t] = pc[t] /\ act'[t] = act[t] /\ press'[t] = press[t]
      BY <1>5, <2>2, <3>1, HeldStays
    <3>. QED
      BY <1>1, <3>1, <3>2 DEF Earned
  <2>. QED
    BY <2>1, <2>2
<1>. QED
  BY <1>2, <1>3, <1>4, <1>5 DEF FinalInv

\* The final button is offered and pressed only for a red action that was given
\* its first approval: whatever the order of the edits and of the deliveries,
\* and however many handlers of gateway.py's handle_callback run at once.
THEOREM FinalButtonIsForReds == CardsSpec => []FinalButtonIsEarned
<1>1. CardsInit => FinalInv
  BY DEF CardsInit, Init, FinalInv
<1>2. /\ CardsTypes /\ BaseInv /\ FinalInv /\ [CardsNext]_<<vars, cardVars>>
      => FinalInv'
  BY NextFinal
<1>3. FinalInv => FinalButtonIsEarned
  BY DEF FinalInv, FinalButtonIsEarned, Earned
<1>4. PaidForInv => BaseInv
  BY DEF PaidForInv
<1>. QED
  BY <1>1, <1>2, <1>3, <1>4, CardsTypesInvariant, CardsImplementGateway, PaidForInvariant,
     PTL DEF CardsSpec

-----------------------------------------------------------------------------
(* What the second button is worth. RedNeedsFinalButton does not hold of    *)
(* the code, which takes either button for an approval. The theorem names   *)
(* the one check that is missing.                                           *)

\* The first button counts for a red action only while nobody has answered it:
\* the press that decides read the row as pending. handle_callback, which knows
\* the button, and approve(), which knows the row, do not compare the two.
FirstButtonIsFresh == \A t \in Threads :
  pc[t] = "approve" /\ press[t].kind = "ok" /\ risk[act[t]] = "red" =>
    seen[t].status = "pending"

\* What a handler of a press works on.
HandlerHolds(t) ==
  /\ pc[t] = "idle" => press[t] = NoPress
  /\ pc[t] \in {"load", "check", "approve"} => press[t] # NoPress
  /\ press[t] # NoPress => act[t] = press[t].act
  /\ pc[t] \in {"load", "check"} => op[t] = Operation(press[t].kind)
  /\ pc[t] = "approve" => press[t].kind \in {"ok", "ok2"}
  /\ press[t].kind = "ok2" => press[t].act \in finals
  /\ pc[t] \in {"check", "approve"} /\ seen[t].status = "pending" => seen[t].count = 0
  /\ pc[t] = "exec" /\ risk[act[t]] = "red" => act[t] \in finals

\* A row that nobody answered has no approval, and a red action that was felt
\* had its final button pressed.
ButtonsHold ==
  /\ \A t \in Threads : HandlerHolds(t)
  /\ \A p \in updates : p.kind = "ok2" => p.act \in finals
  /\ \A a \in Actions : status[a] \in {"none", "pending"} => count[a] = 0
  /\ RedNeedsFinalButton

LEMMA InitButtons == CardsInit => ButtonsHold
  BY DEF CardsInit, Init, ButtonsHold, HandlerHolds, NoPress, RedNeedsFinalButton

\* Nothing makes a row pending again, and only a pending row has no approval.
LEMMA PendingIsNew ==
  ASSUME TypeOK, ActOK, [Next]_vars, NEW a \in Actions,
         status[a] \in {"none", "pending"} => count[a] = 0,
         status'[a] \in {"none", "pending"}
  PROVE  count'[a] = 0
<1>1. CASE Tick \/ UNCHANGED vars
  BY <1>1 DEF Tick, vars, rows
<1>2. ASSUME NEW t \in Threads, Arrive(t) \/ Die(t)
      PROVE  count'[a] = 0
  BY <1>2 DEF Arrive, Request, Decide, SweepStart, Die, Release, rows, TypeOK
<1>3. ASSUME NEW t \in Threads, Proceed(t)
      PROVE  count'[a] = 0
  <2>1. CASE GrantStep(t) \/ GrantFinal(t)
    BY <2>1 DEF GrantStep, GrantFinal, Grant, TypeOK
  <2>2. CASE Reject(t) \/ FinishExecuted(t) \/ FinishFailed(t)
    BY <2>2 DEF Reject, FinishExecuted, FinishFailed, Settle, TypeOK
  <2>3. CASE CheckExpire(t) \/ SweepRow(t)
    BY <2>3 DEF CheckExpire, SweepRow, TypeOK
  <2>4. CASE Load(t) \/ CheckRefuse(t) \/ CheckPass(t) \/ Record(t) \/ Reply(t)
             \/ ExecuteReturns(t) \/ ExecuteRaises(t)
    BY <2>4 DEF Load, CheckRefuse, CheckPass, Record, Reply, Release,
                ExecuteReturns, ExecuteRaises, rows
  <2>. QED
    BY <1>3, <2>1, <2>2, <2>3, <2>4 DEF Proceed, Work
<1>. QED
  BY <1>1, <1>2, <1>3 DEF Next

\* The facts of a handler whose thread does nothing.
LEMMA IdleHandler ==
  ASSUME TypeOK, ActOK, ThreadInv, [Next]_vars, NEW t \in Threads, HandlerHolds(t),
         pc'[t] = pc[t], act'[t] = act[t], op'[t] = op[t], seen'[t] = seen[t],
         press'[t] = press[t], finals \subseteq finals'
  PROVE  HandlerHolds(t)'
<1>1. pc[t] = "exec" => act[t] \in Actions /\ status[act[t]] # "none"
  BY DEF ActOK, ThreadInv, HasRow, Deciding
<1>2. pc[t] = "exec" => risk'[act[t]] = risk[act[t]]
  BY <1>1, RowsStay
<1>. QED
  BY <1>2 DEF HandlerHolds

\* The facts of a handler whose thread moves on.
LEMMA WorkButtons ==
  ASSUME CardsTypes, BaseInv, ButtonsHold, FirstButtonIsFresh,
         NEW t \in Threads, Work(t), UNCHANGED cardVars
  PROVE  HandlerHolds(t)' /\ RedNeedsFinalButton'
<1>0. /\ TypeOK /\ ActOK /\ CardsTypeOK /\ ThreadInv /\ HandlerHolds(t)
      /\ press' = press /\ finals' = finals
  BY DEF CardsTypes, BaseInv, ButtonsHold, cardVars
<1>1. act' = act /\ op' = op /\ risk' = risk /\ pc'[t] # "idle"
  BY <1>0 DEF TypeOK, Event, Work, Load, CheckRefuse, CheckExpire, CheckPass, GrantStep, GrantFinal, Grant,
     Reject, ExecuteReturns, ExecuteRaises, FinishExecuted, FinishFailed, Settle, Record,
     SweepRow, locals, rows
<1>2. CASE Load(t)
  <2>1. act[t] \in Actions
    BY <1>0, <1>2 DEF Load, ActOK
  <2>2. /\ pc[t] = "load" /\ pc'[t] = "check"
        /\ seen'[t].status = status[act[t]] /\ seen'[t].count = count[act[t]]
        /\ effects' = effects
    BY <1>0, <1>2 DEF Load, TypeOK, ghosts
  <2>. QED
    BY <1>0, <1>1, <2>1, <2>2 DEF HandlerHolds, ButtonsHold, RedNeedsFinalButton
<1>3. CASE CheckPass(t)
  <2>1. pc[t] = "check" /\ pc'[t] = op[t] /\ seen' = seen /\ effects' = effects
    BY <1>0, <1>3 DEF CheckPass, TypeOK, locals, ghosts
  <2>2. op[t] = Operation(press[t].kind) /\ press[t] \in Press
    BY <1>0, <2>1 DEF HandlerHolds, CardsTypeOK
  <2>3. \/ op[t] = "reject"
        \/ op[t] = "approve" /\ press[t].kind \in {"ok", "ok2"}
    BY <2>2 DEF Operation, Press
  <2>. QED
    BY <1>0, <1>1, <2>1, <2>3 DEF HandlerHolds, ButtonsHold, RedNeedsFinalButton
<1>4. CASE GrantFinal(t)
  <2>1. /\ pc[t] = "approve" /\ pc'[t] = "exec" /\ seen' = seen /\ effects' = effects
        /\ seen[t].count \in Nat /\ seen[t].count + 1 >= Required(risk[act[t]])
    BY <1>0, <1>4 DEF GrantFinal, Grant, TypeOK, locals
  <2>2. ASSUME risk[act[t]] = "red"
        PROVE  act[t] \in finals
    <3>1. seen[t].count # 0
      BY <2>1, <2>2 DEF Required
    <3>2. press[t].kind = "ok2"
      BY <1>0, <2>1, <2>2, <3>1 DEF HandlerHolds, FirstButtonIsFresh
    <3>. QED
      BY <1>0, <2>1, <3>2 DEF HandlerHolds
  <2>. QED
    BY <1>0, <1>1, <2>1, <2>2 DEF HandlerHolds, ButtonsHold, RedNeedsFinalButton
<1>5. CASE ExecuteReturns(t) \/ ExecuteRaises(t)
  <2>1. /\ pc[t] = "exec" /\ pc'[t] \in {"succeed", "fail"} /\ seen' = seen
        /\ \A a \in Actions \ {act[t]} : effects'[a] = effects[a]
    BY <1>0, <1>5 DEF ExecuteReturns, ExecuteRaises, TypeOK, locals
  <2>. QED
    BY <1>0, <1>1, <2>1 DEF HandlerHolds, ButtonsHold, RedNeedsFinalButton
<1>6. CASE \/ CheckRefuse(t) \/ CheckExpire(t) \/ GrantStep(t) \/ Reject(t)
           \/ FinishExecuted(t) \/ FinishFailed(t) \/ Record(t) \/ SweepRow(t)
  <2>1. /\ pc'[t] \notin {"load", "check", "approve", "exec"}
        /\ seen' = seen /\ effects' = effects
    BY <1>0, <1>6 DEF CheckRefuse, CheckExpire, GrantStep, Grant, Reject, FinishExecuted,
       FinishFailed, Settle, Record, SweepRow, TypeOK, locals, ghosts
  <2>. QED
    BY <1>0, <1>1, <2>1 DEF HandlerHolds, ButtonsHold, RedNeedsFinalButton
<1>. QED
  BY <1>2, <1>3, <1>4, <1>5, <1>6 DEF Work

LEMMA OperationStays ==
  ASSUME TypeOK, NEW t \in Threads, Arrive(t) \/ Proceed(t) \/ Die(t),
         NEW s \in Threads \ {t}
  PROVE  op'[s] = op[s]
<1>1. CASE Arrive(t)
  BY <1>1 DEF Arrive, Request, Decide, SweepStart, Serve, TypeOK
<1>2. CASE Work(t)
  BY <1>2 DEF Work, Load, CheckRefuse, CheckExpire, CheckPass, GrantStep, GrantFinal, Grant,
     Reject, ExecuteReturns, ExecuteRaises, FinishExecuted, FinishFailed, Settle, Record,
     SweepRow, locals
<1>3. CASE Reply(t) \/ Die(t)
  BY <1>3 DEF Reply, Die, Release, TypeOK
<1>. QED
  BY <1>1, <1>2, <1>3 DEF Proceed

LEMMA NextButtons ==
  ASSUME MiniApp = FALSE, CardsTypes, BaseInv, ButtonsHold, FirstButtonIsFresh,
         [CardsNext]_<<vars, cardVars>>
  PROVE  ButtonsHold'
<1>0. TypeOK /\ ActOK /\ CardsTypeOK /\ ThreadInv /\ RowInv /\ [Next]_vars
  BY CardsStepIsGatewayStep DEF CardsTypes, BaseInv
<1>1. \A a \in Actions : status'[a] \in {"none", "pending"} => count'[a] = 0
  BY <1>0, PendingIsNew DEF ButtonsHold
<1>2. finals \subseteq finals'
  BY DEF CardsNext, PressButton, Deliver, Elsewhere, SendCard, AnswerCaller, ReadBack,
     EditCard, CutShort, Startup, cardVars
<1>3. ASSUME NEW t \in Threads, Arrive(t) \/ Proceed(t) \/ Die(t),
             \A s \in Threads \ {t} : press'[s] = press[s]
      PROVE  \A s \in Threads \ {t} : HandlerHolds(s)'
  BY <1>0, <1>2, <1>3, OthersStay, OperationStays, IdleHandler DEF ButtonsHold
<1>4. ASSUME UNCHANGED <<pc, act, op, seen, press, effects, risk>>
      PROVE  (\A t \in Threads : HandlerHolds(t)') /\ RedNeedsFinalButton'
  BY <1>2, <1>4 DEF ButtonsHold, HandlerHolds, RedNeedsFinalButton
<1>5. ASSUME NEW t \in Threads, Release(t), Proceed(t) \/ Die(t), press'[t] = NoPress,
             \A s \in Threads \ {t} : press'[s] = press[s]
      PROVE  (\A s \in Threads : HandlerHolds(s)') /\ RedNeedsFinalButton'
  <2>1. pc'[t] = "idle" /\ UNCHANGED <<effects, risk>>
    BY <1>0, <1>5 DEF Release, TypeOK, rows, ghosts
  <2>2. HandlerHolds(t)'
    BY <1>5, <2>1 DEF HandlerHolds, NoPress
  <2>. QED
    BY <1>2, <1>3, <1>5, <2>1, <2>2 DEF ButtonsHold, RedNeedsFinalButton
<1>6. ASSUME NEW a \in Actions, NEW u \in Pressers, NEW kind \in {"ok", "ok2", "no"},
             PressButton(a, kind, u)
      PROVE  ButtonsHold'
  <2>1. UNCHANGED <<pc, act, op, seen, press, effects, risk>>
    BY <1>6 DEF PressButton, vars, rows, locals, ghosts
  <2>2. \A p \in updates' : p \in updates \/ (p.act = a /\ p.kind = kind)
    BY <1>6 DEF PressButton
  <2>3. kind = "ok2" => a \in finals'
    BY <1>6 DEF PressButton
  <2>. QED
    BY <1>1, <1>2, <1>4, <2>1, <2>2, <2>3 DEF ButtonsHold
<1>7. ASSUME NEW t \in Threads, NEW p \in updates, Deliver(t, p)
      PROVE  ButtonsHold'
  <2>1. p.act \in Actions /\ p.user \in Caller /\ Operation(p.kind) \in {"approve", "reject"}
    BY <1>0, CardsAssumption DEF CardsTypeOK, Press, Operation
  <2>2. Arrive(t)
    BY <1>7, <2>1 DEF Deliver, Arrive
  <2>3. /\ pc'[t] = "load" /\ act'[t] = p.act /\ op'[t] = Operation(p.kind)
        /\ press'[t] = p /\ UNCHANGED <<effects, risk, finals, updates>>
    BY <1>0, <1>7 DEF Deliver, Decide, Serve, TypeOK, CardsTypeOK, rows, ghosts
  <2>4. p # NoPress
    BY <2>1, GatewayAssumption DEF NoPress
  <2>5. HandlerHolds(t)'
    BY <2>3, <2>4 DEF HandlerHolds, ButtonsHold
  <2>6. \A s \in Threads \ {t} : HandlerHolds(s)'
    BY <1>0, <1>3, <1>7, <2>2 DEF Deliver, CardsTypeOK
  <2>. QED
    BY <1>1, <2>3, <2>5, <2>6 DEF ButtonsHold, RedNeedsFinalButton
<1>8. ASSUME NEW t \in Threads, Elsewhere(t), ~Work(t)
      PROVE  ButtonsHold'
  <2>1. Arrive(t) /\ UNCHANGED cardVars
    BY <1>8 DEF Elsewhere, Arrive
  <2>2. pc[t] = "idle" /\ press[t] = NoPress
    BY <1>8, <2>1 DEF Elsewhere, Request, SweepStart, Decide, Serve, ButtonsHold, HandlerHolds
  <2>3. HandlerHolds(t)'
    <3>1. CASE SweepStart(t)
      BY <1>0, <2>1, <2>2, <3>1
      DEF SweepStart, Serve, HandlerHolds, NoPress, cardVars, TypeOK
    <3>2. ASSUME NEW a \in Actions, NEW u \in Caller, NEW level \in Risk,
                 Request(t, a, u, level)
          PROVE  HandlerHolds(t)'
      BY <1>0, <2>1, <2>2, <3>2 DEF Request, Serve, HandlerHolds, NoPress, cardVars, TypeOK
    <3>. QED
      BY <1>8, <3>1, <3>2 DEF Elsewhere
  <2>4. RedNeedsFinalButton'
    <3>1. /\ effects' = effects /\ finals' = finals
          /\ \A a \in Actions : risk'[a] = risk[a] \/ status[a] = "none"
      BY <1>0, <1>8, <2>1
      DEF Elsewhere, Request, SweepStart, Decide, rows, ghosts, cardVars, TypeOK
    <3>. QED
      BY <1>0, <3>1 DEF ButtonsHold, RedNeedsFinalButton, RowInv
  <2>. QED
    BY <1>1, <1>3, <2>1, <2>3, <2>4 DEF ButtonsHold, cardVars
<1>9. ASSUME NEW t \in Threads, Elsewhere(t), Work(t)
      PROVE  ButtonsHold'
  BY <1>1, <1>3, <1>9, WorkButtons DEF Elsewhere, Proceed, ButtonsHold, cardVars
<1>10. ASSUME NEW t \in Threads, SendCard(t) \/ AnswerCaller(t) \/ EditCard(t) \/ CutShort(t)
       PROVE  ButtonsHold'
  <2>1. /\ Release(t) /\ (Proceed(t) \/ Die(t)) /\ press'[t] = NoPress
        /\ \A s \in Threads \ {t} : press'[s] = press[s]
        /\ updates' \subseteq updates /\ finals' = finals
    BY <1>0, <1>10 DEF SendCard, AnswerCaller, EditCard, CutShort, Reply, Die, Proceed,
       cardVars, CardsTypeOK
  <2>. QED
    BY <1>1, <1>5, <2>1 DEF ButtonsHold
<1>11. CASE \/ \E t \in Threads : ReadBack(t)
            \/ Startup \/ (Tick /\ UNCHANGED cardVars) \/ UNCHANGED <<vars, cardVars>>
  <2>1. /\ UNCHANGED <<pc, act, op, seen, press, effects, risk, finals>>
        /\ updates' \subseteq updates
    BY <1>11 DEF ReadBack, Startup, Tick, vars, rows, locals, ghosts, cardVars
  <2>. QED
    BY <1>1, <1>4, <2>1 DEF ButtonsHold
<1>. QED
  BY <1>6, <1>7, <1>8, <1>9, <1>10, <1>11 DEF CardsNext

\* With that one check, and decisions taken on cards only, a red action needs its
\* final button, as the head of gateway.py promises: under any overlap, redelivery
\* and loss. Without the check the cards_stale_button run refutes it.
THEOREM FreshButtonsNeedTheFinal ==
  ASSUME MiniApp = FALSE
  PROVE  CardsSpec /\ []FirstButtonIsFresh => []RedNeedsFinalButton
<1>1. /\ CardsTypes /\ BaseInv /\ ButtonsHold /\ FirstButtonIsFresh
      /\ [CardsNext]_<<vars, cardVars>>
      => ButtonsHold'
  BY NextButtons
<1>2. ButtonsHold => RedNeedsFinalButton
  BY DEF ButtonsHold
<1>3. PaidForInv => BaseInv
  BY DEF PaidForInv
<1>. QED
  BY <1>1, <1>2, <1>3, InitButtons, CardsTypesInvariant, CardsImplementGateway,
     PaidForInvariant, PTL DEF CardsSpec
=============================================================================
