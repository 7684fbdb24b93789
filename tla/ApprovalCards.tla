---------------------------- MODULE ApprovalCards ----------------------------
(***************************************************************************)
(* The approval cards in the chat: _send_card and handle_callback of       *)
(* app/approvals/gateway.py around the gateway, between the webhook and    *)
(* the Telegram client.                                                    *)
(*                                                                         *)
(* A button press becomes an update. Telegram delivers an update until the *)
(* webhook answers it, so a slow or interrupted handler, or a lost answer, *)
(* brings it again, and two presses may be under way at once. Sending or   *)
(* editing a card may fail without the gateway taking anything back. An    *)
(* update is dropped when a statement fails (the webhook answers anyway)   *)
(* and when the process starts (set_webhook drops what is pending).        *)
(***************************************************************************)
EXTENDS ApprovalGateway

CONSTANTS
  Pressers,    \* the users who can press a button in the card's chat
  MaxPresses,  \* bound on the presses
  MiniApp      \* whether decisions come from the Mini App too

ASSUME CardsAssumption ==
  /\ Pressers \subseteq Caller
  /\ MaxPresses \in Nat
  /\ MiniApp \in BOOLEAN

\* The buttons of build_keyboard: the first question, the final one, none.
Card == {"none", "ask", "confirm", "plain"}
Buttons(c) == CASE c = "ask" -> {"ok", "no"}
                [] c = "confirm" -> {"ok2", "no"}
                [] OTHER -> {}

Press == [id : 1 .. MaxPresses, act : Actions, kind : {"ok", "ok2", "no"},
          user : Pressers]
NoPress == [id |-> 0, act |-> NoAction, kind |-> "no", user |-> NoUser]

VARIABLES
  card,     \* the keyboard under each action's message, "none" without one
  updates,  \* the presses Telegram still has to deliver
  press,    \* the press each thread handles
  shown,    \* the status each handler read back for its edit
  pressed,  \* how many presses there were
  finals    \* the actions whose final button was pressed

cardVars == <<card, updates, press, shown, pressed, finals>>

CardsInit ==
  /\ Init
  /\ card = [a \in Actions |-> "none"]
  /\ updates = {}
  /\ press = [t \in Threads |-> NoPress]
  /\ shown = [t \in Threads |-> "none"]
  /\ pressed = 0
  /\ finals = {}

-----------------------------------------------------------------------------
(* The chat.                                                               *)

PressButton(a, kind, u) ==
  /\ pressed < MaxPresses
  /\ kind \in Buttons(card[a])
  /\ pressed' = pressed + 1
  /\ updates' = updates \cup
       {[id |-> pressed', act |-> a, kind |-> kind, user |-> u]}
  /\ finals' = IF kind = "ok2" THEN finals \cup {a} ELSE finals
  /\ UNCHANGED <<vars, card, press, shown>>

\* The first dispatch of handle_callback: "ok" and "ok2" alike approve.
Operation(kind) == IF kind = "no" THEN "reject" ELSE "approve"

Deliver(t, p) ==
  /\ p \in updates
  /\ Decide(t, p.act, p.user, Operation(p.kind))
  /\ press' = [press EXCEPT ![t] = p]
  /\ UNCHANGED <<card, updates, shown, pressed, finals>>

\* create_app: set_webhook(drop_pending_updates) while no handler runs.
Startup ==
  /\ MayDie
  /\ \A t \in Threads : pc[t] = "idle"
  /\ updates # {}
  /\ updates' = {}
  /\ UNCHANGED <<vars, card, press, shown, pressed, finals>>

-----------------------------------------------------------------------------
(* The handlers.                                                           *)

\* A request for an action that waits for a decision ends with _send_card.
Asks(t) == pc[t] = "reply" /\ seen[t].status = "none" /\ risk[act[t]] # "green"

SendCard(t) ==
  /\ press[t] = NoPress
  /\ Asks(t)
  /\ Reply(t)
  /\ \E c \in {card[act[t]], "ask"} : card' = [card EXCEPT ![act[t]] = c]
  /\ UNCHANGED <<updates, press, shown, pressed, finals>>

AnswerCaller(t) ==
  /\ press[t] = NoPress
  /\ ~Asks(t)
  /\ Reply(t)
  /\ UNCHANGED cardVars

\* get_pending_action after a decision, and after a DecisionError.
ReadBack(t) ==
  /\ press[t] # NoPress
  /\ pc[t] \in {"reply", "refused"}
  /\ shown[t] = "none"
  /\ shown' = [shown EXCEPT ![t] = status[act[t]]]
  /\ UNCHANGED <<vars, card, updates, press, pressed, finals>>

\* Variants: every edit removes the buttons; a failed action keeps them for
\* another try; the keyboard is one that no one knows.
KeyboardNever(t) == "plain"
KeyboardForRetry(t) ==
  IF pc[t] = "reply" /\ shown[t] \in {"confirming", "failed"}
  THEN "confirm" ELSE "plain"
KeyboardLocked(t) ==
  IF pc[t] = "reply" /\ shown[t] = "confirming" THEN "confirm" ELSE "locked"
\* The edit removes the buttons unless the decision was a first step.
Keyboard(t) ==
  IF pc[t] = "reply" /\ shown[t] = "confirming" THEN "confirm" ELSE "plain"

\* edit_message_text, then the webhook's answer; either may be lost.
EditCard(t) ==
  /\ press[t] # NoPress
  /\ shown[t] # "none"
  /\ Reply(t)
  /\ \E c \in {card[act[t]], Keyboard(t)} : card' = [card EXCEPT ![act[t]] = c]
  /\ updates' \in {updates, updates \ {press[t]}}
  /\ press' = [press EXCEPT ![t] = NoPress]
  /\ shown' = [shown EXCEPT ![t] = "none"]
  /\ UNCHANGED <<pressed, finals>>

\* A statement failed (the update is answered) or the process restarted (it
\* comes again, unless the start drops every pending update).
CutShort(t) ==
  /\ Die(t)
  /\ updates' \in {updates, updates \ {press[t]}, {}}
  /\ press' = [press EXCEPT ![t] = NoPress]
  /\ shown' = [shown EXCEPT ![t] = "none"]
  /\ UNCHANGED <<card, pressed, finals>>

-----------------------------------------------------------------------------

\* What the cards have no part in: requests, lists, the Mini App, the clock.
Elsewhere(t) ==
  /\ \/ \E a \in Actions, u \in Caller, level \in Risk : Request(t, a, u, level)
     \/ MiniApp /\ \E a \in Actions, u \in Caller, o \in {"approve", "reject"} :
          Decide(t, a, u, o)
     \/ SweepStart(t)
     \/ Work(t)
  /\ UNCHANGED cardVars

CardsNext ==
  \/ \E a \in Actions, u \in Pressers, kind \in {"ok", "ok2", "no"} :
       PressButton(a, kind, u)
  \/ \E t \in Threads, p \in updates : Deliver(t, p)
  \/ \E t \in Threads :
       \/ Elsewhere(t) \/ SendCard(t) \/ AnswerCaller(t)
       \/ ReadBack(t) \/ EditCard(t) \/ CutShort(t)
  \/ Startup
  \/ Tick /\ UNCHANGED cardVars

CardsSpec == CardsInit /\ [][CardsNext]_<<vars, cardVars>>

-----------------------------------------------------------------------------
(* What must hold.                                                         *)

CardsTypeOK ==
  /\ card \in [Actions -> Card]
  /\ updates \subseteq Press
  /\ press \in [Threads -> Press \cup {NoPress}]
  /\ shown \in [Threads -> Status]
  /\ pressed \in 0 .. MaxPresses
  /\ finals \subseteq Actions

\* The final button is only ever offered, and only ever pressed, for a red
\* action that was given its first approval.
FinalButtonIsEarned == \A a \in Actions :
  (card[a] = "confirm" \/ a \in finals) => risk[a] = "red" /\ granted[a] > 0

\* A card loses its buttons only once its action is decided: while the action
\* waits for an answer, the one who has to answer still has the buttons.
PlainCardIsDecided == \A a \in Actions :
  card[a] = "plain" => status[a] \notin Open

\* A red action that was felt had its final button pressed: gateway.py, "a
\* second press (a different button payload) is needed before execution".
RedNeedsFinalButton == \A a \in Actions :
  risk[a] = "red" /\ effects[a] > 0 => a \in finals
=============================================================================
