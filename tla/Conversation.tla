---------------------------- MODULE Conversation ----------------------------
(***************************************************************************)
(* The chat with the owner: the message branch of app/webhook.py, the      *)
(* master agent of app/master/agent.py, its LLM provider                   *)
(* (app/llm/openai_compatible.py) and the tables it writes.                *)
(*                                                                         *)
(* Telegram brings a message until it is acknowledged, and again while a   *)
(* slow handler is at work on it. What messages say is left open: a command*)
(* may be known by its words or by the LLM, and either may lead to any of  *)
(* the kinds of action. Telegram and the LLM are external.                 *)
(***************************************************************************)
EXTENDS Naturals, Sequences, FiniteSets

CONSTANTS
  Messages,       \* the owner's
  NoMessage,
  Threads,
  Tries,          \* the attempts of _post_with_backoff
  Endpoints,      \* 1, or 2 with a fallback endpoint or model
  MaxMade,        \* the tasks one message may ask for
  MaxDeliveries,  \* bound on the deliveries of a message, crashes apart
  MaxCrashes

ASSUME ConversationAssumption ==
  /\ NoMessage \notin Messages
  /\ IsFiniteSet(Threads)
  /\ Tries \in Nat \ {0} /\ Endpoints \in {1, 2} /\ MaxMade \in Nat \ {0}
  /\ MaxDeliveries \in Nat \ {0} /\ MaxCrashes \in Nat

VARIABLES
  update,     \* what Telegram knows of each message
  delivered,  \* how often it brought it
  known,      \* whether the owner has a row in users
  convos,     \* the number of conversations; the newest has the highest id
  log,        \* the table messages: conversation, role, the message it is
              \* about, and the one whose token counts it holds
  pc, job,    \* of each thread: its step; its message and conversation, the
              \* tasks left to create
  chat,       \* the LLM: the round, the HTTP posts so far, whether any was answered
  made,       \* the tasks and requests each delivery led to
  cooling,    \* whether a decline is remembered from within the hour
  declined,   \* whether one was sent within the hour
  crashes,
  mixed       \* the threads that shared their time with one for the same chat

table == <<known, convos, log>>
gate  == <<cooling, declined>>
vars == <<update, delivered, table, pc, job, chat, made, gate, crashes, mixed>>

Deliveries == Messages \X (1 .. MaxDeliveries + MaxCrashes)
Nobody == <<NoMessage, 0>>
Free   == [msg |-> Nobody, convo |-> 0, left |-> 0]
NoChat == [round |-> 1, n |-> 0, heard |-> FALSE]

Init ==
  /\ update = [m \in Messages |-> "sent"]
  /\ delivered = [m \in Messages |-> 0]
  /\ known = FALSE /\ convos = 0 /\ log = <<>>
  /\ pc = [t \in Threads |-> "idle"]
  /\ job = [t \in Threads |-> Free]
  /\ chat = [t \in Threads |-> NoChat]
  /\ made = [d \in Deliveries |-> 0]
  /\ cooling = FALSE /\ declined = FALSE
  /\ crashes = 0
  /\ mixed = {}

Goto(t, next) == pc' = [pc EXCEPT ![t] = next]
Busy == {t \in Threads : pc[t] # "idle"}
Strange == {t \in Threads : pc[t] \in {"gate", "decline"}}

-----------------------------------------------------------------------------
(* Telegram, and what comes before the agent.                              *)

\* Two handlers at work on messages of one chat share their time.
Overlap(t, others) ==
  mixed' = IF others = {} THEN mixed ELSE mixed \cup others \cup {t}

\* A message of the owner: one nobody works on, or one whose handler takes long.
Receive(t, m) ==
  /\ pc[t] = "idle" /\ update[m] = "sent"
  /\ \/ delivered[m] < MaxDeliveries
     \/ delivered[m] < MaxDeliveries + MaxCrashes /\ \A u \in Threads : job[u].msg[1] # m
  /\ delivered' = [delivered EXCEPT ![m] = @ + 1]
  /\ job' = [job EXCEPT ![t].msg = <<m, delivered[m] + 1>>]
  /\ Goto(t, "user")
  /\ Overlap(t, Busy \ Strange)
  /\ UNCHANGED <<update, table, chat, made, gate, crashes>>

\* A message of a stranger's chat.
Knock(t) ==
  /\ pc[t] = "idle"
  /\ Goto(t, "gate")
  /\ Overlap(t, Strange)
  /\ UNCHANGED <<update, delivered, table, job, chat, made, gate, crashes>>

\* The handler ends and is free again.
Leave(t) ==
  /\ Goto(t, "idle")
  /\ job' = [job EXCEPT ![t] = Free]
  /\ mixed' = mixed \ {t}
  /\ UNCHANGED <<delivered, table, chat, made, crashes>>

\* The webhook answers 200 whatever happened.
Ack(t) ==
  /\ update' = [update EXCEPT ![job[t].msg[1]] = "ended"]
  /\ Leave(t)

\* The time of the last decline is looked up, then stored.
Gate(t) ==
  /\ pc[t] = "gate" /\ UNCHANGED gate
  /\ IF cooling
     THEN Ack(t)
     ELSE /\ Goto(t, "decline")
          /\ UNCHANGED <<update, delivered, table, job, chat, made, crashes, mixed>>

\* Variant: the decline is not remembered.
DeclineEach(t) ==
  /\ pc[t] = "decline"
  /\ declined' = TRUE /\ UNCHANGED cooling
  /\ Ack(t)

Decline(t) ==
  /\ pc[t] = "decline"
  /\ cooling' = TRUE
  /\ declined' = TRUE
  /\ Ack(t)

\* An hour has passed.
Cool ==
  /\ cooling
  /\ cooling' = FALSE /\ declined' = FALSE
  /\ UNCHANGED <<update, delivered, table, pc, job, chat, made, crashes, mixed>>

\* Variant: an answer that cannot be sent is an error of the webhook, which
\* leaves the message with Telegram.
ReplyRaises(t) ==
  /\ pc[t] = "reply" /\ UNCHANGED gate
  /\ \/ Ack(t)
     \/ Leave(t) /\ UNCHANGED update

\* send_message; its errors are logged.
Reply(t) == pc[t] = "reply" /\ Ack(t) /\ UNCHANGED gate

-----------------------------------------------------------------------------
(* MasterAgent.handle: user, conversation, message, intent, action, answer.*)

\* upsert_user: looked up, then inserted; UNIQUE(telegram_id) refuses a second
\* row, and the webhook answers with an internal error.
FindUser(t) ==
  /\ pc[t] = "user"
  /\ Goto(t, IF known THEN "convo" ELSE "newUser")
  /\ UNCHANGED <<update, delivered, table, job, chat, made, gate, crashes, mixed>>

NewUser(t) ==
  /\ pc[t] = "newUser"
  /\ known' = TRUE
  /\ Goto(t, IF known THEN "reply" ELSE "convo")
  /\ UNCHANGED <<update, delivered, convos, log, job, chat, made, gate, crashes, mixed>>

\* Variant: the conversation is looked up by a key it is not stored under.
FindConvoNever(t) ==
  /\ pc[t] = "convo"
  /\ Goto(t, "newConvo")
  /\ UNCHANGED <<update, delivered, table, job, chat, made, gate, crashes, mixed>>

\* Variant: a conversation is taken for granted.
FindConvoBlind(t) ==
  /\ pc[t] = "convo"
  /\ job' = [job EXCEPT ![t].convo = convos]
  /\ Goto(t, "hear")
  /\ UNCHANGED <<update, delivered, table, chat, made, gate, crashes, mixed>>

\* get_or_create_conversation: the newest of the user's, or a new one; nothing
\* refuses a second.
FindConvo(t) ==
  /\ pc[t] = "convo"
  /\ job' = [job EXCEPT ![t].convo = convos]
  /\ Goto(t, IF convos = 0 THEN "newConvo" ELSE "hear")
  /\ UNCHANGED <<update, delivered, table, chat, made, gate, crashes, mixed>>

NewConvo(t) ==
  /\ pc[t] = "newConvo"
  /\ convos' = convos + 1
  /\ job' = [job EXCEPT ![t].convo = convos + 1]
  /\ Goto(t, "hear")
  /\ UNCHANGED <<update, delivered, known, log, chat, made, gate, crashes, mixed>>

AddMessage(t, role) ==
  log' = Append(log, [convo |-> job[t].convo, role |-> role, of |-> job[t].msg,
                      usage |-> Nobody])

Hear(t) ==
  /\ pc[t] = "hear"
  /\ AddMessage(t, "user")
  /\ Goto(t, "intent")
  /\ UNCHANGED <<update, delivered, known, convos, job, chat, made, gate, crashes, mixed>>

\* A report of what is stored, or an action that raises before it wrote anything
\* (payment reminders always do) and is apologised for.
Report(t) == Goto(t, "speak") /\ UNCHANGED job

\* Tasks or requests for approval: at most 20 tasks, 3 follow-ups, one article.
\* (ApprovalGateway has what becomes of requests.)
Plan(t) ==
  /\ Goto(t, "make")
  /\ \E n \in 1 .. MaxMade : job' = [job EXCEPT ![t].left = n]

\* _route: what a message may turn out to be.
Act(t) ==
  \/ Report(t)
  \/ Plan(t)
  \/ Goto(t, "talk") /\ UNCHANGED job

\* Commands and phrases are known without the LLM.
Shortcut(t) ==
  /\ pc[t] = "intent" /\ chat[t] = NoChat
  /\ Act(t)
  /\ UNCHANGED <<update, delivered, table, chat, made, gate, crashes, mixed>>

\* One of the tasks, created or failed.
Make(t) ==
  /\ pc[t] = "make"
  /\ made' = [made EXCEPT ![job[t].msg] = @ + 1]
  /\ job' = [job EXCEPT ![t].left = @ - 1]
  /\ Goto(t, IF job[t].left = 1 THEN "speak" ELSE "make")
  /\ UNCHANGED <<update, delivered, table, chat, gate, crashes, mixed>>

\* The answer, or the apology.
Speak(t) ==
  /\ pc[t] = "speak"
  /\ AddMessage(t, "assistant")
  /\ chat' = [chat EXCEPT ![t] = NoChat]
  /\ Goto(t, "reply")
  /\ UNCHANGED <<update, delivered, known, convos, job, made, gate, crashes, mixed>>

-----------------------------------------------------------------------------
(* The LLM provider: structured_output for the intent, chat for the talk.  *)

RowsOf(c) == {i \in DOMAIN log : log[i].convo = c}
LastOf(c) == CHOOSE i \in RowsOf(c) : \A j \in RowsOf(c) : j <= i

\* Variant: the first message is taken for the last.
TokensOnFirst(t) ==
  log' = [log EXCEPT ![CHOOSE i \in RowsOf(job[t].convo) :
                         \A j \in RowsOf(job[t].convo) : i <= j].usage = job[t].msg]

\* The token counts go to whatever row is the conversation's last by now.
Tokens(t) == log' = [log EXCEPT ![LastOf(job[t].convo)].usage = job[t].msg]

\* A chat of n posts over the endpoints, in this round or on to the next.
Posted(t, n, ok, round) ==
  chat' = [chat EXCEPT ![t] = [round |-> round, n |-> @.n + n, heard |-> @.heard \/ ok]]

\* An answer of the primary endpoint, or of the fallback after its tries: JSON
\* with an intent; no JSON, asked for again; no answer at all inside.
Understand(t) ==
  /\ pc[t] = "intent"
  /\ \E n \in 1 .. Endpoints * Tries :
       \/ Act(t) /\ Posted(t, n, TRUE, 1)
       \/ /\ chat[t].round < 3
          /\ Posted(t, n, TRUE, chat[t].round + 1)
          /\ UNCHANGED <<pc, job>>
  /\ UNCHANGED <<update, delivered, table, made, gate, crashes, mixed>>

\* _action_chat: the answer, or an apology when its body is no JSON.
Talk(t) ==
  /\ pc[t] = "talk"
  /\ \E n \in 1 .. Endpoints * Tries : Posted(t, n, TRUE, 1)
  /\ Tokens(t) \/ UNCHANGED log
  /\ Goto(t, "speak")
  /\ UNCHANGED <<update, delivered, known, convos, job, made, gate, crashes, mixed>>

\* Variant: the error of an endpoint does not end the JSON mode.
NextRoundEach(r) == r + 1

\* After an error of both endpoints JSON mode is given up for the third, plain
\* round; an intent that cannot be had is talk.
NextRound(r) == IF r < 3 THEN 3 ELSE 4

\* No endpoint answers: each is tried up to Tries times, fewer when its error is
\* not worth another try.
ChatFails(t) ==
  /\ pc[t] \in {"intent", "talk"}
  /\ \E n \in Endpoints .. Endpoints * Tries :
       LET r == NextRound(chat[t].round)
       IN IF pc[t] = "intent" /\ r <= 3
          THEN Posted(t, n, FALSE, r) /\ UNCHANGED pc
          ELSE /\ Posted(t, n, FALSE, 1)
               /\ Goto(t, IF pc[t] = "intent" THEN "talk" ELSE "speak")
  /\ UNCHANGED <<update, delivered, table, job, made, gate, crashes, mixed>>

-----------------------------------------------------------------------------

\* The process ends: handlers and the declines it remembers are gone. A start
\* with AUTO_SET_WEBHOOK drops the updates pending by then.
Crash ==
  /\ crashes < MaxCrashes
  /\ crashes' = crashes + 1
  /\ pc' = [t \in Threads |-> "idle"]
  /\ job' = [t \in Threads |-> Free]
  /\ chat' = [t \in Threads |-> NoChat]
  /\ cooling' = FALSE /\ declined' = FALSE
  /\ mixed' = {}
  /\ \E gone \in SUBSET {m \in Messages : update[m] = "sent"} :
       update' = [m \in Messages |-> IF m \in gone THEN "ended" ELSE update[m]]
  /\ UNCHANGED <<delivered, table, made>>

Work(t) ==
  \/ Gate(t) \/ Decline(t) \/ Reply(t)
  \/ FindUser(t) \/ NewUser(t) \/ FindConvo(t) \/ NewConvo(t) \/ Hear(t)
  \/ Shortcut(t) \/ Understand(t) \/ Talk(t) \/ ChatFails(t) \/ Make(t) \/ Speak(t)

Next ==
  \/ \E t \in Threads : Knock(t) \/ \E m \in Messages : Receive(t, m)
  \/ Cool \/ Crash
  \/ \E t \in Threads : Work(t)

Spec == Init /\ [][Next]_vars

\* A thread that has begun is scheduled again; Telegram keeps trying, and requests
\* that wait for a thread are served in the end, whoever else knocks.
FairSpec ==
  /\ Spec
  /\ \A t \in Threads : WF_vars(Work(t))
  /\ \A m \in Messages : SF_vars(\E t \in Threads : Receive(t, m))

-----------------------------------------------------------------------------
(* What must hold.                                                         *)

Steps == {"idle", "gate", "decline", "user", "newUser", "convo", "newConvo", "hear",
          "intent", "talk", "make", "speak", "reply"}

TalkTypeOK ==
  /\ update \in [Messages -> {"sent", "ended"}]
  /\ delivered \in [Messages -> 0 .. MaxDeliveries + MaxCrashes]
  /\ known \in BOOLEAN
  /\ convos \in Nat
  /\ log \in Seq([convo : Nat \ {0}, role : {"user", "assistant"}, of : Deliveries,
                   usage : Deliveries \cup {Nobody}])
  /\ pc \in [Threads -> Steps]
  /\ job \in [Threads -> [msg : Deliveries \cup {Nobody}, convo : Nat, left : 0 .. MaxMade]]
  /\ chat \in [Threads -> [round : 1 .. 3, n : Nat, heard : BOOLEAN]]
  /\ made \in [Deliveries -> Nat]
  /\ cooling \in BOOLEAN /\ declined \in BOOLEAN
  /\ crashes \in 0 .. MaxCrashes
  /\ mixed \subseteq Threads

\* One message costs the LLM at most four chats, each over both endpoints; three
\* if no post is ever answered. A message makes no more tasks than it may ask
\* for, each time it is delivered: retries within retries and redeliveries
\* multiply, but only that far.
WorkIsBounded ==
  /\ \A t \in Threads :
       /\ chat[t].n <= 4 * Endpoints * Tries
       /\ ~chat[t].heard => chat[t].n <= 3 * Endpoints * Tries
  /\ \A d \in Deliveries : made[d] <= MaxMade

\* The owner's history is not scattered: there are no more conversations than
\* handlers that could look for the first one at the same time.
ConversationsAreFew == convos <= Cardinality(Threads)

\* "Unknown chats get one polite decline/hour": a second one within the hour is
\* only sent by a handler that was at work at the same time as one for that chat.
DeclinesAreRare == [][\A t \in Threads :
  pc[t] = "decline" /\ declined /\ pc'[t] = "idle" /\ crashes' = crashes => t \in mixed]_vars

\* The token counts of an answer are stored with the message it answers, unless
\* another of the owner's was at work meanwhile: then they may be stored with another
\* message of the conversation, but never with one of another conversation.
TokensStayNear == [][\A t \in Threads : \A i \in DOMAIN log :
  pc[t] = "talk" /\ pc'[t] = "speak" /\ log'[i].usage # log[i].usage =>
    /\ log[i].convo = job[t].convo
    /\ \/ t \in mixed
       \/ log[i].role = "user" /\ log[i].of = job[t].msg]_vars

\* Every message Telegram has is answered for in the end: the webhook leaves no
\* way out of a handler without its 200, and the LLM's retries come to an end.
EveryUpdateEnds == \A m \in Messages :
  update[m] = "sent" ~> update[m] = "ended"
=============================================================================
