-------------------------- MODULE ConversationProofs --------------------------
(***************************************************************************)
(* Proofs about Conversation, for any messages, threads and numbers of     *)
(* attempts.                                                               *)
(***************************************************************************)
EXTENDS Conversation, FiniteSetTheorems, SequenceTheorems, TLAPS

-----------------------------------------------------------------------------
(* Types. A handler of the owner's holds a delivery no other handler holds, *)
(* one past get_or_create_conversation a conversation, and one that creates *)
(* tasks has some left.                                                     *)

Row == [convo : Nat \ {0}, role : {"user", "assistant"}, of : Deliveries,
        usage : Deliveries \cup {Nobody}]
Job == [msg : Deliveries \cup {Nobody}, convo : Nat, left : 0 .. MaxMade]

Outside == {"idle", "gate", "decline"}
Inside  == {"hear", "intent", "talk", "make", "speak"}

TelegramOK ==
  /\ update \in [Messages -> {"sent", "ended"}]
  /\ delivered \in [Messages -> 0 .. MaxDeliveries + MaxCrashes]
  /\ cooling \in BOOLEAN /\ declined \in BOOLEAN
  /\ crashes \in 0 .. MaxCrashes
  /\ mixed \subseteq Threads

TablesOK ==
  /\ known \in BOOLEAN
  /\ convos \in Nat
  /\ log \in Seq(Row)
  /\ made \in [Deliveries -> Nat]

ThreadsOK ==
  /\ pc \in [Threads -> Steps]
  /\ job \in [Threads -> Job]
  /\ chat \in [Threads -> [round : 1 .. 3, n : Nat, heard : BOOLEAN]]

JobsOK == \A t \in Threads :
  /\ pc[t] \in Outside => job[t].msg = Nobody
  /\ pc[t] \notin Outside => job[t].msg \in Deliveries
  /\ pc[t] \in Inside => job[t].convo # 0
  /\ pc[t] = "make" => job[t].left # 0

TypeInv == TelegramOK /\ TablesOK /\ ThreadsOK /\ JobsOK

LEMMA TypesMeanOK == TypeInv => TalkTypeOK
BY DEF TypeInv, TelegramOK, TablesOK, ThreadsOK, Row, Job, TalkTypeOK

LEMMA InitTypes == Init => TypeInv
<1> SUFFICES ASSUME Init PROVE TypeInv
  OBVIOUS
<1>1. TelegramOK
  <2>1. 0 \in 0 .. MaxDeliveries + MaxCrashes /\ 0 \in 0 .. MaxCrashes
    BY ConversationAssumption
  <2>. QED
    BY <2>1 DEF Init, TelegramOK
<1>4. <<>> \in Seq(Row)
  OBVIOUS
<1>5. TablesOK
  BY <1>4 DEF Init, TablesOK
<1>2. Free \in Job /\ NoChat \in [round : 1 .. 3, n : Nat, heard : BOOLEAN]
  BY ConversationAssumption DEF Free, NoChat, Job
<1>3. ThreadsOK /\ JobsOK
  BY <1>2 DEF Init, ThreadsOK, JobsOK, Steps, Free, Outside, Inside
<1>. QED
  BY <1>1, <1>3, <1>5 DEF TypeInv

\* A thread moves on with a fitting job.
LEMMA MoveTypes ==
  ASSUME TypeInv, NEW t \in Threads, NEW next \in Steps, NEW j \in Job, Goto(t, next),
         job' = [job EXCEPT ![t] = j],
         chat' \in [Threads -> [round : 1 .. 3, n : Nat, heard : BOOLEAN]],
         next \in Outside => j.msg = Nobody,
         next \notin Outside => j.msg \in Deliveries,
         next \in Inside => j.convo # 0,
         next = "make" => j.left # 0
  PROVE  ThreadsOK' /\ JobsOK'
<1>1. ThreadsOK'
  BY DEF TypeInv, ThreadsOK, Goto
<1>2. job'[t] = j /\ pc'[t] = next
      /\ \A u \in Threads \ {t} : job'[u] = job[u] /\ pc'[u] = pc[u]
  BY DEF TypeInv, ThreadsOK, Goto
<1>3. JobsOK'
  BY <1>2 DEF TypeInv, JobsOK
<1>. QED
  BY <1>1, <1>3

\* A thread moves on with the job it has.
LEMMA GotoTypes ==
  ASSUME TypeInv, NEW t \in Threads, NEW next \in Steps, Goto(t, next), UNCHANGED job,
         chat' \in [Threads -> [round : 1 .. 3, n : Nat, heard : BOOLEAN]],
         pc[t] \in Outside <=> next \in Outside,
         next \in Inside => pc[t] \in Inside \/ job[t].convo # 0,
         next # "make"
  PROVE  ThreadsOK' /\ JobsOK'
<1>1. ThreadsOK'
  BY DEF TypeInv, ThreadsOK, Goto
<1>2. pc'[t] = next /\ \A u \in Threads \ {t} : pc'[u] = pc[u]
  BY DEF TypeInv, ThreadsOK, Goto
<1>3. JobsOK'
  BY <1>2 DEF TypeInv, JobsOK
<1>. QED
  BY <1>1, <1>3

\* A thread leaves, with the answer to Telegram.
LEMMA AckTypes ==
  ASSUME TypeInv, NEW t \in Threads, Ack(t), cooling' \in BOOLEAN, declined' \in BOOLEAN
  PROVE  TypeInv'
<1>1. TelegramOK'
  BY DEF TypeInv, Ack, Leave, TelegramOK
<1>2. TablesOK'
  BY DEF TypeInv, Ack, Leave, table, TablesOK
<1>3. Free \in Job /\ Free.msg = Nobody
  BY ConversationAssumption DEF Free, Job
<1>4. "idle" \in Steps /\ "idle" \in Outside /\ "idle" \notin Inside /\ "idle" # "make"
  BY DEF Steps, Outside, Inside
<1>5. ThreadsOK' /\ JobsOK'
  <2>1. chat' \in [Threads -> [round : 1 .. 3, n : Nat, heard : BOOLEAN]]
    BY DEF Ack, Leave, TypeInv, ThreadsOK
  <2>2. Goto(t, "idle") /\ job' = [job EXCEPT ![t] = Free]
    BY DEF Ack, Leave
  <2>. QED
    BY <1>3, <1>4, <2>1, <2>2, MoveTypes
<1>. QED
  BY <1>1, <1>2, <1>5 DEF TypeInv

LEMMA ReceiveTypes ==
  ASSUME TypeInv, NEW t \in Threads, NEW m \in Messages, Receive(t, m)
  PROVE  TypeInv'
<1>1. delivered[m] < MaxDeliveries + MaxCrashes
  BY ConversationAssumption DEF Receive, TypeInv, TelegramOK
<1>2. TelegramOK'
  BY <1>1, ConversationAssumption DEF TypeInv, TelegramOK, Receive, gate, Overlap, Busy
<1>3. TablesOK'
  BY DEF TypeInv, TablesOK, Receive, table
<1>. DEFINE d == <<m, delivered[m] + 1>>
            j == [job[t] EXCEPT !.msg = d]
<1>4. d \in Deliveries
  BY <1>1, ConversationAssumption DEF Deliveries, TypeInv, TelegramOK
<1>5. j \in Job /\ j.msg = d
  BY <1>4 DEF TypeInv, ThreadsOK, Job
<1>6. job' = [job EXCEPT ![t] = j]
  BY DEF Receive, TypeInv, ThreadsOK
<1>7. ThreadsOK' /\ JobsOK'
  <2>1. "user" \in Steps /\ "user" \notin Outside /\ "user" \notin Inside /\ "user" # "make"
    BY DEF Steps, Outside, Inside
  <2>2. Goto(t, "user") /\ chat' = chat
    BY DEF Receive
  <2>3. chat \in [Threads -> [round : 1 .. 3, n : Nat, heard : BOOLEAN]]
    BY DEF TypeInv, ThreadsOK
  <2>. HIDE DEF j, d
  <2>. QED
    BY <1>4, <1>5, <1>6, <2>1, <2>2, <2>3, MoveTypes
<1>. QED
  BY <1>2, <1>3, <1>7 DEF TypeInv

\* Rows that are appended, and token counts that are filled in.
LEMMA AddTypes ==
  ASSUME TypeInv, NEW t \in Threads, pc[t] \in Inside, NEW role \in {"user", "assistant"},
         AddMessage(t, role)
  PROVE  log' \in Seq(Row)
<1>. DEFINE e == [convo |-> job[t].convo, role |-> role, of |-> job[t].msg, usage |-> Nobody]
<1>1. e \in Row
  BY DEF TypeInv, ThreadsOK, JobsOK, Job, Row, Inside, Outside
<1>2. log' = Append(log, e) /\ log \in Seq(Row)
  BY DEF AddMessage, TypeInv, TablesOK
<1>. HIDE DEF e
<1>. QED
  BY <1>1, <1>2

LEMMA TokensTypes ==
  ASSUME TypeInv, NEW t \in Threads, pc[t] \in Inside, Tokens(t)
  PROVE  log' \in Seq(Row) /\ Len(log') = Len(log)
<1>1. log \in Seq(Row) /\ log' = [log EXCEPT ![LastOf(job[t].convo)].usage = job[t].msg]
  BY DEF Tokens, TypeInv, TablesOK
<1>2. job[t].msg \in Deliveries
  BY DEF TypeInv, JobsOK, Inside, Outside
<1>3. \A r \in Row : [r EXCEPT !.usage = job[t].msg] \in Row
  BY <1>2 DEF Row
<1>4. log \in [1 .. Len(log) -> Row] /\ Len(log) \in Nat
  BY <1>1, SeqDef
<1>5. log' \in [1 .. Len(log) -> Row]
  BY <1>1, <1>3, <1>4
<1>. QED
  BY <1>4, <1>5

\* One line of attempts.
LEMMA PostedTypes ==
  ASSUME TypeInv, NEW t \in Threads, NEW n \in Nat, NEW ok \in BOOLEAN, NEW round \in 1 .. 3,
         Posted(t, n, ok, round)
  PROVE  chat' \in [Threads -> [round : 1 .. 3, n : Nat, heard : BOOLEAN]]
BY DEF TypeInv, ThreadsOK, Posted

LEMMA PostsAreNat ==
  /\ \A n \in 1 .. Endpoints * Tries : n \in Nat
  /\ \A n \in Endpoints .. Endpoints * Tries : n \in Nat
BY ConversationAssumption

LEMMA WorkTypes ==
  ASSUME TypeInv, NEW t \in Threads, Work(t)
  PROVE  TypeInv'
<1> USE DEF table, gate
<1>. DEFINE Chat == [round : 1 .. 3, n : Nat, heard : BOOLEAN]
<1>0. /\ chat \in [Threads -> Chat] /\ NoChat \in Chat
      /\ job \in [Threads -> Job] /\ job[t] \in Job /\ job = [job EXCEPT ![t] = job[t]]
  BY DEF TypeInv, ThreadsOK, NoChat
<1>12. 1 \in 1 .. 3 /\ TRUE \in BOOLEAN /\ FALSE \in BOOLEAN
  OBVIOUS
<1>1. CASE Gate(t)
  <2>1. CASE cooling
    BY <1>1, <2>1, AckTypes DEF Gate, TypeInv, TelegramOK
  <2>2. CASE ~cooling
    <3>1. ThreadsOK' /\ JobsOK'
      BY <1>0, <1>1, <2>2, GotoTypes DEF Gate, Steps, Outside, Inside
    <3>. QED
      BY <1>1, <2>2, <3>1 DEF Gate, TypeInv, TelegramOK, TablesOK
  <2>. QED
    BY <2>1, <2>2
<1>2. CASE Decline(t) \/ Reply(t)
  BY <1>2, AckTypes DEF Decline, Reply, TypeInv, TelegramOK
<1>3. CASE FindUser(t) \/ NewUser(t)
  <2>1. TelegramOK' /\ TablesOK'
    BY <1>3 DEF FindUser, NewUser, TypeInv, TelegramOK, TablesOK
  <2>2. PICK next \in {"newUser", "convo", "reply"} : Goto(t, next)
    BY <1>3 DEF FindUser, NewUser
  <2>3. ThreadsOK' /\ JobsOK'
    BY <1>0, <1>3, <2>2, GotoTypes DEF FindUser, NewUser, Steps, Outside, Inside
  <2>. QED
    BY <2>1, <2>3 DEF TypeInv
<1>4. CASE FindConvo(t) \/ NewConvo(t)
  <2>1. TelegramOK' /\ TablesOK'
    BY <1>4 DEF FindConvo, NewConvo, TypeInv, TelegramOK, TablesOK
  <2>2. PICK c \in Nat, next \in {"newConvo", "hear"} :
          Goto(t, next) /\ job' = [job EXCEPT ![t].convo = c] /\ (next = "hear" => c # 0)
    <3>1. convos \in Nat
      BY DEF TypeInv, TablesOK
    <3>2. CASE FindConvo(t)
      <4>1. CASE convos = 0
        BY <3>1, <3>2, <4>1 DEF FindConvo
      <4>2. CASE convos # 0
        BY <3>1, <3>2, <4>2 DEF FindConvo
      <4>. QED
        BY <4>1, <4>2
    <3>3. CASE NewConvo(t)
      <4>1. convos + 1 \in Nat \ {0}
        BY <3>1
      <4>. QED
        BY <3>3, <4>1 DEF NewConvo
    <3>. QED
      BY <1>4, <3>2, <3>3
  <2>3. [job[t] EXCEPT !.convo = c] \in Job /\ job' = [job EXCEPT ![t] = [job[t] EXCEPT !.convo = c]]
        /\ [job[t] EXCEPT !.convo = c].msg = job[t].msg /\ [job[t] EXCEPT !.convo = c].convo = c
    BY <1>0, <2>2 DEF Job
  <2>4. pc[t] \notin Outside /\ chat' = chat /\ job[t].msg \in Deliveries
    BY <1>4 DEF FindConvo, NewConvo, TypeInv, JobsOK, Outside
  <2>5. next \in Steps /\ next \notin Outside /\ (next \in Inside => next = "hear") /\ next # "make"
    BY DEF Steps, Outside, Inside
  <2>6. ThreadsOK' /\ JobsOK'
    BY <1>0, <2>2, <2>3, <2>4, <2>5, MoveTypes
  <2>. QED
    BY <2>1, <2>6 DEF TypeInv
<1>5. CASE Hear(t) \/ Speak(t)
  <2>1. pc[t] \in Inside
    BY <1>5 DEF Hear, Speak, Inside
  <2>2. log' \in Seq(Row)
    BY <1>5, <2>1, AddTypes DEF Hear, Speak
  <2>3. TelegramOK' /\ TablesOK'
    BY <1>5, <2>2 DEF Hear, Speak, TypeInv, TelegramOK, TablesOK
  <2>4. chat' \in [Threads -> Chat]
    BY <1>0, <1>5 DEF Hear, Speak
  <2>5. ThreadsOK' /\ JobsOK'
    BY <1>5, <2>1, <2>4, GotoTypes DEF Hear, Speak, Steps, Outside, Inside
  <2>. QED
    BY <2>3, <2>5 DEF TypeInv
<1>6. ASSUME Act(t), pc[t] = "intent", chat' \in [Threads -> Chat]
      PROVE  ThreadsOK' /\ JobsOK'
  <2>1. ASSUME NEW next \in {"speak", "talk"}, Goto(t, next), UNCHANGED job
        PROVE  ThreadsOK' /\ JobsOK'
    BY <1>6, <2>1, GotoTypes DEF Steps, Outside, Inside
  <2>2. CASE Plan(t)
    <3>1. PICK n \in 1 .. MaxMade : job' = [job EXCEPT ![t].left = n]
      BY <2>2 DEF Plan
    <3>2. /\ [job[t] EXCEPT !.left = n] \in Job
          /\ job' = [job EXCEPT ![t] = [job[t] EXCEPT !.left = n]]
          /\ [job[t] EXCEPT !.left = n].msg = job[t].msg
          /\ [job[t] EXCEPT !.left = n].convo = job[t].convo
          /\ [job[t] EXCEPT !.left = n].left # 0
      BY <1>0, <3>1, ConversationAssumption DEF Job
    <3>3. job[t].msg \in Deliveries /\ job[t].convo # 0 /\ Goto(t, "make")
      BY <1>6, <2>2 DEF Plan, TypeInv, JobsOK, Outside, Inside
    <3>4. "make" \in Steps /\ "make" \notin Outside
      BY DEF Steps, Outside
    <3>. QED
      BY <1>6, <3>2, <3>3, <3>4, MoveTypes
  <2>. QED
    BY <1>6, <2>1, <2>2 DEF Act, Report
<1>7. CASE Shortcut(t)
  <2>1. TelegramOK' /\ TablesOK'
    BY <1>7 DEF Shortcut, TypeInv, TelegramOK, TablesOK
  <2>2. ThreadsOK' /\ JobsOK'
    BY <1>0, <1>6, <1>7 DEF Shortcut
  <2>. QED
    BY <2>1, <2>2 DEF TypeInv
<1>8. CASE Make(t)
  <2>1. job[t].msg \in Deliveries /\ job[t].left \in 1 .. MaxMade /\ job[t].convo # 0
    BY <1>0, <1>8, ConversationAssumption DEF Make, TypeInv, JobsOK, Job, Outside, Inside
  <2>2. TelegramOK' /\ TablesOK'
    BY <1>8, <2>1 DEF Make, TypeInv, TelegramOK, TablesOK
  <2>. DEFINE j == [job[t] EXCEPT !.left = job[t].left - 1]
              next == IF job[t].left = 1 THEN "speak" ELSE "make"
  <2>3. /\ j \in Job /\ job' = [job EXCEPT ![t] = j]
        /\ j.msg = job[t].msg /\ j.convo = job[t].convo /\ (next = "make" => j.left # 0)
    BY <1>0, <1>8, <2>1, ConversationAssumption DEF Make, Job
  <2>4. next \in Steps /\ next \notin Outside
    BY DEF Steps, Outside
  <2>5. Goto(t, next) /\ chat' = chat
    BY <1>8 DEF Make
  <2>. HIDE DEF j, next
  <2>6. ThreadsOK' /\ JobsOK'
    BY <1>0, <2>1, <2>3, <2>4, <2>5, MoveTypes
  <2>. QED
    BY <2>2, <2>6 DEF TypeInv
<1>9. CASE Understand(t)
  <2>1. TelegramOK' /\ TablesOK'
    BY <1>9 DEF Understand, TypeInv, TelegramOK, TablesOK
  <2>2. PICK n \in 1 .. Endpoints * Tries :
          \/ Act(t) /\ Posted(t, n, TRUE, 1)
          \/ /\ chat[t].round < 3
             /\ Posted(t, n, TRUE, chat[t].round + 1)
             /\ UNCHANGED <<pc, job>>
    BY <1>9 DEF Understand
  <2>3. n \in Nat
    BY PostsAreNat
  <2>4. CASE Act(t) /\ Posted(t, n, TRUE, 1)
    <3>1. chat' \in [Threads -> Chat]
      BY <1>12, <2>3, <2>4, PostedTypes
    <3>. QED
      BY <1>6, <1>9, <2>1, <2>4, <3>1 DEF Understand, TypeInv
  <2>5. CASE /\ chat[t].round < 3
             /\ Posted(t, n, TRUE, chat[t].round + 1)
             /\ UNCHANGED <<pc, job>>
    <3>1. chat[t].round + 1 \in 1 .. 3
      BY <1>0, <2>5
    <3>2. chat' \in [Threads -> Chat]
      BY <2>3, <2>5, <3>1, PostedTypes
    <3>. QED
      BY <2>1, <2>5, <3>2 DEF TypeInv, ThreadsOK, JobsOK
  <2>. QED
    BY <2>2, <2>4, <2>5
<1>10. CASE Talk(t)
  <2>1. PICK n \in 1 .. Endpoints * Tries : Posted(t, n, TRUE, 1)
    BY <1>10 DEF Talk
  <2>2. chat' \in [Threads -> Chat]
    BY <1>12, <2>1, PostsAreNat, PostedTypes
  <2>3. ThreadsOK' /\ JobsOK'
    BY <1>10, <2>2, GotoTypes DEF Talk, Steps, Outside, Inside
  <2>4. log' \in Seq(Row)
    BY <1>10, TokensTypes DEF Talk, TypeInv, TablesOK, Inside
  <2>. QED
    BY <1>10, <2>3, <2>4 DEF Talk, TypeInv, TelegramOK, TablesOK
<1>11. CASE ChatFails(t)
  <2>. DEFINE r == NextRound(chat[t].round)
  <2>1. PICK n \in Endpoints .. Endpoints * Tries :
          IF pc[t] = "intent" /\ r <= 3
          THEN Posted(t, n, FALSE, r) /\ UNCHANGED pc
          ELSE /\ Posted(t, n, FALSE, 1)
               /\ Goto(t, IF pc[t] = "intent" THEN "talk" ELSE "speak")
    BY <1>11 DEF ChatFails
  <2>2. n \in Nat /\ r \in {3, 4}
    BY PostsAreNat DEF NextRound
  <2>3. TelegramOK' /\ TablesOK' /\ job' = job
    BY <1>11 DEF ChatFails, TypeInv, TelegramOK, TablesOK
  <2>. HIDE DEF r
  <2>4. CASE pc[t] = "intent" /\ r <= 3
    <3>1. r \in 1 .. 3
      BY <2>2, <2>4
    <3>2. chat' \in [Threads -> Chat]
      BY <2>1, <2>2, <2>4, <3>1, PostedTypes
    <3>. QED
      BY <2>1, <2>3, <2>4, <3>2 DEF TypeInv, ThreadsOK, JobsOK
  <2>5. CASE ~(pc[t] = "intent" /\ r <= 3)
    <3>1. chat' \in [Threads -> Chat]
      BY <1>12, <2>1, <2>2, <2>5, PostedTypes
    <3>2. ThreadsOK' /\ JobsOK'
      BY <1>11, <2>1, <2>3, <2>5, <3>1, GotoTypes DEF ChatFails, Steps, Outside, Inside
    <3>. QED
      BY <2>3, <3>2 DEF TypeInv
  <2>. QED
    BY <2>4, <2>5
<1>. QED
  BY <1>1, <1>2, <1>3, <1>4, <1>5, <1>7, <1>8, <1>9, <1>10, <1>11 DEF Work

LEMMA NextTypes == TypeInv /\ [Next]_vars => TypeInv'
<1> SUFFICES ASSUME TypeInv, [Next]_vars PROVE TypeInv'
  OBVIOUS
<1>1. ASSUME NEW t \in Threads, Knock(t) PROVE TypeInv'
  <2>1. TelegramOK' /\ TablesOK'
    BY <1>1 DEF Knock, TypeInv, TelegramOK, TablesOK, table, gate, Overlap, Strange
  <2>2. ThreadsOK' /\ JobsOK'
    BY <1>1, GotoTypes DEF Knock, TypeInv, ThreadsOK, Steps, Outside, Inside
  <2>. QED
    BY <2>1, <2>2 DEF TypeInv
<1>2. CASE Cool \/ UNCHANGED vars
  BY <1>2 DEF Cool, vars, table, gate, TypeInv, TelegramOK, TablesOK, ThreadsOK, JobsOK
<1>3. CASE Crash
  <2>1. TelegramOK' /\ TablesOK'
    <3>1. update' \in [Messages -> {"sent", "ended"}]
      BY <1>3 DEF Crash, TypeInv, TelegramOK
    <3>2. crashes' \in 0 .. MaxCrashes
      BY <1>3, ConversationAssumption DEF Crash, TypeInv, TelegramOK
    <3>. QED
      BY <1>3, <3>1, <3>2 DEF Crash, TypeInv, TelegramOK, TablesOK, table
  <2>2. Free \in Job /\ NoChat \in [round : 1 .. 3, n : Nat, heard : BOOLEAN]
    BY ConversationAssumption DEF Free, NoChat, Job
  <2>3. ThreadsOK' /\ JobsOK'
    BY <1>3, <2>2 DEF Crash, ThreadsOK, JobsOK, Steps, Free, Outside, Inside
  <2>. QED
    BY <2>1, <2>3 DEF TypeInv
<1>. QED
  BY <1>1, <1>2, <1>3, ReceiveTypes, WorkTypes DEF Next

LEMMA TypeInvariant == Spec => []TypeInv
BY InitTypes, NextTypes, PTL DEF Spec

\* Types are kept, for any messages, threads and attempts: a handler of the
\* owner's has a delivery, and everything it stores stands in a conversation.
THEOREM TalkTypeCorrect == Spec => []TalkTypeOK
BY TypeInvariant, TypesMeanOK, PTL

-----------------------------------------------------------------------------
(* The first conversation. Only handlers that looked before there was one  *)
(* may still insert theirs, and nobody looks in vain after that.           *)

Makers == {t \in Threads : pc[t] = "newConvo"}
FewInv == convos = 0 \/ convos + Cardinality(Makers) <= Cardinality(Threads)

LEMMA MakersAreFinite ==
  /\ IsFiniteSet(Makers) /\ Cardinality(Makers) \in Nat
  /\ Cardinality(Makers) <= Cardinality(Threads) /\ Cardinality(Threads) \in Nat
BY ConversationAssumption, FS_Subset, FS_CardinalityType DEF Makers

\* Steps that insert none, and after the first that begin none.
LEMMA FewStays ==
  ASSUME TypeInv, FewInv, UNCHANGED convos, convos # 0 => Makers' \subseteq Makers
  PROVE  FewInv'
<1>1. CASE convos = 0
  BY <1>1 DEF FewInv
<1>2. CASE convos # 0
  <2>1. Cardinality(Makers') \in Nat /\ Cardinality(Makers') <= Cardinality(Makers)
    BY <1>2, MakersAreFinite, FS_Subset, FS_CardinalityType
  <2>. QED
    BY <1>2, <2>1, MakersAreFinite DEF FewInv, TypeInv, TablesOK
<1>. QED
  BY <1>1, <1>2

LEMMA NextFew == TypeInv /\ FewInv /\ [Next]_vars => FewInv'
<1> SUFFICES ASSUME TypeInv, FewInv, [Next]_vars PROVE FewInv'
  OBVIOUS
<1> USE DEF table, gate
<1>1. ASSUME NEW t \in Threads, NewConvo(t) PROVE FewInv'
  <2>1. Makers' = Makers \ {t} /\ t \in Makers /\ convos' = convos + 1
    BY <1>1 DEF NewConvo, Goto, Makers, TypeInv, ThreadsOK
  <2>2. Cardinality(Makers') = Cardinality(Makers) - 1
    BY <2>1, MakersAreFinite, FS_RemoveElement
  <2>. QED
    BY <2>1, <2>2, MakersAreFinite DEF FewInv, TypeInv, TablesOK
<1>2. ASSUME NEW t \in Threads, Work(t), ~NewConvo(t) PROVE FewInv'
  <2>1. convos' = convos
    BY <1>2 DEF Work, Gate, Decline, Reply, Ack, Leave, FindUser, NewUser, FindConvo, Hear,
                Shortcut, Understand, Talk, ChatFails, Make, Speak
  <2>2. convos # 0 => pc'[t] # "newConvo"
    BY <1>2 DEF Work, Gate, Decline, Reply, Ack, Leave, FindUser, NewUser, FindConvo, Hear,
                Shortcut, Understand, Talk, ChatFails, Make, Speak, Act, Report, Plan, Goto,
                TypeInv, ThreadsOK
  <2>3. \A u \in Threads \ {t} : pc'[u] = pc[u]
    BY <1>2 DEF Work, Gate, Decline, Reply, Ack, Leave, FindUser, NewUser, FindConvo, Hear,
                Shortcut, Understand, Talk, ChatFails, Make, Speak, Act, Report, Plan, Goto,
                TypeInv, ThreadsOK
  <2>. QED
    BY <2>1, <2>2, <2>3, FewStays DEF Makers
<1>3. ASSUME NEW t \in Threads, Knock(t) \/ \E m \in Messages : Receive(t, m) PROVE FewInv'
  BY <1>3, FewStays DEF Knock, Receive, Goto, Makers, TypeInv, ThreadsOK
<1>4. CASE Cool \/ Crash \/ UNCHANGED vars
  BY <1>4, FewStays DEF Cool, Crash, vars, Makers
<1>. QED
  BY <1>1, <1>2, <1>3, <1>4 DEF Next

\* get_or_create_conversation checks and then inserts: however the handlers
\* interleave, there are never more conversations than threads.
THEOREM ConversationsAreFewCorrect == Spec => []ConversationsAreFew
<1>1. Init => FewInv
  BY DEF Init, FewInv
<1>2. TypeInv /\ FewInv => ConversationsAreFew
  BY MakersAreFinite DEF FewInv, ConversationsAreFew, TypeInv, TablesOK
<1>. QED
  BY <1>1, <1>2, NextFew, TypeInvariant, PTL DEF Spec

-----------------------------------------------------------------------------
(* Who shared their time. Two handlers for one chat both know it: the later *)
(* one marked both.                                                         *)

Owners == Busy \ Strange

MixedInv ==
  /\ \A t \in Strange, u \in Strange : t # u => t \in mixed
  /\ \A t \in Owners, u \in Owners : t # u => t \in mixed

\* A handler at work stays one of its kind until it leaves.
LEMMA WorkersStay ==
  ASSUME TypeInv, NEW t \in Threads, Work(t)
  PROVE  /\ Strange' \subseteq Strange /\ Owners' \subseteq Owners
         /\ mixed' = mixed \/ (mixed' = mixed \ {t} /\ t \notin Busy')
         /\ \A u \in Threads \ {t} : pc'[u] = pc[u] /\ job'[u] = job[u] /\ chat'[u] = chat[u]
<1> USE DEF table, gate
<1>1. \A u \in Threads \ {t} : pc'[u] = pc[u] /\ job'[u] = job[u] /\ chat'[u] = chat[u]
  BY DEF Work, Gate, Decline, Reply, Ack, Leave, FindUser, NewUser, FindConvo, NewConvo, Hear,
         Shortcut, Understand, Talk, ChatFails, Make, Speak, Act, Report, Plan, Goto, Posted,
         TypeInv, ThreadsOK
<1>2. mixed' = mixed \/ (mixed' = mixed \ {t} /\ pc'[t] = "idle")
  BY DEF Work, Gate, Decline, Reply, Ack, Leave, FindUser, NewUser, FindConvo, NewConvo, Hear,
         Shortcut, Understand, Talk, ChatFails, Make, Speak, Goto, TypeInv, ThreadsOK
<1>3. pc[t] # "idle"
  BY DEF Work, Gate, Decline, Reply, FindUser, NewUser, FindConvo, NewConvo, Hear,
         Shortcut, Understand, Talk, ChatFails, Make, Speak
<1>4. /\ pc[t] \in {"gate", "decline"} => pc'[t] \in {"idle", "gate", "decline"}
      /\ pc[t] \notin {"gate", "decline"} => pc'[t] \notin {"gate", "decline"}
  BY DEF Work, Gate, Decline, Reply, Ack, Leave, FindUser, NewUser, FindConvo, NewConvo, Hear,
         Shortcut, Understand, Talk, ChatFails, Make, Speak, Act, Report, Plan, Goto,
         TypeInv, ThreadsOK
<1>. QED
  BY <1>1, <1>2, <1>3, <1>4 DEF Strange, Owners, Busy

LEMMA NextMixed == TypeInv /\ MixedInv /\ [Next]_vars => MixedInv'
<1> SUFFICES ASSUME TypeInv, MixedInv, [Next]_vars PROVE MixedInv'
  OBVIOUS
<1>1. ASSUME NEW t \in Threads, Knock(t) PROVE MixedInv'
  <2>1. Strange' = Strange \cup {t} /\ Owners' = Owners /\ t \notin Owners
    BY <1>1 DEF Knock, Goto, Strange, Owners, Busy, TypeInv, ThreadsOK
  <2>2. mixed \subseteq mixed' /\ (Strange # {} => Strange \cup {t} \subseteq mixed')
    BY <1>1 DEF Knock, Overlap
  <2>. QED
    BY <2>1, <2>2 DEF MixedInv
<1>2. ASSUME NEW t \in Threads, NEW m \in Messages, Receive(t, m) PROVE MixedInv'
  <2>1. Strange' = Strange /\ Owners' = Owners \cup {t}
    BY <1>2 DEF Receive, Goto, Strange, Owners, Busy, TypeInv, ThreadsOK
  <2>2. mixed \subseteq mixed' /\ (Owners # {} => Owners \cup {t} \subseteq mixed')
    BY <1>2 DEF Receive, Overlap, Owners
  <2>. QED
    BY <2>1, <2>2 DEF MixedInv
<1>3. ASSUME NEW t \in Threads, Work(t) PROVE MixedInv'
  BY <1>3, WorkersStay DEF MixedInv, Strange, Owners, Busy
<1>4. CASE Crash
  BY <1>4 DEF Crash, MixedInv, Strange, Owners, Busy
<1>5. CASE Cool \/ UNCHANGED vars
  BY <1>5 DEF Cool, vars, MixedInv, Strange, Owners, Busy
<1>. QED
  BY <1>1, <1>2, <1>3, <1>4, <1>5 DEF Next

LEMMA MixedInvariant == Spec => []MixedInv
<1>1. Init => MixedInv
  BY DEF Init, MixedInv, Strange, Owners, Busy
<1>. QED
  BY <1>1, NextMixed, TypeInvariant, PTL DEF Spec

-----------------------------------------------------------------------------
(* Declines. One is remembered as it is sent, and a handler that found none *)
(* remembered before was at work with the one that sent it.                 *)

DeclineInv ==
  /\ declined => cooling
  /\ \A t \in Threads : pc[t] = "decline" /\ declined => t \in mixed

LEMMA NextDecline == TypeInv /\ MixedInv /\ DeclineInv /\ [Next]_vars => DeclineInv'
<1> SUFFICES ASSUME TypeInv, MixedInv, DeclineInv, [Next]_vars PROVE DeclineInv'
  OBVIOUS
<1> USE DEF table, gate
<1>1. ASSUME NEW t \in Threads, Decline(t) PROVE DeclineInv'
  <2>1. \A u \in Threads \ {t} : pc'[u] = pc[u]
    BY <1>1 DEF Decline, Ack, Leave, Goto, TypeInv, ThreadsOK
  <2>2. pc'[t] = "idle" /\ mixed' = mixed \ {t}
    BY <1>1 DEF Decline, Ack, Leave, Goto, TypeInv, ThreadsOK
  <2>3. \A u \in Threads \ {t} : pc[u] = "decline" => u \in mixed
    BY <1>1 DEF Decline, MixedInv, Strange
  <2>. QED
    BY <1>1, <2>1, <2>2, <2>3 DEF Decline, DeclineInv
<1>2. ASSUME NEW t \in Threads, Work(t), ~Decline(t) PROVE DeclineInv'
  <2>1. UNCHANGED <<cooling, declined>>
    BY <1>2 DEF Work, Gate, Reply, FindUser, NewUser, FindConvo, NewConvo, Hear, Shortcut,
                Understand, Talk, ChatFails, Make, Speak
  <2>2. pc'[t] = "decline" => ~cooling
    BY <1>2 DEF Work, Gate, Reply, Ack, Leave, FindUser, NewUser, FindConvo, NewConvo, Hear,
                Shortcut, Understand, Talk, ChatFails, Make, Speak, Act, Report, Plan, Goto,
                TypeInv, ThreadsOK
  <2>. QED
    BY <1>2, <2>1, <2>2, WorkersStay DEF DeclineInv
<1>3. ASSUME NEW t \in Threads, Knock(t) \/ \E m \in Messages : Receive(t, m)
      PROVE  DeclineInv'
  BY <1>3 DEF Knock, Receive, Overlap, Goto, TypeInv, ThreadsOK, DeclineInv
<1>4. CASE Cool \/ Crash \/ UNCHANGED vars
  BY <1>4 DEF Cool, Crash, vars, DeclineInv
<1>. QED
  BY <1>1, <1>2, <1>3, <1>4 DEF Next

\* However many strangers' messages are at work: a second decline within the
\* hour is sent only by a handler that overlapped with another one.
THEOREM DeclinesAreRareCorrect == Spec => DeclinesAreRare
<1>1. Init => DeclineInv
  BY DEF Init, DeclineInv
<1>2. DeclineInv /\ [Next]_vars =>
        [\A t \in Threads :
           pc[t] = "decline" /\ declined /\ pc'[t] = "idle" /\ crashes' = crashes
             => t \in mixed]_vars
  BY DEF DeclineInv
<1>. QED
  BY <1>1, <1>2, NextDecline, MixedInvariant, TypeInvariant, PTL DEF Spec, DeclinesAreRare

-----------------------------------------------------------------------------
(* Token counts. A conversation with rows has a last one. A handler that    *)
(* did not share its time is the only one that writes rows, and its own     *)
(* message is the last of all.                                              *)

LastsExist == \A i \in DOMAIN log : \E j \in RowsOf(log[i].convo) :
  \A k \in RowsOf(log[i].convo) : k <= j

Asking == {"intent", "talk"}
LogInv ==
  /\ LastsExist
  /\ \A t \in Threads : pc[t] \in Asking =>
       /\ RowsOf(job[t].convo) # {}
       /\ t \notin mixed =>
            /\ Len(log) # 0
            /\ log[Len(log)].convo = job[t].convo
            /\ log[Len(log)].role = "user" /\ log[Len(log)].of = job[t].msg

LEMMA LastIsLast ==
  ASSUME TypeInv, LogInv, NEW c, RowsOf(c) # {}
  PROVE  LastOf(c) \in RowsOf(c) /\ \A k \in RowsOf(c) : k <= LastOf(c)
<1>1. PICK i \in DOMAIN log : log[i].convo = c
  BY DEF RowsOf
<1>2. \E j \in RowsOf(c) : \A k \in RowsOf(c) : k <= j
  BY <1>1 DEF LogInv, LastsExist
<1>. QED
  BY <1>2 DEF LastOf

LEMMA AppendLog ==
  ASSUME TypeInv, LogInv, NEW t \in Threads, NEW role, AddMessage(t, role), UNCHANGED job
  PROVE  /\ LastsExist'
         /\ Len(log') # 0 /\ log'[Len(log')].convo = job[t].convo
         /\ log'[Len(log')].role = role /\ log'[Len(log')].of = job[t].msg
         /\ RowsOf(job[t].convo)' # {}
         /\ \A c : RowsOf(c) # {} => RowsOf(c)' # {}
<1>. DEFINE e == [convo |-> job[t].convo, role |-> role, of |-> job[t].msg, usage |-> Nobody]
            n == Len(log)
<1>1. log \in Seq(Row) /\ n \in Nat /\ log' = Append(log, e)
  BY DEF TypeInv, TablesOK, AddMessage
<1>2. e.convo = job[t].convo /\ e.role = role /\ e.of = job[t].msg
  OBVIOUS
<1>. HIDE DEF e
<1>3. /\ DOMAIN log = 1 .. n /\ DOMAIN log' = 1 .. n + 1 /\ Len(log') = n + 1
      /\ log'[n + 1] = e /\ \A i \in 1 .. n : log'[i] = log[i]
  BY <1>1
<1>. DEFINE New(c) == {k \in 1 .. n + 1 : log'[k].convo = c}
<1>4. \A c : New(c) = IF c = e.convo THEN RowsOf(c) \cup {n + 1} ELSE RowsOf(c)
  BY <1>1, <1>3 DEF RowsOf
<1>5. \A c : \A k \in RowsOf(c) : k \in 1 .. n
  BY <1>3 DEF RowsOf
<1>6. LastsExist'
  <2>1. SUFFICES ASSUME NEW i \in 1 .. n + 1
                 PROVE  \E j \in New(log'[i].convo) : \A k \in New(log'[i].convo) : k <= j
    BY <1>3 DEF LastsExist, RowsOf
  <2>. HIDE DEF New
  <2>2. CASE log'[i].convo = e.convo
    <3>1. New(e.convo) = RowsOf(e.convo) \cup {n + 1}
      BY <1>4
    <3>2. n + 1 \in New(e.convo) /\ \A k \in New(e.convo) : k <= n + 1
      BY <1>1, <1>5, <3>1
    <3>. QED
      BY <2>2, <3>2
  <2>3. CASE log'[i].convo # e.convo
    <3>1. i \in 1 .. n /\ log'[i] = log[i]
      BY <1>1, <1>3, <2>3
    <3>2. \E j \in RowsOf(log[i].convo) : \A k \in RowsOf(log[i].convo) : k <= j
      BY <1>3, <3>1 DEF LogInv, LastsExist
    <3>. QED
      BY <1>4, <2>3, <3>1, <3>2
  <2>. QED
    BY <2>2, <2>3
<1>7. RowsOf(job[t].convo)' # {}
  <2>1. n + 1 \in New(e.convo)
    BY <1>1, <1>3
  <2>2. RowsOf(job[t].convo)' = {k \in DOMAIN log' : log'[k].convo = job'[t].convo}
    BY DEF RowsOf
  <2>. QED
    BY <1>2, <1>3, <2>1, <2>2
<1>8. \A c : RowsOf(c) # {} => RowsOf(c)' # {}
  BY <1>3, <1>4 DEF RowsOf
<1>. QED
  BY <1>1, <1>2, <1>3, <1>6, <1>7, <1>8

\* Filling in token counts moves no row.
LEMMA TokensLog ==
  ASSUME TypeInv, LogInv, NEW t \in Threads, Tokens(t)
  PROVE  LastsExist' /\ \A c : RowsOf(c)' = RowsOf(c)
<1>1. log \in [1 .. Len(log) -> Row] /\ Len(log) \in Nat
  BY SeqDef DEF TypeInv, TablesOK
<1>2. log' = [log EXCEPT ![LastOf(job[t].convo)].usage = job[t].msg]
  BY DEF Tokens
<1>3. \A r \in Row : [r EXCEPT !.usage = job[t].msg].convo = r.convo
  BY DEF Row
<1>4. DOMAIN log' = DOMAIN log /\ \A i \in DOMAIN log : log'[i].convo = log[i].convo
  BY <1>1, <1>2, <1>3
<1>5. \A c : RowsOf(c)' = RowsOf(c)
  BY <1>4 DEF RowsOf
<1>6. LastsExist'
  BY <1>4, <1>5 DEF LogInv, LastsExist, RowsOf
<1>. QED
  BY <1>5, <1>6

LEMMA LogStays ==
  ASSUME LogInv, UNCHANGED log,
         \A t \in Threads : pc'[t] \in Asking =>
           pc[t] \in Asking /\ job'[t] = job[t] /\ (t \in mixed => t \in mixed')
  PROVE  LogInv'
BY DEF LogInv, LastsExist, RowsOf

LEMMA WorkLog ==
  ASSUME TypeInv, MixedInv, LogInv, NEW t \in Threads, Work(t)
  PROVE  LogInv'
<1> USE DEF table, gate
<1>1. \A u \in Threads \ {t} : /\ pc'[u] = pc[u] /\ job'[u] = job[u]
                              /\ (u \in mixed <=> u \in mixed')
  BY WorkersStay
<1>2. t \in Owners => \A u \in Threads \ {t} : pc[u] \in Asking => u \in mixed
  BY DEF MixedInv, Owners, Busy, Strange, Asking
<1>3. CASE Hear(t)
  <2>1. t \in Owners /\ AddMessage(t, "user") /\ job' = job
    BY <1>3 DEF Hear, Owners, Busy, Strange
  <2>. QED
    BY <1>1, <1>2, <2>1, AppendLog DEF LogInv
<1>4. CASE Speak(t)
  <2>1. t \in Owners /\ AddMessage(t, "assistant") /\ job' = job
    BY <1>4 DEF Speak, Owners, Busy, Strange
  <2>2. pc'[t] \notin Asking
    BY <1>4 DEF Speak, Goto, Asking, TypeInv, ThreadsOK
  <2>. QED
    BY <1>1, <1>2, <2>1, <2>2, AppendLog DEF LogInv
<1>5. CASE Talk(t)
  <2>1. pc'[t] = "speak"
    BY <1>5 DEF Talk, Goto, TypeInv, ThreadsOK
  <2>2. CASE UNCHANGED log
    BY <1>1, <2>1, <2>2, LogStays DEF Asking
  <2>3. CASE Tokens(t)
    <3>1. t \in Owners
      BY <1>5 DEF Talk, Owners, Busy, Strange
    <3>2. \A u \in Threads : pc'[u] \in Asking => u # t
      BY <2>1 DEF Asking
    <3>. QED
      BY <1>1, <1>2, <2>3, <3>1, <3>2, TokensLog DEF LogInv
  <2>. QED
    BY <1>5, <2>2, <2>3 DEF Talk
<1>6. CASE Shortcut(t) \/ Understand(t) \/ ChatFails(t)
  <2>1. pc[t] \in Asking /\ log' = log /\ mixed' = mixed
    BY <1>6 DEF Shortcut, Understand, ChatFails, Asking
  <2>2. pc'[t] \in Asking => job'[t] = job[t]
    BY <1>6 DEF Shortcut, Understand, ChatFails, Act, Report, Plan, Goto, Asking, TypeInv,
                ThreadsOK
  <2>. QED
    BY <1>1, <2>1, <2>2, LogStays
<1>7. CASE Gate(t) \/ Decline(t) \/ Reply(t) \/ FindUser(t) \/ NewUser(t) \/ FindConvo(t)
           \/ NewConvo(t) \/ Make(t)
  <2>1. log' = log
    BY <1>7 DEF Gate, Decline, Reply, Ack, Leave, FindUser, NewUser, FindConvo, NewConvo, Make
  <2>2. pc'[t] \notin Asking
    BY <1>7 DEF Gate, Decline, Reply, Ack, Leave, FindUser, NewUser, FindConvo, NewConvo, Make,
                Goto, Asking, TypeInv, ThreadsOK
  <2>. QED
    BY <1>1, <2>1, <2>2, LogStays
<1>. QED
  BY <1>3, <1>4, <1>5, <1>6, <1>7 DEF Work

LEMMA NextLog == TypeInv /\ MixedInv /\ LogInv /\ [Next]_vars => LogInv'
<1> SUFFICES ASSUME TypeInv, MixedInv, LogInv, [Next]_vars PROVE LogInv'
  OBVIOUS
<1>1. ASSUME NEW t \in Threads, Knock(t) \/ \E m \in Messages : Receive(t, m) PROVE LogInv'
  <2>1. \A u \in Threads : pc'[u] \in Asking =>
          pc[u] \in Asking /\ job'[u] = job[u] /\ (u \in mixed => u \in mixed')
    BY <1>1 DEF Knock, Receive, Overlap, Goto, Asking, TypeInv, ThreadsOK
  <2>. QED
    BY <1>1, <2>1, LogStays DEF Knock, Receive, table
<1>2. CASE Crash
  BY <1>2, LogStays DEF Crash, table, Asking
<1>3. CASE Cool \/ UNCHANGED vars
  BY <1>3, LogStays DEF Cool, vars, table
<1>. QED
  BY <1>1, <1>2, <1>3, WorkLog DEF Next

\* For any threads and messages: token counts go to a row of the handler's own
\* conversation, and to the message it answers unless it shared its time.
THEOREM TokensStayNearCorrect == Spec => TokensStayNear
<1>1. Init => LogInv
  BY DEF Init, LogInv, LastsExist, Asking
<1>2. TypeInv /\ MixedInv /\ LogInv /\ [Next]_vars =>
        [\A t \in Threads : \A i \in DOMAIN log :
           pc[t] = "talk" /\ pc'[t] = "speak" /\ log'[i].usage # log[i].usage =>
             /\ log[i].convo = job[t].convo
             /\ \/ t \in mixed
                \/ log[i].role = "user" /\ log[i].of = job[t].msg]_vars
  <2>1. SUFFICES ASSUME TypeInv, MixedInv, LogInv, [Next]_vars, NEW t \in Threads,
                        NEW i \in DOMAIN log, pc[t] = "talk", pc'[t] = "speak",
                        log'[i].usage # log[i].usage
                 PROVE  /\ log[i].convo = job[t].convo
                        /\ t \in mixed \/ (log[i].role = "user" /\ log[i].of = job[t].msg)
    OBVIOUS
  <2>2. Work(t)
    <3>1. ASSUME NEW u \in Threads, Work(u), u # t PROVE FALSE
      BY <2>1, <3>1, WorkersStay
    <3>2. ASSUME NEW u \in Threads, Knock(u) \/ \E m \in Messages : Receive(u, m) PROVE FALSE
      BY <2>1, <3>2 DEF Knock, Receive, Goto, TypeInv, ThreadsOK
    <3>3. CASE Cool \/ Crash \/ UNCHANGED vars
      BY <2>1, <3>3 DEF Cool, Crash, vars
    <3>. QED
      BY <2>1, <3>1, <3>2, <3>3 DEF Next
  <2>3. Talk(t) \/ ChatFails(t)
    BY <2>1, <2>2 DEF Work, Gate, Decline, Reply, FindUser, NewUser, FindConvo, NewConvo, Hear,
                      Shortcut, Understand, Make, Speak
  <2>4. Tokens(t)
    BY <2>1, <2>3 DEF Talk, ChatFails, table
  <2>5. i = LastOf(job[t].convo)
    <3>1. log \in [1 .. Len(log) -> Row]
      BY <2>1, SeqDef DEF TypeInv, TablesOK
    <3>. QED
      BY <2>1, <2>4, <3>1 DEF Tokens
  <2>6. i \in RowsOf(job[t].convo) /\ \A k \in RowsOf(job[t].convo) : k <= i
    BY <2>1, <2>5, LastIsLast DEF LogInv, Asking
  <2>7. CASE t \notin mixed
    <3>1. /\ Len(log) # 0 /\ log[Len(log)].convo = job[t].convo
          /\ log[Len(log)].role = "user" /\ log[Len(log)].of = job[t].msg
      BY <2>1, <2>7 DEF LogInv, Asking
    <3>2. DOMAIN log = 1 .. Len(log) /\ Len(log) \in Nat
      BY <2>1 DEF TypeInv, TablesOK
    <3>3. Len(log) \in RowsOf(job[t].convo)
      BY <3>1, <3>2 DEF RowsOf
    <3>4. i = Len(log)
      BY <2>1, <2>6, <3>2, <3>3
    <3>. QED
      BY <2>6, <3>1, <3>4 DEF RowsOf
  <2>. QED
    BY <2>6, <2>7 DEF RowsOf
<1>. QED
  BY <1>1, <1>2, NextLog, MixedInvariant, TypeInvariant, PTL DEF Spec, TokensStayNear

-----------------------------------------------------------------------------
(* Attempts. A line of attempts costs at most Line posts; a chat begins with *)
(* none and knows by its round how many lines it has behind it.             *)

Line == Endpoints * Tries

LEMMA LineIsNat ==
  /\ Line \in Nat
  /\ \A n \in 1 .. Endpoints * Tries : n \in Nat /\ n <= Line
  /\ \A n \in Endpoints .. Endpoints * Tries : n \in Nat /\ n <= Line
BY ConversationAssumption DEF Line

ChatOK(p, c) ==
  /\ p = "intent" => /\ c.round = 1 => c.n = 0
                     /\ c.round = 2 => c.n <= Line /\ c.heard
                     /\ c.round = 3 => c.n <= 2 * Line /\ (c.heard \/ c.n <= Line)
  /\ p \in {"talk", "make"} => c.n <= 3 * Line /\ (c.heard \/ c.n <= 2 * Line)
  /\ p = "speak" => c.n <= 4 * Line /\ (c.heard \/ c.n <= 3 * Line)
  /\ p \notin {"intent", "talk", "make", "speak"} => c = NoChat

ChatInv == \A t \in Threads : ChatOK(pc[t], chat[t])

LEMMA IdleChat ==
  ASSUME NEW p \in {"idle", "gate", "decline", "user", "newUser", "convo", "newConvo", "hear",
                   "intent", "reply"}
  PROVE  ChatOK(p, NoChat)
BY LineIsNat DEF ChatOK, NoChat

LEMMA WorkChat ==
  ASSUME TypeInv, ChatInv, NEW t \in Threads, Work(t)
  PROVE  ChatInv'
<1> USE DEF table, gate
<1>1. SUFFICES ChatOK(pc'[t], chat'[t])
  BY WorkersStay DEF ChatInv
<1>2. chat \in [Threads -> [round : 1 .. 3, n : Nat, heard : BOOLEAN]]
      /\ ChatOK(pc[t], chat[t]) /\ Line \in Nat
  BY LineIsNat DEF TypeInv, ThreadsOK, ChatInv
<1>3. CASE Gate(t) \/ Decline(t) \/ Reply(t) \/ FindUser(t) \/ NewUser(t) \/ FindConvo(t)
           \/ NewConvo(t) \/ Hear(t)
  <2>1. chat'[t] = NoChat
    BY <1>2, <1>3 DEF Gate, Decline, Reply, Ack, Leave, FindUser, NewUser, FindConvo, NewConvo,
                      Hear, ChatOK
  <2>2. pc'[t] \in {"idle", "gate", "decline", "user", "newUser", "convo", "newConvo", "hear",
                    "intent", "reply"}
    BY <1>3 DEF Gate, Decline, Reply, Ack, Leave, FindUser, NewUser, FindConvo, NewConvo,
                Hear, Goto, TypeInv, ThreadsOK
  <2>. QED
    BY <2>1, <2>2, IdleChat
<1>4. CASE Speak(t)
  <2>1. chat'[t] = NoChat /\ pc'[t] = "reply"
    BY <1>2, <1>4 DEF Speak, Goto, TypeInv, ThreadsOK
  <2>. QED
    BY <2>1, IdleChat
<1>5. CASE Make(t)
  <2>1. pc[t] = "make" /\ pc'[t] \in {"make", "speak"} /\ chat'[t] = chat[t]
    BY <1>5 DEF Make, Goto, TypeInv, ThreadsOK
  <2>. QED
    BY <1>2, <2>1 DEF ChatOK
<1>6. Act(t) /\ pc[t] = "intent" => pc'[t] \in {"speak", "make", "talk"}
  BY DEF Act, Report, Plan, Goto, TypeInv, ThreadsOK
<1>7. CASE Shortcut(t)
  BY <1>2, <1>6, <1>7 DEF Shortcut, ChatOK, NoChat
<1>8. CASE Understand(t)
  <2>1. PICK n \in 1 .. Endpoints * Tries :
          \/ Act(t) /\ Posted(t, n, TRUE, 1)
          \/ /\ chat[t].round < 3
             /\ Posted(t, n, TRUE, chat[t].round + 1)
             /\ UNCHANGED <<pc, job>>
    BY <1>8 DEF Understand
  <2>2. n \in Nat /\ n <= Line /\ pc[t] = "intent"
    BY <1>8, <2>1, LineIsNat DEF Understand
  <2>3. chat'[t].n = chat[t].n + n /\ chat'[t].heard
    <3>1. ASSUME NEW round, Posted(t, n, TRUE, round)
          PROVE  chat'[t].n = chat[t].n + n /\ chat'[t].heard
      BY <1>2, <3>1 DEF Posted
    <3>. QED
      BY <2>1, <3>1
  <2>4. CASE Act(t)
    BY <1>2, <1>6, <2>2, <2>3, <2>4 DEF ChatOK
  <2>5. CASE chat[t].round < 3 /\ Posted(t, n, TRUE, chat[t].round + 1) /\ UNCHANGED pc
    <3>1. chat'[t].round = chat[t].round + 1
      BY <1>2, <2>5 DEF Posted
    <3>. QED
      BY <1>2, <2>2, <2>3, <2>5, <3>1 DEF ChatOK
  <2>. QED
    BY <2>1, <2>4, <2>5
<1>9. CASE Talk(t)
  <2>1. PICK n \in 1 .. Endpoints * Tries : Posted(t, n, TRUE, 1)
    BY <1>9 DEF Talk
  <2>2. n \in Nat /\ n <= Line
    BY <2>1, LineIsNat
  <2>3. pc[t] = "talk" /\ pc'[t] = "speak"
    BY <1>9 DEF Talk, Goto, TypeInv, ThreadsOK
  <2>4. chat'[t].n = chat[t].n + n /\ chat'[t].heard
    BY <1>2, <2>1 DEF Posted
  <2>. QED
    BY <1>2, <2>2, <2>3, <2>4 DEF ChatOK
<1>10. CASE ChatFails(t)
  <2>. DEFINE r == NextRound(chat[t].round)
  <2>1. PICK n \in Endpoints .. Endpoints * Tries :
          IF pc[t] = "intent" /\ r <= 3
          THEN Posted(t, n, FALSE, r) /\ UNCHANGED pc
          ELSE /\ Posted(t, n, FALSE, 1)
               /\ Goto(t, IF pc[t] = "intent" THEN "talk" ELSE "speak")
    BY <1>10 DEF ChatFails
  <2>2. n \in Nat /\ n <= Line /\ pc[t] \in {"intent", "talk"}
    BY <1>10, <2>1, LineIsNat DEF ChatFails
  <2>3. r \in {3, 4} /\ (r = 3 <=> chat[t].round < 3)
    BY <1>2 DEF NextRound
  <2>. HIDE DEF r
  <2>4. chat'[t].n = chat[t].n + n /\ chat'[t].heard = chat[t].heard
    <3>1. ASSUME NEW round, Posted(t, n, FALSE, round)
          PROVE  chat'[t].n = chat[t].n + n /\ chat'[t].heard = chat[t].heard
      BY <1>2, <3>1 DEF Posted
    <3>. QED
      BY <2>1, <3>1
  <2>5. CASE pc[t] = "intent" /\ r <= 3
    <3>1. chat'[t].round = 3 /\ pc'[t] = "intent" /\ chat[t].round < 3
      BY <1>2, <2>1, <2>3, <2>5 DEF Posted
    <3>. QED
      BY <1>2, <2>2, <2>4, <2>5, <3>1 DEF ChatOK
  <2>6. CASE pc[t] = "intent" /\ ~(r <= 3)
    <3>1. pc'[t] = "talk" /\ chat[t].round = 3
      BY <1>2, <2>1, <2>3, <2>6 DEF Goto, TypeInv, ThreadsOK
    <3>. QED
      BY <1>2, <2>2, <2>4, <2>6, <3>1 DEF ChatOK
  <2>7. CASE pc[t] = "talk"
    <3>1. pc'[t] = "speak"
      BY <2>1, <2>7 DEF Goto, TypeInv, ThreadsOK
    <3>. QED
      BY <1>2, <2>2, <2>4, <2>7, <3>1 DEF ChatOK
  <2>. QED
    BY <2>2, <2>5, <2>6, <2>7
<1>. QED
  BY <1>3, <1>4, <1>5, <1>7, <1>8, <1>9, <1>10 DEF Work

LEMMA NextChat == TypeInv /\ ChatInv /\ [Next]_vars => ChatInv'
<1> SUFFICES ASSUME TypeInv, ChatInv, [Next]_vars PROVE ChatInv'
  OBVIOUS
<1>1. ASSUME NEW t \in Threads, Knock(t) \/ \E m \in Messages : Receive(t, m) PROVE ChatInv'
  <2>1. chat' = chat /\ pc[t] = "idle" /\ pc'[t] \in {"gate", "user"}
        /\ \A u \in Threads \ {t} : pc'[u] = pc[u]
    BY <1>1 DEF Knock, Receive, Goto, TypeInv, ThreadsOK
  <2>2. chat[t] = NoChat
    BY <2>1 DEF ChatInv, ChatOK
  <2>. QED
    BY <2>1, <2>2, IdleChat DEF ChatInv
<1>2. CASE Crash
  BY <1>2, IdleChat DEF Crash, ChatInv
<1>3. CASE Cool \/ UNCHANGED vars
  BY <1>3 DEF Cool, vars, ChatInv
<1>. QED
  BY <1>1, <1>2, <1>3, WorkChat DEF Next

-----------------------------------------------------------------------------
(* Tasks. Deliveries differ, so what one has made is its handler's alone.   *)

Before == {"user", "newUser", "convo", "newConvo", "hear", "intent"}

MadeInv ==
  /\ \A d \in Deliveries : made[d] <= MaxMade /\ (d[2] > delivered[d[1]] => made[d] = 0)
  /\ \A t \in Threads : pc[t] \notin Outside => job[t].msg[2] <= delivered[job[t].msg[1]]
  /\ \A t \in Threads, u \in Threads :
       t # u /\ pc[t] \notin Outside /\ pc[u] \notin Outside => job[t].msg # job[u].msg
  /\ \A t \in Threads :
       /\ pc[t] \in Before => made[job[t].msg] = 0
       /\ pc[t] = "make" => made[job[t].msg] + job[t].left <= MaxMade

\* Steps that make nothing and bring nobody back before it.
LEMMA MadeStays ==
  ASSUME TypeInv, MadeInv, UNCHANGED <<made, delivered>>,
         \A t \in Threads : pc'[t] \notin Outside =>
           /\ pc[t] \notin Outside /\ job'[t].msg = job[t].msg
           /\ pc'[t] \in Before => pc[t] \in Before
           /\ pc'[t] = "make" =>
                \/ pc[t] = "make" /\ job'[t].left = job[t].left
                \/ pc[t] \in Before /\ job'[t].left \in 1 .. MaxMade
  PROVE  MadeInv'
<1>1. \A t \in Threads : pc'[t] = "make" => pc'[t] \notin Outside
  BY DEF Outside
<1>2. \A t \in Threads : pc'[t] \in Before => pc'[t] \notin Outside
  BY DEF Outside, Before
<1>3. \A t \in Threads : pc[t] \in Before /\ job'[t].left \in 1 .. MaxMade =>
        made[job[t].msg] + job'[t].left <= MaxMade
  BY DEF MadeInv
<1>. QED
  BY <1>1, <1>2, <1>3 DEF MadeInv

LEMMA WorkMade ==
  ASSUME TypeInv, MadeInv, NEW t \in Threads, Work(t)
  PROVE  MadeInv'
<1> USE DEF table, gate
<1>1. \A u \in Threads \ {t} : pc'[u] = pc[u] /\ job'[u] = job[u]
  BY WorkersStay
<1>2. delivered' = delivered
  BY DEF Work, Gate, Decline, Reply, Ack, Leave, FindUser, NewUser, FindConvo, NewConvo, Hear,
         Shortcut, Understand, Talk, ChatFails, Make, Speak
<1>3. CASE Make(t)
  <2>1. job[t].msg \in Deliveries /\ job[t].left \in 1 .. MaxMade /\ pc[t] = "make"
    BY <1>3, ConversationAssumption
       DEF Make, TypeInv, ThreadsOK, JobsOK, Job, Outside, Inside
  <2>2. /\ made' = [made EXCEPT ![job[t].msg] = @ + 1] /\ made \in [Deliveries -> Nat]
        /\ job'[t].msg = job[t].msg /\ job'[t].left = job[t].left - 1
        /\ pc'[t] \in {"make", "speak"}
    BY <1>3 DEF Make, Goto, TypeInv, ThreadsOK, TablesOK, Job
  <2>3. made[job[t].msg] + job[t].left <= MaxMade /\ job[t].msg[2] <= delivered[job[t].msg[1]]
    BY <2>1 DEF MadeInv, Outside
  <2>4. \A u \in Threads \ {t} : pc[u] \notin Outside => job[u].msg # job[t].msg
    BY <2>1 DEF MadeInv, Outside
  <2>5. \A d \in Deliveries : made'[d] <= MaxMade /\ (d[2] > delivered[d[1]] => made'[d] = 0)
    <3>1. made'[job[t].msg] <= MaxMade
      BY <2>1, <2>2, <2>3, ConversationAssumption
    <3>2. delivered[job[t].msg[1]] \in Nat /\ job[t].msg[2] \in Nat
      BY <2>1, ConversationAssumption DEF Deliveries, TypeInv, TelegramOK
    <3>3. \A d \in Deliveries : d # job[t].msg => made'[d] = made[d]
      BY <2>2
    <3>4. ~(job[t].msg[2] > delivered[job[t].msg[1]])
      BY <2>3, <3>2
    <3>. QED
      BY <3>1, <3>3, <3>4 DEF MadeInv
  <2>6. \A u \in Threads \ {t} : pc[u] \notin Outside => made'[job[u].msg] = made[job[u].msg]
    BY <2>2, <2>4
  <2>7. pc'[t] = "make" => made'[job'[t].msg] + job'[t].left <= MaxMade
    BY <2>1, <2>2, <2>3, ConversationAssumption
  <2>8. \A u \in Threads : pc'[u] \in Before \/ pc'[u] = "make" => pc'[u] \notin Outside
    BY DEF Before, Outside
  <2>9. pc'[t] \notin Before /\ pc[t] \notin Outside
    BY <2>1, <2>2 DEF Before, Outside
  <2>. QED
    BY <1>1, <1>2, <2>2, <2>5, <2>6, <2>7, <2>8, <2>9 DEF MadeInv
<1>4. CASE Work(t) /\ ~Make(t)
  <2>1. made' = made
    BY <1>4 DEF Work, Gate, Decline, Reply, Ack, Leave, FindUser, NewUser, FindConvo, NewConvo,
                Hear, Shortcut, Understand, Talk, ChatFails, Speak
  <2>2. CASE Gate(t) \/ Decline(t) \/ Reply(t)
    <3>1. pc'[t] \in Outside
      BY <2>2 DEF Gate, Decline, Reply, Ack, Leave, Goto, Outside, TypeInv, ThreadsOK
    <3>. QED
      BY <1>1, <1>2, <2>1, <3>1, MadeStays
  <2>3. CASE FindUser(t) \/ NewUser(t) \/ FindConvo(t) \/ NewConvo(t) \/ Hear(t)
    <3>1. pc[t] \in Before /\ pc[t] \notin Outside /\ pc'[t] # "make"
          /\ job'[t].msg = job[t].msg
      BY <2>3 DEF FindUser, NewUser, FindConvo, NewConvo, Hear, Goto, Before, Outside, TypeInv,
                  ThreadsOK, Job
    <3>. QED
      BY <1>1, <1>2, <2>1, <3>1, MadeStays
  <2>4. CASE Shortcut(t) \/ Understand(t)
    <3>1. pc[t] = "intent" /\ (Act(t) \/ UNCHANGED <<pc, job>>)
      BY <2>4 DEF Shortcut, Understand
    <3>2. pc[t] \in Before /\ pc[t] \notin Outside
      BY <3>1 DEF Before, Outside
    <3>3. job'[t].msg = job[t].msg
      BY <3>1 DEF Act, Report, Plan, TypeInv, ThreadsOK, Job
    <3>4. pc'[t] = "make" => job'[t].left \in 1 .. MaxMade
      BY <3>1 DEF Act, Report, Plan, Goto, TypeInv, ThreadsOK, Job
    <3>. QED
      BY <1>1, <1>2, <2>1, <3>2, <3>3, <3>4, MadeStays
  <2>5. CASE Talk(t) \/ ChatFails(t) \/ Speak(t)
    <3>1. /\ pc[t] \notin Outside /\ job' = job /\ pc'[t] # "make"
          /\ pc'[t] \in Before => pc[t] \in Before
      BY <2>5 DEF Talk, ChatFails, Speak, Goto, Before, Outside, TypeInv, ThreadsOK
    <3>. QED
      BY <1>1, <1>2, <2>1, <3>1, MadeStays
  <2>. QED
    BY <1>4, <2>2, <2>3, <2>4, <2>5 DEF Work
<1>. QED
  BY <1>3, <1>4

LEMMA ReceiveMade ==
  ASSUME TypeInv, MadeInv, NEW t \in Threads, NEW m \in Messages, Receive(t, m)
  PROVE  MadeInv'
<1>. DEFINE d == <<m, delivered[m] + 1>>
<1>1. delivered[m] \in Nat /\ delivered[m] < MaxDeliveries + MaxCrashes
  BY ConversationAssumption DEF Receive, TypeInv, TelegramOK
<1>2. d \in Deliveries /\ d[1] = m /\ d[2] = delivered[m] + 1
  BY <1>1, ConversationAssumption DEF Deliveries
<1>3. made[d] = 0
  BY <1>1, <1>2 DEF MadeInv
<1>4. /\ delivered' = [delivered EXCEPT ![m] = @ + 1] /\ made' = made
      /\ job'[t].msg = d /\ pc'[t] = "user"
      /\ \A u \in Threads \ {t} : pc'[u] = pc[u] /\ job'[u] = job[u]
  BY DEF Receive, Goto, TypeInv, ThreadsOK, Job
<1>5. \A u \in Threads : pc[u] \notin Outside => job[u].msg \in Deliveries
  BY DEF TypeInv, JobsOK
<1>6. \A e \in Deliveries : e[1] \in Messages /\ e[2] \in Nat
  BY ConversationAssumption DEF Deliveries
<1>7. \A e \in Messages : /\ delivered[e] \in Nat /\ delivered'[e] \in Nat
                         /\ delivered'[e] >= delivered[e]
  BY <1>4, ConversationAssumption DEF TypeInv, TelegramOK
<1>8. delivered'[m] = delivered[m] + 1
  BY <1>4 DEF TypeInv, TelegramOK
<1>. HIDE DEF d
<1>9. \A u \in Threads \ {t} : pc[u] \notin Outside => job[u].msg # d
  BY <1>1, <1>2, <1>5 DEF MadeInv
<1>10. \A e \in Deliveries : made'[e] <= MaxMade /\ (e[2] > delivered'[e[1]] => made'[e] = 0)
  BY <1>4, <1>6, <1>7, <1>8 DEF MadeInv, TypeInv, TelegramOK
<1>11. \A u \in Threads : pc'[u] \notin Outside => job'[u].msg[2] <= delivered'[job'[u].msg[1]]
  <2>1. job'[t].msg[2] <= delivered'[job'[t].msg[1]]
    BY <1>1, <1>2, <1>4, <1>8
  <2>2. ASSUME NEW u \in Threads \ {t}, pc[u] \notin Outside
        PROVE  job[u].msg[2] <= delivered'[job[u].msg[1]]
    <3>1. job[u].msg[1] \in Messages /\ job[u].msg[2] \in Nat
      BY <1>5, <1>6, <2>2
    <3>2. job[u].msg[2] <= delivered[job[u].msg[1]]
      BY <2>2 DEF MadeInv
    <3>. DEFINE e == job[u].msg
    <3>3. delivered[e[1]] \in Nat /\ delivered'[e[1]] \in Nat /\ delivered'[e[1]] >= delivered[e[1]]
      BY <1>7, <3>1
    <3>. QED
      BY <3>1, <3>2, <3>3
  <2>. QED
    BY <1>4, <2>1, <2>2
<1>12. "user" \notin Outside /\ "user" # "make"
  BY DEF Outside
<1>13. \A u \in Threads, v \in Threads :
         u # v /\ pc'[u] \notin Outside /\ pc'[v] \notin Outside => job'[u].msg # job'[v].msg
  BY <1>4, <1>9 DEF MadeInv
<1>14. \A u \in Threads :
         /\ pc'[u] \in Before => made'[job'[u].msg] = 0
         /\ pc'[u] = "make" => made'[job'[u].msg] + job'[u].left <= MaxMade
  BY <1>3, <1>4, <1>12 DEF MadeInv
<1>. QED
  BY <1>10, <1>11, <1>13, <1>14 DEF MadeInv

LEMMA NextMade == TypeInv /\ MadeInv /\ [Next]_vars => MadeInv'
<1> SUFFICES ASSUME TypeInv, MadeInv, [Next]_vars PROVE MadeInv'
  OBVIOUS
<1>1. ASSUME NEW t \in Threads, Knock(t) PROVE MadeInv'
  <2>1. pc'[t] \in Outside /\ \A u \in Threads \ {t} : pc'[u] = pc[u]
    BY <1>1 DEF Knock, Goto, Outside, TypeInv, ThreadsOK
  <2>. QED
    BY <1>1, <2>1, MadeStays DEF Knock
<1>2. CASE Crash
  BY <1>2, MadeStays DEF Crash, Outside
<1>3. CASE Cool \/ UNCHANGED vars
  BY <1>3, MadeStays DEF Cool, vars
<1>. QED
  BY <1>1, <1>2, <1>3, ReceiveMade, WorkMade DEF Next

\* For any number of attempts, endpoints and deliveries: the retries of the LLM
\* provider nest no deeper than four lines of attempts, three when nobody
\* answers, and a delivery creates no more tasks than it asks for.
THEOREM WorkIsBoundedCorrect == Spec => []WorkIsBounded
<1>1. Init => ChatInv /\ MadeInv
  <2>1. Init => ChatInv
    BY IdleChat DEF Init, ChatInv
  <2>2. Init => MadeInv
    BY ConversationAssumption DEF Init, MadeInv, Outside, Before
  <2>. QED
    BY <2>1, <2>2
<1>2. TypeInv /\ ChatInv /\ MadeInv => WorkIsBounded
  <2>1. SUFFICES ASSUME TypeInv, ChatInv, MadeInv PROVE WorkIsBounded
    OBVIOUS
  <2>2. \A t \in Threads : chat[t].n <= 4 * Line /\ (~chat[t].heard => chat[t].n <= 3 * Line)
    <3>1. SUFFICES ASSUME NEW t \in Threads
                   PROVE  chat[t].n <= 4 * Line /\ (~chat[t].heard => chat[t].n <= 3 * Line)
      OBVIOUS
    <3>2. chat[t] \in [round : 1 .. 3, n : Nat, heard : BOOLEAN] /\ ChatOK(pc[t], chat[t])
      BY <2>1 DEF TypeInv, ThreadsOK, ChatInv
    <3>. QED
      BY <3>2, LineIsNat DEF ChatOK, NoChat
  <2>3. 4 * Line = 4 * Endpoints * Tries /\ 3 * Line = 3 * Endpoints * Tries
    BY ConversationAssumption DEF Line
  <2>. QED
    BY <2>1, <2>2, <2>3 DEF WorkIsBounded, MadeInv
<1>. QED
  BY <1>1, <1>2, NextChat, NextMade, TypeInvariant, PTL DEF Spec
===============================================================================
