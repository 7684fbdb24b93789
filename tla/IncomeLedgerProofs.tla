-------------------------- MODULE IncomeLedgerProofs --------------------------
(***************************************************************************)
(* Proofs about IncomeLedger, for any incomes, reminders and threads.      *)
(***************************************************************************)
EXTENDS IncomeLedger, MCJalali, FiniteSetTheorems, TLAPS

\* A thread that decides on or sends a reminder has one, and the reminder was
\* requested for an income.
AtReminder(t) == pc[t] \notin {"idle", "sweep", "ask"}
RemOK ==
  /\ \A t \in Threads : AtReminder(t) => rem[t] \in Reminders /\ rstate[rem[t]] # "none"
  /\ \A r \in Reminders : rstate[r] # "none" => about[r] \in Incomes

TypeInv == LedgerTypeOK /\ RemOK

LEMMA InitTypes == Init => TypeInv
BY LedgerAssumption DEF Init, TypeInv, LedgerTypeOK, RemOK, AtReminder, Due, Never,
   Way, Steps, Stored

LEMMA ReleaseTypes ==
  ASSUME LedgerTypeOK, NEW t \in Threads, Release(t)
  PROVE  /\ pc' \in [Threads -> Steps]
         /\ job' \in [Threads -> {"summary", "remind"}]
         /\ todo' \in [Threads -> SUBSET Incomes]
         /\ rem' \in [Threads -> Reminders \cup {NoReminder}]
         /\ read' \in [Threads -> Nat]
         /\ felt' \in [Threads -> BOOLEAN]
         /\ \A u \in Threads : pc'[u] # "idle" =>
              u # t /\ pc'[u] = pc[u] /\ rem'[u] = rem[u]
BY DEF LedgerTypeOK, Release, Steps

LEMMA ArriveTypes ==
  ASSUME TypeInv, NEW t \in Threads, Arrive(t)
  PROVE  TypeInv'
<1> USE LedgerAssumption DEF TypeInv, Serve, reminders, ledger, locals, ghosts
<1>1. ASSUME NEW i \in Incomes, NEW st \in Stored, NEW d \in Due, Create(t, i, st, d)
      PROVE  TypeInv'
  BY <1>1 DEF Create, LedgerTypeOK, RemOK, AtReminder
<1>2. ASSUME NEW i \in Incomes, MarkPaid(t, i) PROVE TypeInv'
  BY <1>2 DEF MarkPaid, LedgerTypeOK, RemOK, AtReminder, Stored
<1>3. ASSUME NEW i \in Incomes, Update(t, i) PROVE TypeInv'
  BY <1>3 DEF Update, LedgerTypeOK, RemOK, AtReminder
<1>4. ASSUME NEW i \in Incomes, Delete(t, i) PROVE TypeInv'
  BY <1>4 DEF Delete, LedgerTypeOK, RemOK, AtReminder
<1>5. ASSUME NEW i \in Incomes, AskOne(t, i) PROVE TypeInv'
  BY <1>5 DEF AskOne, Ask, LedgerTypeOK, RemOK, AtReminder
<1>6. ASSUME NEW j \in {"summary", "remind"}, SweepStart(t, j) PROVE TypeInv'
  BY <1>6 DEF SweepStart, LedgerTypeOK, RemOK, AtReminder, Steps
<1>7. ASSUME NEW r \in Reminders, NEW next \in {"grant", "close"}, Press(t, r, next)
      PROVE  TypeInv'
  BY <1>7 DEF Press, LedgerTypeOK, RemOK, AtReminder, Steps, Outcome
<1>. QED
  BY <1>1, <1>2, <1>3, <1>4, <1>5, <1>6, <1>7 DEF Arrive

LEMMA GoesTypes ==
  ASSUME TypeInv, NEW t \in Threads, AtReminder(t), NEW next \in Steps,
         NEW arrives \in BOOLEAN, Goes(t, next, arrives)
  PROVE  TypeInv'
<1> USE DEF TypeInv, Goes, ledger, reminders
<1>1. rem[t] \in Reminders /\ about[rem[t]] \in Incomes
  BY DEF RemOK
<1>2. messages' \in [Incomes -> Nat] /\ reached' \in [Reminders -> Nat]
  BY <1>1 DEF LedgerTypeOK
<1>3. felt' \in [Threads -> BOOLEAN]
  BY DEF LedgerTypeOK
<1>4. LedgerTypeOK'
  BY <1>2, <1>3 DEF LedgerTypeOK
<1>5. RemOK'
  BY <1>1 DEF RemOK, AtReminder, LedgerTypeOK
<1>. QED
  BY <1>4, <1>5

LEMMA WorkTypes ==
  ASSUME TypeInv, NEW t \in Threads, Work(t)
  PROVE  TypeInv'
<1> USE DEF TypeInv, reminders, ledger, locals, ghosts
<1>1. CASE SweepRow(t)
  BY <1>1 DEF SweepRow, LedgerTypeOK, RemOK, AtReminder, Stored
<1>2. CASE Summarise(t) \/ AskDone(t)
  BY <1>2, ReleaseTypes DEF Summarise, AskDone, LedgerTypeOK, RemOK, AtReminder
<1>3. CASE ListOverdue(t)
  BY <1>3 DEF ListOverdue, LedgerTypeOK, RemOK, AtReminder, Steps
<1>4. CASE AskNext(t)
  BY <1>4 DEF AskNext, Ask, LedgerTypeOK, RemOK, AtReminder
<1>5. CASE AskSkip(t)
  BY <1>5 DEF AskSkip, LedgerTypeOK, RemOK, AtReminder
<1>6. CASE Grant(t)
  BY <1>6 DEF Grant, LedgerTypeOK, RemOK, AtReminder, Steps
<1>7. CASE Store(t)
  <2>1. rem[t] \in Reminders
    BY <1>7 DEF Store, RemOK, AtReminder, Outcome
  <2>2. rstate' \in [Reminders ->
          {"none", "pending", "approved", "closed", "executed", "failed"}]
        /\ \A r \in Reminders : rstate'[r] # "none" <=> rstate[r] # "none"
    BY <1>7, <2>1 DEF Store, Outcome, LedgerTypeOK, RemOK, AtReminder
  <2>. QED
    BY <1>7, <2>1, <2>2, ReleaseTypes DEF Store, LedgerTypeOK, RemOK, AtReminder
<1>8. CASE SendChat(t) \/ ResendChat(t) \/ NoChat(t) \/ SendMail(t) \/ NoMail(t)
           \/ SkipNote(t)
  <2>1. AtReminder(t)
    BY <1>8 DEF AtReminder, SendChat, ResendChat, NoChat, SendMail, NoMail, SkipNote
  <2>2. PICK next \in Steps, arrives \in BOOLEAN : Goes(t, next, arrives)
    BY <1>8 DEF Steps, Outcome, SendChat, ResendChat, NoChat, SendMail, NoMail, SkipNote
  <2>. QED
    BY <2>1, <2>2, GoesTypes
<1>9. CASE ReadNote(t)
  <2>1. about[rem[t]] \in Incomes
    BY <1>9 DEF ReadNote, RemOK, AtReminder
  <2>. QED
    BY <1>9, <2>1 DEF ReadNote, LedgerTypeOK, RemOK, AtReminder, Steps
<1>10. CASE WriteNote(t)
  <2>1. about[rem[t]] \in Incomes
    BY <1>10 DEF WriteNote, RemOK, AtReminder
  <2>. QED
    BY <1>10, <2>1 DEF WriteNote, LedgerTypeOK, RemOK, AtReminder, Steps, Outcome
<1>. QED
  BY <1>1, <1>2, <1>3, <1>4, <1>5, <1>6, <1>7, <1>8, <1>9, <1>10 DEF Work

LEMMA NextTypes == TypeInv /\ [Next]_vars => TypeInv'
<1> SUFFICES ASSUME TypeInv, [Next]_vars PROVE TypeInv'
  OBVIOUS
<1>1. CASE Tick
  BY <1>1, LedgerAssumption
     DEF Tick, TypeInv, LedgerTypeOK, RemOK, AtReminder, reminders, ledger, locals, ghosts
<1>2. CASE UNCHANGED vars
  BY <1>2 DEF vars, TypeInv, LedgerTypeOK, RemOK, AtReminder, Exists, reminders, ledger,
              locals, ghosts
<1>3. ASSUME NEW t \in Threads, Die(t) PROVE TypeInv'
  BY <1>3, ReleaseTypes
     DEF Die, TypeInv, LedgerTypeOK, RemOK, AtReminder, reminders, ledger, ghosts
<1>. QED
  BY <1>1, <1>2, <1>3, ArriveTypes, WorkTypes DEF Next

LEMMA TypeInvariant == Spec => []TypeInv
BY InitTypes, NextTypes, PTL DEF Spec

\* Types are kept, for any incomes, reminders and threads, and a sent reminder
\* always has a row and an income.
THEOREM LedgerTypeCorrect == Spec => []LedgerTypeOK
<1>1. TypeInv => LedgerTypeOK
  BY DEF TypeInv
<1>. QED
  BY <1>1, TypeInvariant, PTL

-----------------------------------------------------------------------------
(* Recorded payments. A settled income is paid, so no later sweep selects  *)
(* it, and it was in no sweep's hands when it was paid.                    *)

SettledInv ==
  /\ RecordedPaymentStands
  /\ \A t \in Threads : pc[t] = "sweep" => todo[t] \cap settled = {}

LEMMA InitSettled == Init => SettledInv
BY DEF Init, SettledInv, RecordedPaymentStands

\* Steps that leave the ledger's statuses alone and select no income.
LEMMA SettledStays ==
  ASSUME SettledInv, UNCHANGED <<status, settled>>,
         \A t \in Threads : pc'[t] = "sweep" => pc[t] = "sweep" /\ todo'[t] \subseteq todo[t]
  PROVE  SettledInv'
BY DEF SettledInv, RecordedPaymentStands

LEMMA NextSettled == TypeInv /\ SettledInv /\ [Next]_vars => SettledInv'
<1> SUFFICES ASSUME TypeInv, SettledInv, [Next]_vars PROVE SettledInv'
  OBVIOUS
<1> USE DEF TypeInv, ledger, reminders, locals, ghosts
<1>1. CASE Tick \/ UNCHANGED vars
  BY <1>1, SettledStays DEF Tick, vars
<1>2. ASSUME NEW t \in Threads, Arrive(t) PROVE SettledInv'
  <2>1. ASSUME NEW i \in Incomes, NEW st \in Stored, NEW d \in Due, Create(t, i, st, d)
        PROVE  SettledInv'
    BY <2>1 DEF Create, Serve, SettledInv, RecordedPaymentStands, LedgerTypeOK
  <2>2. ASSUME NEW i \in Incomes, MarkPaid(t, i) PROVE SettledInv'
    <3>1. \A u \in Threads : pc[u] = "sweep" => todo[u] \cap ({i} \ Selected) = {}
      BY DEF Selected
    <3>. QED
      BY <2>2, <3>1 DEF MarkPaid, SettledInv, RecordedPaymentStands, LedgerTypeOK
  <2>3. ASSUME NEW i \in Incomes, Update(t, i) \/ Delete(t, i) PROVE SettledInv'
    BY <2>3 DEF Update, Delete, SettledInv, RecordedPaymentStands, LedgerTypeOK
  <2>4. ASSUME NEW i \in Incomes, AskOne(t, i) PROVE SettledInv'
    BY <2>4, SettledStays DEF AskOne
  <2>5. ASSUME NEW j \in {"summary", "remind"}, SweepStart(t, j) PROVE SettledInv'
    BY <2>5 DEF SweepStart, SettledInv, RecordedPaymentStands, LedgerTypeOK
  <2>6. ASSUME NEW r \in Reminders, NEW next \in {"grant", "close"}, Press(t, r, next)
        PROVE  SettledInv'
    BY <2>6, SettledStays DEF Press, LedgerTypeOK
  <2>. QED
    BY <1>2, <2>1, <2>2, <2>3, <2>4, <2>5, <2>6 DEF Arrive
<1>3. ASSUME NEW t \in Threads, Work(t) PROVE SettledInv'
  <2>1. CASE SweepRow(t)
    BY <2>1 DEF SweepRow, SettledInv, RecordedPaymentStands, LedgerTypeOK
  <2>2. CASE Summarise(t) \/ AskDone(t) \/ Store(t)
    BY <2>2, SettledStays DEF Summarise, AskDone, Store, Release, LedgerTypeOK
  <2>3. CASE ListOverdue(t) \/ AskNext(t) \/ AskSkip(t) \/ Grant(t)
             \/ ReadNote(t) \/ WriteNote(t)
    BY <2>3, SettledStays
       DEF ListOverdue, AskNext, AskSkip, Grant, ReadNote, WriteNote, LedgerTypeOK
  <2>4. CASE SendChat(t) \/ ResendChat(t) \/ NoChat(t) \/ SendMail(t) \/ NoMail(t)
             \/ SkipNote(t)
    <3>1. PICK next \in Steps \ {"sweep"}, arrives \in BOOLEAN : Goes(t, next, arrives)
      BY <2>4 DEF Steps, Outcome, SendChat, ResendChat, NoChat, SendMail, NoMail, SkipNote
    <3>. QED
      BY <3>1, SettledStays DEF Goes, LedgerTypeOK
  <2>. QED
    BY <1>3, <2>1, <2>2, <2>3, <2>4 DEF Work
<1>4. ASSUME NEW t \in Threads, Die(t) PROVE SettledInv'
  BY <1>4, SettledStays DEF Die, Release, LedgerTypeOK
<1>. QED
  BY <1>1, <1>2, <1>3, <1>4 DEF Next

\* mark_overdue_if_needed takes no payment back that was recorded while no
\* sweep had selected the income, however its statements interleave.
THEOREM PaymentStands == Spec => []RecordedPaymentStands
<1>1. SettledInv => RecordedPaymentStands
  BY DEF SettledInv
<1>. QED
  BY <1>1, TypeInvariant, InitSettled, NextSettled, PTL DEF Spec

-----------------------------------------------------------------------------
(* The reminders implement the gate. A thread that may still reach the     *)
(* client for the first time in its run holds a claim on an approval.      *)

Sending == {"send", "resend", "mail"}
Claims(r) == {t \in Threads : rem[t] = r /\ pc[t] \in Sending /\ ~felt[t]}

ClaimInv == \A r \in Reminders : reached[r] + Cardinality(Claims(r)) <= given[r]

LEMMA ClaimsFinite ==
  ASSUME NEW r
  PROVE  IsFiniteSet(Claims(r)) /\ Cardinality(Claims(r)) \in Nat
<1>1. Claims(r) \subseteq Threads
  BY DEF Claims
<1>. QED
  BY <1>1, LedgerAssumption, FS_Subset, FS_CardinalityType

LEMMA ClaimsFiniteNext ==
  ASSUME NEW r
  PROVE  IsFiniteSet(Claims(r)') /\ Cardinality(Claims(r)') \in Nat
<1>1. Claims(r)' \subseteq Threads
  BY DEF Claims
<1>. QED
  BY <1>1, LedgerAssumption, FS_Subset, FS_CardinalityType

\* Claims that end cost nothing.
LEMMA ClaimsShrink ==
  ASSUME TypeInv, TypeInv', ClaimInv, UNCHANGED <<reached, given>>,
         \A r \in Reminders : Claims(r)' \subseteq Claims(r)
  PROVE  ClaimInv'
<1>. SUFFICES ASSUME NEW r \in Reminders
              PROVE  reached'[r] + Cardinality(Claims(r)') <= given'[r]
  BY DEF ClaimInv
<1>1. Cardinality(Claims(r)') <= Cardinality(Claims(r))
  BY ClaimsFinite, FS_Subset
<1>. QED
  BY <1>1, ClaimsFinite, ClaimsFiniteNext DEF ClaimInv, TypeInv, LedgerTypeOK

\* Only threads on their way to a client have claims.
LEMMA NoNewClaim ==
  ASSUME \A t \in Threads : pc'[t] \in Sending =>
           pc[t] \in Sending /\ rem'[t] = rem[t] /\ (felt[t] => felt'[t])
  PROVE  \A r \in Reminders : Claims(r)' \subseteq Claims(r)
BY DEF Claims

LEMMA GrantClaims ==
  ASSUME TypeInv, TypeInv', ClaimInv, NEW t \in Threads, Grant(t)
  PROVE  ClaimInv'
<1>. SUFFICES ASSUME NEW r \in Reminders
              PROVE  reached'[r] + Cardinality(Claims(r)') <= given'[r]
  BY DEF ClaimInv
<1>1. rem[t] \in Reminders /\ reached' = reached /\ rem' = rem /\ felt' = felt
  BY DEF Grant, TypeInv, RemOK, AtReminder, locals
<1>2. CASE r = rem[t]
  <2>1. Claims(r)' \subseteq Claims(r) \cup {t}
    BY <1>1 DEF Claims, Grant, TypeInv, LedgerTypeOK
  <2>2. /\ IsFiniteSet(Claims(r) \cup {t})
        /\ Cardinality(Claims(r) \cup {t}) \in Nat
        /\ Cardinality(Claims(r) \cup {t}) <= Cardinality(Claims(r)) + 1
    <3>1. IsFiniteSet(Claims(r))
      BY ClaimsFinite
    <3>2. /\ IsFiniteSet(Claims(r) \cup {t})
          /\ Cardinality(Claims(r) \cup {t}) =
               IF t \in Claims(r) THEN Cardinality(Claims(r)) ELSE Cardinality(Claims(r)) + 1
      BY <3>1, FS_AddElement
    <3>. QED
      BY <3>2, ClaimsFinite
  <2>3. Cardinality(Claims(r)') <= Cardinality(Claims(r)) + 1
    BY <2>1, <2>2, ClaimsFinite, ClaimsFiniteNext, FS_Subset
  <2>4. given'[r] = given[r] + 1
    BY <1>1, <1>2 DEF Grant, TypeInv, LedgerTypeOK
  <2>. QED
    BY <1>1, <2>3, <2>4, ClaimsFinite, ClaimsFiniteNext
       DEF ClaimInv, TypeInv, LedgerTypeOK
<1>3. CASE r # rem[t]
  <2>1. Claims(r)' = Claims(r)
    BY <1>1, <1>3 DEF Claims, Grant, TypeInv, LedgerTypeOK
  <2>2. given'[r] = given[r]
    BY <1>1, <1>3 DEF Grant, TypeInv, LedgerTypeOK
  <2>. QED
    BY <1>1, <2>1, <2>2 DEF ClaimInv
<1>. QED
  BY <1>2, <1>3

LEMMA GoesClaims ==
  ASSUME TypeInv, TypeInv', ClaimInv, NEW t \in Threads, NEW next, NEW arrives \in BOOLEAN,
         Goes(t, next, arrives), AtReminder(t),
         next \in Sending => pc[t] \in Sending, arrives => pc[t] \in Sending
  PROVE  ClaimInv'
<1>1. rem[t] \in Reminders
  BY DEF TypeInv, RemOK
<1>2. /\ rem' = rem /\ given' = given
      /\ \A s \in Threads \ {t} : pc'[s] = pc[s] /\ felt'[s] = felt[s]
      /\ felt'[t] = (felt[t] \/ arrives) /\ pc'[t] = next
  BY DEF Goes, TypeInv, LedgerTypeOK
<1>3. \A r \in Reminders : Claims(r)' \subseteq Claims(r)
  BY <1>2 DEF Claims
<1>4. CASE reached' = reached
  BY <1>2, <1>3, <1>4, ClaimsShrink
<1>5. CASE arrives /\ ~felt[t]
  <2>. SUFFICES ASSUME NEW r \in Reminders
                PROVE  reached'[r] + Cardinality(Claims(r)') <= given'[r]
    BY DEF ClaimInv
  <2>1. reached' = [reached EXCEPT ![rem[t]] = @ + 1]
    BY <1>5 DEF Goes
  <2>2. CASE r = rem[t]
    <3>1. t \in Claims(r)
      BY <1>5, <2>2 DEF Claims
    <3>2. Claims(r)' \subseteq Claims(r) \ {t}
      BY <1>2, <1>3, <1>5 DEF Claims
    <3>3. /\ IsFiniteSet(Claims(r) \ {t})
          /\ Cardinality(Claims(r) \ {t}) = Cardinality(Claims(r)) - 1
      BY <3>1, ClaimsFinite, FS_RemoveElement
    <3>4. Cardinality(Claims(r)') <= Cardinality(Claims(r)) - 1
      BY <3>2, <3>3, FS_Subset
    <3>5. reached'[r] = reached[r] + 1
      BY <1>1, <2>1, <2>2 DEF TypeInv, LedgerTypeOK
    <3>. QED
      BY <1>2, <3>4, <3>5, ClaimsFinite, ClaimsFiniteNext
         DEF ClaimInv, TypeInv, LedgerTypeOK
  <2>3. CASE r # rem[t]
    <3>1. reached'[r] = reached[r]
      BY <2>1, <2>3 DEF TypeInv, LedgerTypeOK
    <3>2. Cardinality(Claims(r)') <= Cardinality(Claims(r))
      BY <1>3, ClaimsFinite, FS_Subset
    <3>. QED
      BY <1>2, <3>1, <3>2, ClaimsFinite, ClaimsFiniteNext
         DEF ClaimInv, TypeInv, LedgerTypeOK
  <2>. QED
    BY <2>2, <2>3
<1>6. reached' = reached \/ (arrives /\ ~felt[t])
  BY DEF Goes
<1>. QED
  BY <1>4, <1>5, <1>6

\* The steps of an executor, as Goes sees them.
LEMMA ExecutorGoes ==
  ASSUME NEW t \in Threads,
         \/ SendChat(t) \/ ResendChat(t) \/ NoChat(t) \/ SendMail(t) \/ NoMail(t)
         \/ SkipNote(t)
  PROVE  /\ AtReminder(t)
         /\ \E next \in Steps, arrives \in BOOLEAN :
              /\ Goes(t, next, arrives)
              /\ next \in Sending => pc[t] \in Sending
              /\ arrives => pc[t] \in Sending
<1>1. AtReminder(t)
  BY DEF AtReminder, SendChat, ResendChat, NoChat, SendMail, NoMail, SkipNote
<1>2. CASE SendChat(t) \/ ResendChat(t) \/ NoChat(t) \/ SendMail(t) \/ NoMail(t)
  <2>1. pc[t] \in Sending
    BY <1>2 DEF Sending, SendChat, ResendChat, NoChat, SendMail, NoMail
  <2>2. \E next \in Steps, arrives \in BOOLEAN : Goes(t, next, arrives)
    BY <1>2 DEF Steps, Outcome, SendChat, ResendChat, NoChat, SendMail, NoMail
  <2>. QED
    BY <1>1, <2>1, <2>2
<1>3. CASE SkipNote(t)
  BY <1>1, <1>3 DEF SkipNote, Steps, Outcome, Sending
<1>. QED
  BY <1>2, <1>3

LEMMA NextClaims == TypeInv /\ TypeInv' /\ ClaimInv /\ [Next]_vars => ClaimInv'
<1> SUFFICES ASSUME TypeInv, TypeInv', ClaimInv, [Next]_vars PROVE ClaimInv'
  OBVIOUS
<1> USE DEF locals, ghosts
<1>1. CASE Tick \/ UNCHANGED vars
  BY <1>1, ClaimsShrink, NoNewClaim DEF Tick, vars
<1>2. ASSUME NEW t \in Threads, Arrive(t) PROVE ClaimInv'
  <2>1. UNCHANGED <<reached, given, felt>>
    BY <1>2 DEF Arrive, Create, MarkPaid, Update, Delete, AskOne, SweepStart, Press
  <2>2. \A u \in Threads : pc'[u] \in Sending => pc[u] \in Sending /\ rem'[u] = rem[u]
    BY <1>2 DEF Arrive, Create, MarkPaid, Update, Delete, AskOne, SweepStart, Press,
                Serve, Sending, TypeInv, LedgerTypeOK
  <2>. QED
    BY <2>1, <2>2, ClaimsShrink, NoNewClaim
<1>3. ASSUME NEW t \in Threads, Work(t) PROVE ClaimInv'
  <2>1. CASE Grant(t)
    BY <2>1, GrantClaims
  <2>2. CASE SendChat(t) \/ ResendChat(t) \/ NoChat(t) \/ SendMail(t) \/ NoMail(t)
             \/ SkipNote(t)
    BY <2>2, ExecutorGoes, GoesClaims
  <2>3. CASE Summarise(t) \/ AskDone(t) \/ Store(t)
    <3>1. \A u \in Threads : pc'[u] \in Sending =>
            pc[u] \in Sending /\ rem'[u] = rem[u] /\ (felt[u] => felt'[u])
      BY <2>3 DEF Summarise, AskDone, Store, Release, Sending, TypeInv, LedgerTypeOK
    <3>. QED
      BY <2>3, <3>1, ClaimsShrink, NoNewClaim DEF Summarise, AskDone, Store
  <2>4. CASE SweepRow(t) \/ ListOverdue(t) \/ AskNext(t) \/ AskSkip(t)
             \/ ReadNote(t) \/ WriteNote(t)
    <3>1. \A u \in Threads : pc'[u] \in Sending =>
            pc[u] \in Sending /\ rem'[u] = rem[u] /\ (felt[u] => felt'[u])
      BY <2>4 DEF SweepRow, ListOverdue, AskNext, AskSkip, ReadNote, WriteNote,
                  Sending, TypeInv, LedgerTypeOK
    <3>. QED
      BY <2>4, <3>1, ClaimsShrink, NoNewClaim
         DEF SweepRow, ListOverdue, AskNext, AskSkip, ReadNote, WriteNote
  <2>. QED
    BY <1>3, <2>1, <2>2, <2>3, <2>4 DEF Work
<1>4. ASSUME NEW t \in Threads, Die(t) PROVE ClaimInv'
  <2>1. \A u \in Threads : pc'[u] \in Sending =>
          pc[u] \in Sending /\ rem'[u] = rem[u] /\ (felt[u] => felt'[u])
    BY <1>4 DEF Die, Release, Sending, TypeInv, LedgerTypeOK
  <2>. QED
    BY <1>4, <2>1, ClaimsShrink, NoNewClaim DEF Die
<1>. QED
  BY <1>1, <1>2, <1>3, <1>4 DEF Next

LEMMA InitClaims == Init => ClaimInv
<1> SUFFICES ASSUME Init, NEW r \in Reminders
             PROVE  reached[r] + Cardinality(Claims(r)) <= given[r]
  BY DEF ClaimInv
<1>1. Claims(r) = {}
  BY DEF Claims, Init, Sending
<1>. QED
  BY <1>1, FS_EmptySet DEF Init

LEMMA ClaimInvariant == Spec => [](TypeInv /\ ClaimInv)
BY InitTypes, NextTypes, InitClaims, NextClaims, PTL DEF Spec

-----------------------------------------------------------------------------
(* The notes. A thread on its way to a note owes it to a message of its    *)
(* own; what it read must leave room for the notes the others still owe.   *)

NoteSteps == {"mail", "note", "write"}
ChatOnly(i) == \A r \in Reminders : about[r] = i => HasChat(via[r])
Noting(i) == {t \in Threads : pc[t] \in NoteSteps /\ about[rem[t]] = i}

Backed(i) ==
  /\ notes[i] + Cardinality(Noting(i)) <= messages[i]
  /\ \A t \in Noting(i) :
       pc[t] = "write" => read[t] + Cardinality(Noting(i)) <= messages[i]

NotesInv ==
  /\ \A r \in Reminders : rstate[r] = "none" => about[r] = NoIncome
  /\ \A i \in Incomes : ChatOnly(i) => Backed(i)

LEMMA NotingFinite ==
  ASSUME NEW i
  PROVE  IsFiniteSet(Noting(i)) /\ Cardinality(Noting(i)) \in Nat
<1>1. Noting(i) \subseteq Threads
  BY DEF Noting
<1>. QED
  BY <1>1, LedgerAssumption, FS_Subset, FS_CardinalityType

LEMMA NotingFiniteNext ==
  ASSUME NEW i
  PROVE  IsFiniteSet(Noting(i)') /\ Cardinality(Noting(i)') \in Nat
<1>1. Noting(i)' \subseteq Threads
  BY DEF Noting
<1>. QED
  BY <1>1, LedgerAssumption, FS_Subset, FS_CardinalityType

\* No note more, no message less, and no thread that owes a note joins.
LEMMA BackedStays ==
  ASSUME TypeInv, TypeInv', NEW i \in Incomes, Backed(i),
         notes'[i] <= notes[i], messages[i] <= messages'[i],
         Noting(i)' \subseteq Noting(i),
         \A t \in Noting(i)' : pc'[t] = "write" => pc[t] = "write" /\ read'[t] = read[t]
  PROVE  Backed(i)'
<1>1. Cardinality(Noting(i)') <= Cardinality(Noting(i))
  BY NotingFinite, FS_Subset
<1>2. notes'[i] + Cardinality(Noting(i)') <= messages'[i]
  BY <1>1, NotingFinite, NotingFiniteNext DEF Backed, TypeInv, LedgerTypeOK
<1>3. ASSUME NEW t \in Noting(i)', pc'[t] = "write"
      PROVE  read'[t] + Cardinality(Noting(i)') <= messages'[i]
  <2>1. read[t] + Cardinality(Noting(i)) <= messages[i] /\ read'[t] = read[t]
    BY <1>3 DEF Backed
  <2>2. t \in Threads
    BY DEF Noting
  <2>. QED
    BY <1>1, <2>1, <2>2, NotingFinite, NotingFiniteNext DEF TypeInv, LedgerTypeOK
<1>. QED
  BY <1>2, <1>3 DEF Backed

\* Nothing about the notes or the requests moves, and no thread joins.
LEMMA NotesStay ==
  ASSUME TypeInv, TypeInv', NotesInv, UNCHANGED <<about, via, messages>>,
         \A r \in Reminders : rstate'[r] = "none" => rstate[r] = "none",
         \A i \in Incomes : notes'[i] <= notes[i],
         \A t \in Threads : pc'[t] \in NoteSteps =>
           pc[t] \in NoteSteps /\ rem'[t] = rem[t] /\ read'[t] = read[t]
           /\ (pc'[t] = "write" => pc[t] = "write")
  PROVE  NotesInv'
<1>1. ASSUME NEW i \in Incomes, ChatOnly(i)' PROVE Backed(i)'
  <2>1. Backed(i)
    BY <1>1 DEF NotesInv, ChatOnly
  <2>2. messages[i] <= messages'[i] /\ notes'[i] <= notes[i]
    BY DEF TypeInv, LedgerTypeOK
  <2>3. /\ Noting(i)' \subseteq Noting(i)
        /\ \A t \in Noting(i)' : pc'[t] = "write" => pc[t] = "write" /\ read'[t] = read[t]
    BY DEF Noting, NoteSteps
  <2>. QED
    BY <2>1, <2>2, <2>3, BackedStays
<1>. QED
  BY <1>1 DEF NotesInv

\* A new request: no thread works on it yet, and none of an income's requests
\* goes away.
LEMMA AskNotes ==
  ASSUME TypeInv, TypeInv', NotesInv, NEW r \in Reminders, NEW i \in Incomes, NEW w,
         Ask(r, i, w), UNCHANGED <<notes, messages, pc, rem, read>>
  PROVE  NotesInv'
<1>1. /\ rstate[r] = "none" /\ rstate'[r] = "pending"
      /\ \A q \in Reminders \ {r} :
           rstate'[q] = rstate[q] /\ about'[q] = about[q] /\ via'[q] = via[q]
      /\ about[r] = NoIncome
  BY DEF Ask, NotesInv, TypeInv, LedgerTypeOK
<1>2. ASSUME NEW j \in Incomes, ChatOnly(j)' PROVE Backed(j)'
  <2>1. ChatOnly(j)
    BY <1>1, <1>2, LedgerAssumption DEF ChatOnly
  <2>2. \A t \in Threads : pc[t] \in NoteSteps => about'[rem'[t]] = about[rem[t]]
    BY <1>1 DEF TypeInv, RemOK, AtReminder, NoteSteps
  <2>3. Noting(j)' \subseteq Noting(j)
    BY <2>2 DEF Noting
  <2>4. notes'[j] <= notes[j] /\ messages[j] <= messages'[j]
    BY DEF TypeInv, LedgerTypeOK
  <2>. QED
    BY <2>1, <2>3, <2>4, BackedStays DEF NotesInv
<1>. QED
  BY <1>1, <1>2 DEF NotesInv

\* A step of the executor. It joins those who owe a note with a message, or
\* for a reminder that goes to no chat.
LEMMA GoesNotes ==
  ASSUME TypeInv, TypeInv', NotesInv, NEW t \in Threads, NEW next, NEW arrives \in BOOLEAN,
         Goes(t, next, arrives), AtReminder(t), next # "write",
         \/ next \notin NoteSteps
         \/ pc[t] \in NoteSteps
         \/ arrives
         \/ ~HasChat(via[rem[t]])
  PROVE  NotesInv'
<1>1. /\ UNCHANGED <<rstate, about, via, notes, rem, read>>
      /\ rem[t] \in Reminders /\ about[rem[t]] \in Incomes
      /\ pc'[t] = next
      /\ \A s \in Threads \ {t} : pc'[s] = pc[s]
  BY DEF Goes, ledger, reminders, TypeInv, LedgerTypeOK, RemOK
<1>2. \A j \in Incomes : messages[j] <= messages'[j]
  <2>1. messages \in [Incomes -> Nat]
    BY DEF TypeInv, LedgerTypeOK
  <2>2. messages' = messages \/ messages' = [messages EXCEPT ![about[rem[t]]] = @ + 1]
    BY DEF Goes
  <2>. QED
    BY ONLY <2>1, <2>2
<1>3. ASSUME NEW i \in Incomes, ChatOnly(i)' PROVE Backed(i)'
  <2>1. Backed(i)
    BY <1>1, <1>3 DEF NotesInv, ChatOnly
  <2>2. notes'[i] <= notes[i]
    BY <1>1 DEF TypeInv, LedgerTypeOK
  <2>3. CASE Noting(i)' \subseteq Noting(i)
    <3>1. \A s \in Noting(i)' : pc'[s] = "write" => pc[s] = "write" /\ read'[s] = read[s]
      BY <1>1 DEF Noting
    <3>. QED
      BY <1>2, <2>1, <2>2, <2>3, <3>1, BackedStays
  <2>4. CASE ~(Noting(i)' \subseteq Noting(i))
    <3>1. /\ next \in NoteSteps /\ pc[t] \notin NoteSteps /\ about[rem[t]] = i
          /\ t \notin Noting(i)
          /\ Noting(i)' \subseteq Noting(i) \cup {t}
      BY <1>1, <2>4 DEF Noting
    <3>2. HasChat(via[rem[t]])
      BY <1>1, <1>3, <3>1 DEF ChatOnly
    <3>3. messages'[i] = messages[i] + 1
      BY <1>1, <3>1, <3>2 DEF Goes, TypeInv, LedgerTypeOK
    <3>4. /\ IsFiniteSet(Noting(i) \cup {t})
          /\ Cardinality(Noting(i) \cup {t}) = Cardinality(Noting(i)) + 1
      BY <3>1, NotingFinite, FS_AddElement
    <3>5. Cardinality(Noting(i)') <= Cardinality(Noting(i)) + 1
      BY <3>1, <3>4, FS_Subset
    <3>6. notes'[i] + Cardinality(Noting(i)') <= messages'[i]
      BY <1>1, <2>1, <3>3, <3>5, NotingFinite, NotingFiniteNext
         DEF Backed, TypeInv, LedgerTypeOK
    <3>7. ASSUME NEW s \in Noting(i)', pc'[s] = "write"
          PROVE  read'[s] + Cardinality(Noting(i)') <= messages'[i]
      <4>1. s \in Threads /\ s # t /\ s \in Noting(i) /\ pc[s] = "write"
        BY <1>1, <3>1, <3>7 DEF Noting
      <4>2. read'[s] = read[s] /\ read[s] + Cardinality(Noting(i)) <= messages[i]
        BY <1>1, <2>1, <4>1 DEF Backed
      <4>. QED
        BY <3>3, <3>5, <4>1, <4>2, NotingFinite, NotingFiniteNext
           DEF TypeInv, LedgerTypeOK
    <3>. QED
      BY <3>6, <3>7 DEF Backed
  <2>. QED
    BY <2>3, <2>4
<1>. QED
  BY <1>1, <1>3 DEF NotesInv

LEMMA ReadNotes ==
  ASSUME TypeInv, TypeInv', NotesInv, NEW t \in Threads, ReadNote(t)
  PROVE  NotesInv'
<1>1. /\ UNCHANGED <<rstate, about, via, notes, rem, messages>>
      /\ pc[t] = "note" /\ pc'[t] = "write"
      /\ \A s \in Threads \ {t} : pc'[s] = pc[s] /\ read'[s] = read[s]
      /\ rem[t] \in Reminders /\ about[rem[t]] \in Incomes
      /\ read'[t] <= notes[about[rem[t]]]
  BY DEF ReadNote, ledger, reminders, ghosts, TypeInv, LedgerTypeOK, RemOK, AtReminder
<1>2. ASSUME NEW i \in Incomes, ChatOnly(i)' PROVE Backed(i)'
  <2>1. Backed(i)
    BY <1>1, <1>2 DEF NotesInv, ChatOnly
  <2>2. Noting(i)' = Noting(i)
    BY <1>1 DEF Noting, NoteSteps
  <2>3. ASSUME NEW s \in Noting(i), pc'[s] = "write"
        PROVE  read'[s] + Cardinality(Noting(i)) <= messages[i]
    <3>1. CASE s = t
      <4>1. i = about[rem[t]] /\ read'[t] <= notes[i]
        BY <1>1, <3>1 DEF Noting
      <4>. QED
        BY <2>1, <3>1, <4>1, NotingFinite DEF Backed, TypeInv, LedgerTypeOK
    <3>2. CASE s # t
      <4>1. s \in Threads /\ pc[s] = "write" /\ read'[s] = read[s]
        BY <1>1, <2>3, <3>2 DEF Noting
      <4>. QED
        BY <2>1, <4>1 DEF Backed
    <3>. QED
      BY <3>1, <3>2
  <2>. QED
    BY <1>1, <2>1, <2>2, <2>3 DEF Backed
<1>. QED
  BY <1>1, <1>2 DEF NotesInv

LEMMA WriteNotes ==
  ASSUME TypeInv, TypeInv', NotesInv, NEW t \in Threads, WriteNote(t)
  PROVE  NotesInv'
<1>1. /\ UNCHANGED <<rstate, about, via, rem, read, messages>>
      /\ pc[t] = "write" /\ pc'[t] = "store"
      /\ \A s \in Threads \ {t} : pc'[s] = pc[s]
      /\ rem[t] \in Reminders /\ about[rem[t]] \in Incomes
      /\ \A i \in Incomes : i # about[rem[t]] => notes'[i] = notes[i]
      /\ notes'[about[rem[t]]] \in {notes[about[rem[t]]], read[t] + 1}
  BY DEF WriteNote, reminders, locals, ghosts, TypeInv, LedgerTypeOK, RemOK, AtReminder
<1>2. ASSUME NEW i \in Incomes, ChatOnly(i)' PROVE Backed(i)'
  <2>1. Backed(i)
    BY <1>1, <1>2 DEF NotesInv, ChatOnly
  <2>2. Noting(i)' \subseteq Noting(i)
        /\ \A s \in Noting(i)' : pc'[s] = "write" => pc[s] = "write" /\ read'[s] = read[s]
    BY <1>1 DEF Noting, NoteSteps
  <2>3. CASE notes'[i] = notes[i]
    <3>1. notes'[i] <= notes[i] /\ messages[i] <= messages'[i]
      BY <1>1, <2>3 DEF TypeInv, LedgerTypeOK
    <3>. QED
      BY <2>1, <2>2, <3>1, BackedStays
  <2>4. CASE notes'[i] # notes[i]
    <3>1. i = about[rem[t]] /\ notes'[i] = read[t] + 1
      BY <1>1, <2>4
    <3>2. t \in Noting(i) /\ Noting(i)' \subseteq Noting(i) \ {t}
      BY <1>1, <2>2, <3>1 DEF Noting, NoteSteps
    <3>3. /\ IsFiniteSet(Noting(i) \ {t})
          /\ Cardinality(Noting(i) \ {t}) = Cardinality(Noting(i)) - 1
      BY <3>2, NotingFinite, FS_RemoveElement
    <3>4. Cardinality(Noting(i)') <= Cardinality(Noting(i)) - 1
      BY <3>2, <3>3, FS_Subset
    <3>5. read[t] + Cardinality(Noting(i)) <= messages[i]
      BY <1>1, <2>1, <3>2 DEF Backed
    <3>6. notes'[i] + Cardinality(Noting(i)') <= messages'[i]
      BY <1>1, <3>1, <3>4, <3>5, NotingFinite, NotingFiniteNext DEF TypeInv, LedgerTypeOK
    <3>7. ASSUME NEW s \in Noting(i)', pc'[s] = "write"
          PROVE  read'[s] + Cardinality(Noting(i)') <= messages'[i]
      <4>1. s \in Threads /\ s \in Noting(i) /\ pc[s] = "write" /\ read'[s] = read[s]
        BY <2>2, <3>7 DEF Noting
      <4>2. read[s] + Cardinality(Noting(i)) <= messages[i]
        BY <2>1, <4>1 DEF Backed
      <4>. QED
        BY <1>1, <3>4, <4>1, <4>2, NotingFinite, NotingFiniteNext
           DEF TypeInv, LedgerTypeOK
    <3>. QED
      BY <3>6, <3>7 DEF Backed
  <2>. QED
    BY <2>3, <2>4
<1>. QED
  BY <1>1, <1>2 DEF NotesInv

\* Where the executor's steps lead, and when they join those who owe a note.
LEMMA ExecutorNotes ==
  ASSUME NEW t \in Threads,
         \/ SendChat(t) \/ ResendChat(t) \/ NoChat(t) \/ SendMail(t) \/ NoMail(t)
         \/ SkipNote(t)
  PROVE  \E next \in Steps \ {"write"}, arrives \in BOOLEAN :
           /\ Goes(t, next, arrives)
           /\ \/ next \notin NoteSteps
              \/ pc[t] \in NoteSteps
              \/ arrives
              \/ ~HasChat(via[rem[t]])
<1> USE DEF NoteSteps, Steps, Outcome
<1>1. CASE SendChat(t)
  BY <1>1 DEF SendChat
<1>2. CASE ResendChat(t)
  <2>1. CASE Goes(t, "mail", TRUE)
    BY <2>1
  <2>2. ASSUME NEW arrives \in BOOLEAN, Goes(t, "fail", arrives)
        PROVE  \E next \in Steps \ {"write"} : Goes(t, next, arrives) /\ next \notin NoteSteps
    BY <2>2
  <2>. QED
    BY <1>2, <2>1, <2>2 DEF ResendChat
<1>3. CASE NoChat(t)
  BY <1>3 DEF NoChat
<1>4. CASE SendMail(t) \/ NoMail(t)
  BY <1>4 DEF SendMail, NoMail
<1>5. CASE SkipNote(t)
  BY <1>5 DEF SkipNote
<1>. QED
  BY <1>1, <1>2, <1>3, <1>4, <1>5

LEMMA NextNotes == TypeInv /\ TypeInv' /\ NotesInv /\ [Next]_vars => NotesInv'
<1> SUFFICES ASSUME TypeInv, TypeInv', NotesInv, [Next]_vars PROVE NotesInv'
  OBVIOUS
<1> USE DEF ledger, reminders, locals, ghosts
<1>0. \A i \in Incomes : notes[i] <= notes[i] /\ 0 <= notes[i]
  BY DEF TypeInv, LedgerTypeOK
<1>1. CASE Tick \/ UNCHANGED vars
  BY <1>0, <1>1, NotesStay DEF Tick, vars
<1>2. ASSUME NEW t \in Threads, Arrive(t) PROVE NotesInv'
  <2>1. ASSUME NEW i \in Incomes, NEW st \in Stored, NEW d \in Due, Create(t, i, st, d)
        PROVE  NotesInv'
    BY <1>0, <2>1, NotesStay DEF Create
  <2>2. ASSUME NEW i \in Incomes, MarkPaid(t, i) \/ Delete(t, i) PROVE NotesInv'
    BY <1>0, <2>2, NotesStay DEF MarkPaid, Delete
  <2>3. ASSUME NEW i \in Incomes, Update(t, i) PROVE NotesInv'
    <3>1. \A j \in Incomes : notes'[j] <= notes[j]
      BY <1>0, <2>3 DEF Update, TypeInv, LedgerTypeOK
    <3>. QED
      BY <2>3, <3>1, NotesStay DEF Update
  <2>4. ASSUME NEW i \in Incomes, AskOne(t, i) PROVE NotesInv'
    BY <2>4, AskNotes DEF AskOne
  <2>5. ASSUME NEW j \in {"summary", "remind"}, SweepStart(t, j) PROVE NotesInv'
    <3>1. \A u \in Threads : pc'[u] \in NoteSteps => pc'[u] = pc[u]
      BY <2>5 DEF SweepStart, NoteSteps, TypeInv, LedgerTypeOK
    <3>. QED
      BY <1>0, <2>5, <3>1, NotesStay DEF SweepStart
  <2>6. ASSUME NEW r \in Reminders, NEW next \in {"grant", "close"}, Press(t, r, next)
        PROVE  NotesInv'
    <3>1. \A u \in Threads : pc'[u] \in NoteSteps => pc'[u] = pc[u] /\ rem'[u] = rem[u]
      BY <2>6 DEF Press, NoteSteps, TypeInv, LedgerTypeOK
    <3>. QED
      BY <1>0, <2>6, <3>1, NotesStay DEF Press
  <2>. QED
    BY <1>2, <2>1, <2>2, <2>3, <2>4, <2>5, <2>6 DEF Arrive
<1>3. ASSUME NEW t \in Threads, Work(t) PROVE NotesInv'
  <2>1. CASE SweepRow(t) \/ AskSkip(t)
    BY <1>0, <2>1, NotesStay DEF SweepRow, AskSkip
  <2>2. CASE ListOverdue(t) \/ Grant(t)
    <3>1. \A u \in Threads : pc'[u] \in NoteSteps => pc'[u] = pc[u]
      BY <2>2 DEF ListOverdue, Grant, NoteSteps, TypeInv, LedgerTypeOK
    <3>2. \A r \in Reminders : rstate'[r] = "none" => rstate[r] = "none"
      BY <2>2 DEF ListOverdue, Grant, TypeInv, LedgerTypeOK
    <3>. QED
      BY <1>0, <2>2, <3>1, <3>2, NotesStay DEF ListOverdue, Grant
  <2>3. CASE AskNext(t)
    <3>1. PICK i \in Incomes, r \in Reminders, w \in Way : Ask(r, i, w)
      BY <2>3 DEF AskNext, TypeInv, LedgerTypeOK
    <3>. QED
      BY <2>3, <3>1, AskNotes DEF AskNext
  <2>4. CASE Summarise(t) \/ AskDone(t) \/ Store(t)
    <3>1. \A u \in Threads : pc'[u] \in NoteSteps =>
            pc'[u] = pc[u] /\ rem'[u] = rem[u] /\ read'[u] = read[u]
      BY <2>4 DEF Summarise, AskDone, Store, Release, NoteSteps, TypeInv, LedgerTypeOK
    <3>2. \A r \in Reminders : rstate'[r] = "none" => rstate[r] = "none"
      BY <2>4 DEF Summarise, AskDone, Store, Outcome, TypeInv, LedgerTypeOK
    <3>3. UNCHANGED <<about, via, messages, notes>>
      BY <2>4 DEF Summarise, AskDone, Store
    <3>. QED
      BY <1>0, <3>1, <3>2, <3>3, NotesStay
  <2>5. CASE SendChat(t) \/ ResendChat(t) \/ NoChat(t) \/ SendMail(t) \/ NoMail(t)
             \/ SkipNote(t)
    BY <2>5, ExecutorGoes, ExecutorNotes, GoesNotes
  <2>6. CASE ReadNote(t)
    BY <2>6, ReadNotes
  <2>7. CASE WriteNote(t)
    BY <2>7, WriteNotes
  <2>. QED
    BY <1>3, <2>1, <2>2, <2>3, <2>4, <2>5, <2>6, <2>7 DEF Work
<1>4. ASSUME NEW t \in Threads, Die(t) PROVE NotesInv'
  <2>1. \A u \in Threads : pc'[u] \in NoteSteps =>
          pc'[u] = pc[u] /\ rem'[u] = rem[u] /\ read'[u] = read[u]
    BY <1>4 DEF Die, Release, NoteSteps, TypeInv, LedgerTypeOK
  <2>. QED
    BY <1>0, <1>4, <2>1, NotesStay DEF Die
<1>. QED
  BY <1>1, <1>2, <1>3, <1>4 DEF Next

LEMMA InitNotes == Init => NotesInv
<1> SUFFICES ASSUME Init PROVE NotesInv
  OBVIOUS
<1>1. ASSUME NEW i \in Incomes PROVE Backed(i)
  <2>1. Noting(i) = {}
    BY DEF Noting, NoteSteps, Init
  <2>. QED
    BY <2>1, FS_EmptySet DEF Backed, Init
<1>. QED
  BY <1>1 DEF NotesInv, Init

\* An income whose reminders go to a chat never holds more reminder notes than
\* its client got messages, however runs of its reminders overlap and whichever
\* of them read the notes before another wrote them.
THEOREM NotesBacked == Spec => []NotesAreBacked
<1>1. TypeInv /\ NotesInv => NotesAreBacked
  <2>. SUFFICES ASSUME TypeInv, NotesInv, NEW i \in Incomes, ChatOnly(i)
                PROVE  notes[i] <= messages[i]
    BY DEF NotesAreBacked, ChatOnly
  <2>1. notes[i] + Cardinality(Noting(i)) <= messages[i]
    BY DEF NotesInv, Backed
  <2>. QED
    BY <2>1, NotingFinite DEF TypeInv, LedgerTypeOK
<1>. QED
  BY <1>1, InitTypes, NextTypes, InitNotes, NextNotes, PTL DEF Spec

-----------------------------------------------------------------------------

Levels == [r \in Reminders |-> IF rstate[r] = "none" THEN "none" ELSE "yellow"]

\* What a step that asks for nothing does to the levels.
LEMMA LevelsStay ==
  ASSUME TypeInv, \A r \in Reminders : rstate'[r] = "none" <=> rstate[r] = "none"
  PROVE  Levels' = Levels
BY DEF Levels

LEMMA AskIsAsk ==
  ASSUME TypeInv, NEW r \in Reminders, NEW i, NEW w, Ask(r, i, w),
         UNCHANGED <<given, reached>>
  PROVE  Gate!Ask(r, "yellow")
<1>1. /\ rstate[r] = "none" /\ rstate'[r] = "pending"
      /\ \A q \in Reminders \ {r} : rstate'[q] = rstate[q]
  BY DEF Ask, TypeInv, LedgerTypeOK
<1>. QED
  BY <1>1 DEF Gate!Ask

LEMMA GrantIsApprove ==
  ASSUME TypeInv, NEW t \in Threads, Grant(t)
  PROVE  rem[t] \in Reminders /\ Gate!Approve(rem[t])
<1>1. rem[t] \in Reminders /\ rstate[rem[t]] # "none"
  BY DEF Grant, TypeInv, RemOK, AtReminder
<1>2. Levels' = Levels
  BY <1>1, LevelsStay DEF Grant, TypeInv, LedgerTypeOK
<1>. QED
  BY <1>1, <1>2 DEF Grant, Gate!Approve, Levels

LEMMA ReachIsRun ==
  ASSUME TypeInv, ClaimInv, NEW t \in Threads, NEW next, NEW arrives \in BOOLEAN,
         Goes(t, next, arrives), AtReminder(t), arrives => pc[t] \in Sending
  PROVE  \/ UNCHANGED <<Levels, given, reached>>
         \/ rem[t] \in Reminders /\ Gate!Run(rem[t])
<1>1. rem[t] \in Reminders /\ rstate[rem[t]] # "none"
  BY DEF TypeInv, RemOK
<1>2. UNCHANGED <<rstate, given>> /\ Levels' = Levels
  BY DEF Goes, reminders, Levels
<1>3. CASE reached' = reached
  BY <1>2, <1>3
<1>4. CASE arrives /\ ~felt[t]
  <2>1. t \in Claims(rem[t])
    BY <1>4 DEF Claims
  <2>2. Cardinality(Claims(rem[t])) # 0
    BY <2>1, ClaimsFinite, FS_EmptySet
  <2>3. reached[rem[t]] + 1 <= given[rem[t]]
    BY <1>1, <2>2, ClaimsFinite DEF ClaimInv, TypeInv, LedgerTypeOK
  <2>4. reached' = [reached EXCEPT ![rem[t]] = @ + 1]
    BY <1>4 DEF Goes
  <2>5. Levels[rem[t]] = "yellow"
    BY <1>1 DEF Levels
  <2>6. Gate!Needed("yellow") = 1
    BY DEF Gate!Needed
  <2>. QED
    BY <1>1, <1>2, <2>3, <2>4, <2>5, <2>6 DEF Gate!Run, Levels
<1>5. reached' = reached \/ (arrives /\ ~felt[t])
  BY DEF Goes
<1>. QED
  BY <1>3, <1>4, <1>5

LEMMA StepIsGateStep ==
  ASSUME TypeInv, ClaimInv, [Next]_vars
  PROVE  [Gate!GateNext]_(Gate!gateVars)
<1> USE DEF Gate!gateVars, Gate!GateNext, Gate!Level, ghosts, reminders
<1>1. ASSUME UNCHANGED <<given, reached>>,
             \A r \in Reminders : rstate'[r] = "none" <=> rstate[r] = "none"
      PROVE  UNCHANGED Gate!gateVars
  BY <1>1, LevelsStay DEF Levels
<1>2. ASSUME NEW r \in Reminders, NEW i, NEW w, Ask(r, i, w), UNCHANGED <<given, reached>>
      PROVE  Gate!GateNext
  BY <1>2, AskIsAsk
<1>3. CASE Tick \/ UNCHANGED vars
  BY <1>1, <1>3 DEF Tick, vars
<1>4. ASSUME NEW t \in Threads, Arrive(t) PROVE [Gate!GateNext]_(Gate!gateVars)
  <2>1. ASSUME NEW i \in Incomes, AskOne(t, i) PROVE Gate!GateNext
    BY <1>2, <2>1 DEF AskOne
  <2>. QED
    BY <1>1, <1>4, <2>1
       DEF Arrive, Create, MarkPaid, Update, Delete, SweepStart, Press
<1>5. ASSUME NEW t \in Threads, Work(t) PROVE [Gate!GateNext]_(Gate!gateVars)
  <2>1. CASE Grant(t)
    BY <2>1, GrantIsApprove
  <2>2. CASE SendChat(t) \/ ResendChat(t) \/ NoChat(t) \/ SendMail(t) \/ NoMail(t)
             \/ SkipNote(t)
    BY <2>2, ExecutorGoes, ReachIsRun DEF Levels
  <2>3. CASE AskNext(t)
    BY <1>2, <2>3 DEF AskNext
  <2>4. CASE Store(t)
    <3>1. rem[t] \in Reminders /\ rstate[rem[t]] # "none"
      BY <2>4 DEF Store, Outcome, TypeInv, RemOK, AtReminder
    <3>. QED
      BY <1>1, <2>4, <3>1 DEF Store, Outcome, TypeInv, LedgerTypeOK
  <2>5. CASE SweepRow(t) \/ Summarise(t) \/ ListOverdue(t) \/ AskSkip(t) \/ AskDone(t)
             \/ ReadNote(t) \/ WriteNote(t)
    BY <1>1, <2>5
       DEF SweepRow, Summarise, ListOverdue, AskSkip, AskDone, ReadNote, WriteNote
  <2>. QED
    BY <1>5, <2>1, <2>2, <2>3, <2>4, <2>5 DEF Work
<1>6. ASSUME NEW t \in Threads, Die(t) PROVE UNCHANGED Gate!gateVars
  BY <1>1, <1>6 DEF Die
<1>. QED
  BY <1>3, <1>4, <1>5, <1>6 DEF Next

\* However decisions, retries and interruptions overlap, a client is reached by
\* a reminder's runs at most as often as it was approved: the reminders
\* implement ApprovalGate.
THEOREM RemindersImplementGate == Spec => RemindersKeepTheGate
<1>1. Init => Gate!GateInit
  BY DEF Init, Gate!GateInit
<1>2. TypeInv /\ ClaimInv /\ [Next]_vars => [Gate!GateNext]_(Gate!gateVars)
  BY StepIsGateStep
<1>. QED
  BY <1>1, <1>2, ClaimInvariant, PTL DEF Spec, RemindersKeepTheGate, Gate!GateSpec

-----------------------------------------------------------------------------
(* The sweep again. OnlyPendingIsMarked does not hold of the code; this is  *)
(* the one thing that has to be kept off a sweep for it to hold.            *)

\* No request changes the status of a row that a sweep has selected.
HandsOff == [][\A t \in Threads : Arrive(t) =>
                 \A i \in Selected : status'[i] = status[i]]_vars

\* What a sweep selected was pending, and only another sweep got there first.
HeldInv == \A t \in Threads : pc[t] = "sweep" =>
  \A i \in todo[t] : status[i] \in {"pending", "overdue"}

\* Steps that leave the statuses alone and select nothing.
LEMMA HeldStays ==
  ASSUME HeldInv,
         \A t \in Threads : pc'[t] = "sweep" => pc[t] = "sweep" /\ todo'[t] \subseteq todo[t],
         \A i \in Selected : status'[i] = status[i]
  PROVE  HeldInv'
BY DEF HeldInv, Selected

LEMMA NextHeld ==
  ASSUME TypeInv, HeldInv, [Next]_vars,
         \A t \in Threads : Arrive(t) => \A i \in Selected : status'[i] = status[i]
  PROVE  HeldInv'
<1> USE DEF TypeInv, ledger, reminders, locals, ghosts
<1>1. CASE Tick \/ UNCHANGED vars
  BY <1>1, HeldStays DEF Tick, vars
<1>2. ASSUME NEW t \in Threads, Arrive(t) PROVE HeldInv'
  <2>1. ASSUME NEW j \in {"summary", "remind"}, SweepStart(t, j) PROVE HeldInv'
    BY <2>1 DEF SweepStart, HeldInv, LedgerTypeOK
  <2>2. CASE ~\E j \in {"summary", "remind"} : SweepStart(t, j)
    <3>1. \A u \in Threads : pc'[u] = "sweep" => pc[u] = "sweep" /\ todo'[u] = todo[u]
      BY <1>2, <2>2
      DEF Arrive, Create, MarkPaid, Update, Delete, AskOne, Press, LedgerTypeOK
    <3>. QED
      BY <1>2, <3>1, HeldStays
  <2>. QED
    BY <2>1, <2>2
<1>3. ASSUME NEW t \in Threads, Work(t) PROVE HeldInv'
  <2>1. CASE SweepRow(t)
    BY <2>1 DEF SweepRow, HeldInv, LedgerTypeOK, Exists, Stored
  <2>2. CASE Summarise(t) \/ AskDone(t) \/ Store(t)
    BY <2>2, HeldStays DEF Summarise, AskDone, Store, Release, LedgerTypeOK
  <2>3. CASE ListOverdue(t) \/ AskNext(t) \/ AskSkip(t) \/ Grant(t)
             \/ ReadNote(t) \/ WriteNote(t)
    BY <2>3, HeldStays
       DEF ListOverdue, AskNext, AskSkip, Grant, ReadNote, WriteNote, LedgerTypeOK
  <2>4. CASE SendChat(t) \/ ResendChat(t) \/ NoChat(t) \/ SendMail(t) \/ NoMail(t)
             \/ SkipNote(t)
    <3>1. PICK next \in Steps \ {"sweep"}, arrives \in BOOLEAN : Goes(t, next, arrives)
      BY <2>4 DEF Steps, Outcome, SendChat, ResendChat, NoChat, SendMail, NoMail, SkipNote
    <3>. QED
      BY <3>1, HeldStays DEF Goes, LedgerTypeOK
  <2>. QED
    BY <1>3, <2>1, <2>2, <2>3, <2>4 DEF Work
<1>4. ASSUME NEW t \in Threads, Die(t) PROVE HeldInv'
  BY <1>4, HeldStays DEF Die, Release, LedgerTypeOK
<1>. QED
  BY <1>1, <1>2, <1>3, <1>4 DEF Next

\* The docstring of mark_overdue_if_needed is true as long as no payment, edit or
\* deletion falls between the SELECT of a sweep and its UPDATEs. Sweeps that
\* overlap, reminders and crashes do it no harm: its only enemy is the one the
\* ledger_paid_overdue run shows.
THEOREM UndisturbedSweepsMarkPending == Spec /\ HandsOff => OnlyPendingIsMarked
<1>1. Init => HeldInv
  BY DEF Init, HeldInv
<1>2. /\ TypeInv /\ HeldInv /\ [Next]_vars
      /\ [\A t \in Threads : Arrive(t) => \A i \in Selected : status'[i] = status[i]]_vars
      => HeldInv'
  <2>1. CASE UNCHANGED vars
    BY <2>1 DEF vars, locals, ledger, HeldInv
  <2>. QED
    BY <2>1, NextHeld
<1>3. TypeInv /\ HeldInv
      => [\A t \in Threads : SweepRow(t) =>
            \A i \in Incomes : status'[i] # status[i] => status[i] = "pending"]_vars
  BY DEF SweepRow, HeldInv, TypeInv, LedgerTypeOK
<1>. QED
  BY <1>1, <1>2, <1>3, TypeInvariant, PTL DEF Spec, HandsOff, OnlyPendingIsMarked

-----------------------------------------------------------------------------
(* The months of the incomes. MCJalali walks day by day through fifteen     *)
(* years; counting from the first days of the years, which it evaluates for *)
(* the whole table, the same holds of every date.                           *)

\* The days before a month of its year.
DaysBefore(m) == IF m <= 7 THEN (m - 1) * 31 ELSE (m - 1) * 30 + 6

LEMMA DateInYear ==
  ASSUME NEW y, NewYear(y) \in Int, NEW m \in 1 .. 12, NEW d \in Int
  PROVE  J2D(y, m, d) = NewYear(y) + DaysBefore(m) + d - 1
<1>1. Div(m, 7) = IF m < 7 THEN 0 ELSE 1
  BY DEF Div
<1>2. (m - 1) * 31 - Div(m, 7) * (m - 7) = DaysBefore(m)
  BY <1>1 DEF DaysBefore
<1>3. J2D(y, m, d) = NewYear(y) + (m - 1) * 31 - Div(m, 7) * (m - 7) + d - 1
  BY DEF J2D, NewYear
<1>. QED
  BY <1>1, <1>2, <1>3

\* A month begins where the one before it ends, in every year of the table.
LEMMA MonthsAbut ==
  ASSUME NEW y \in Known, NEW m \in 1 .. 12
  PROVE  J2D(y, m, MonthLength(y, m)) + 1 =
           IF m < 12 THEN J2D(y, m + 1, 1) ELSE J2D(y + 1, 1, 1)
<1>1. /\ NewYear(y) \in Int /\ NewYear(y + 1) \in Int
      /\ NewYear(y + 1) = NewYear(y) + IF IsLeap(y) THEN 366 ELSE 365
  BY YearsAreFull
<1>2. MonthLength(y, m) \in Int
  BY DEF MonthLength
<1>3. J2D(y, m, MonthLength(y, m)) = NewYear(y) + DaysBefore(m) + MonthLength(y, m) - 1
  BY <1>1, <1>2, DateInYear
<1>4. CASE m < 12
  <2>1. J2D(y, m + 1, 1) = NewYear(y) + DaysBefore(m + 1)
    <3>1. m + 1 \in 1 .. 12
      BY <1>4
    <3>2. J2D(y, m + 1, 1) = NewYear(y) + DaysBefore(m + 1) + 1 - 1
      BY <1>1, <3>1, DateInYear
    <3>. QED
      BY <1>1, <3>1, <3>2 DEF DaysBefore
  <2>2. DaysBefore(m + 1) = DaysBefore(m) + MonthLength(y, m)
    BY <1>4 DEF DaysBefore, MonthLength
  <2>. QED
    BY <1>1, <1>2, <1>3, <1>4, <2>1, <2>2 DEF DaysBefore
<1>5. CASE m = 12
  <2>1. J2D(y + 1, 1, 1) = NewYear(y + 1) + DaysBefore(1) + 1 - 1
    BY <1>1, DateInYear
  <2>2. DaysBefore(1) = 0 /\ DaysBefore(12) + MonthLength(y, 12) = IF IsLeap(y) THEN 366 ELSE 365
    BY DEF DaysBefore, MonthLength
  <2>. QED
    BY <1>1, <1>2, <1>3, <1>5, <2>1, <2>2 DEF DaysBefore
<1>. QED
  BY <1>4, <1>5

\* _j2d counts on from every date of every year of the table: over the ends of
\* months and years, leap or not, no day is skipped and none counted twice.
THEOREM DatesCountOn ==
  ASSUME NEW y \in Known, NEW m \in 1 .. 12, NEW d \in 1 .. MonthLength(y, m),
         NEW z, z = NextJalali(<<y, m, d>>)
  PROVE  J2D(z[1], z[2], z[3]) = J2D(y, m, d) + 1
<1>1. NewYear(y) \in Int /\ MonthLength(y, m) \in Int
  BY YearsAreFull DEF MonthLength
<1>2. CASE d < MonthLength(y, m)
  <2>1. z = <<y, m, d + 1>>
    BY <1>2 DEF NextJalali
  <2>2. /\ J2D(y, m, d) = NewYear(y) + DaysBefore(m) + d - 1
        /\ J2D(y, m, d + 1) = NewYear(y) + DaysBefore(m) + (d + 1) - 1
    BY <1>1, DateInYear
  <2>. QED
    BY <1>1, <2>1, <2>2 DEF DaysBefore
<1>3. CASE d = MonthLength(y, m)
  <2>1. z = IF m < 12 THEN <<y, m + 1, 1>> ELSE <<y + 1, 1, 1>>
    BY <1>1, <1>3 DEF NextJalali
  <2>. QED
    BY <1>3, <2>1, MonthsAbut
<1>. QED
  BY <1>1, <1>2, <1>3

\* create_income: an income without a date falls due on the last day of its own
\* month, the eve of the next, in every year of the table.
THEOREM DueOnTheLastDay ==
  ASSUME NEW y \in Known, NEW m \in 1 .. 12
  PROVE  DueDay(y, m) + 1 = IF m < 12 THEN J2D(y, m + 1, 1) ELSE J2D(y + 1, 1, 1)
BY MonthsAbut DEF DueDay
=============================================================================
