\* Two threads over one income and two reminders; handlers may be cut short.
CONSTANTS
  i1 = i1
  r1 = r1
  r2 = r2
  t1 = t1
  t2 = t2
  Incomes = {i1}
  Reminders = {r1, r2}
  Threads = {t1, t2}
  NoIncome = NoIncome
  NoReminder = NoReminder
  MaxCalls = 5
  MaxClock = 1
  MayDie = TRUE
SPECIFICATION Spec
SYMMETRY Symmetry
CHECK_DEADLOCK FALSE
INVARIANTS
  LedgerTypeOK
  RecordedPaymentStands
  NotesAreBacked
PROPERTIES
  RemindersKeepTheGate
