\* Two threads over one income, nothing fails.
CONSTANTS
  i1 = i1
  r1 = r1
  r2 = r2
  t1 = t1
  t2 = t2
  Incomes = {i1}
  Reminders = {}
  Threads = {t1, t2}
  NoIncome = NoIncome
  NoReminder = NoReminder
  MaxCalls = 3
  MaxClock = 1
  MayDie = FALSE
SPECIFICATION Spec
CHECK_DEADLOCK FALSE
PROPERTIES
  OnlyPendingIsMarked
