SPECIFICATION Spec
CONSTANTS
  Threads = {t1, t2, t3}
  NoThread = NoThread
  Mails = {m1, m2}
  NoMail = NoMail
  Size = 2
  Limit = 2
  MaxCredit = 2
CONSTRAINT CreditBound
VIEW View
SYMMETRY Symmetry
CHECK_DEADLOCK FALSE
INVARIANTS NoTokenInvented NoTokenUnused TimersBelong
PROPERTIES WakeUpsNoticed LostOnlyInTheGap QueueKept
