CONSTANTS
  None = None
  Users = {u1}
  Mailed = {u1}
  ResetRequests = {r1, r2}
  Tokens = {t1, t2}
  Lifetime = 2
  MaxActive = 1
  MaxDeletes = 0
SPECIFICATION ResetSpec
CHECK_DEADLOCK FALSE
INVARIANT CodesLastAnHour
