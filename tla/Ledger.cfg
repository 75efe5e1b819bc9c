CONSTANTS
  r1 = r1
  r2 = r2
  r3 = r3
  r4 = r4
  r5 = r5
  a = a
  b = b
  c = c
  Request = {r1, r2, r3, r4, r5}
  Id = {a, b, c}
  Day = {d1, d2}
  FirstDay = d1
  Calls <- LedgerCalls
  Free = Free
SPECIFICATION RequestsSpec
CHECK_DEADLOCK FALSE
INVARIANTS MovementInv   
PROPERTIES ImplementsLedger
