CONSTANTS
  r1 = r1
  r2 = r2
  r3 = r3
  r4 = r4
  r5 = r5
  r6 = r6
  a = a
  b = b
  c = c
  t1 = t1
  t2 = t2
  Request = {r1, r2, r3, r4, r5}
  ClientId = {a, b, c}
  Day = {d1}
  FirstDay = d1
  Date = {t1, t2}
  FirstDate = t1
  MaxQty = 1
  Tip = {0}
  Owed = {1}
  Calls <- ReuseCalls
  Free = Free
SPECIFICATION Spec
CHECK_DEADLOCK FALSE
INVARIANTS PaymentsMatchTotal
