CONSTANTS
  c1 = c1
  c2 = c2
  r1 = r1
  r2 = r2
  r3 = r3
  Conversations = {c1, c2}
  Requests = {r1, r2, r3}
  Lifetime = 1
  MaxTime = 4
SPECIFICATION FairSpec
CHECK_DEADLOCK FALSE
INVARIANTS NothingLeaks NoOvertaking
PROPERTIES ImplementsFifoAccess WaiterSettles
