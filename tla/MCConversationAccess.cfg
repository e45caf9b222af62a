CONSTANTS
  c1 = c1
  c2 = c2
  r1 = r1
  r2 = r2
  r3 = r3
  p1 = p1
  Conversations = {c1, c2}
  Requests = {r1, r2, r3}
  Predictions = {p1}
  Lifetime = 1
  MaxTime = 3
SPECIFICATION AccessSpec
SYMMETRY Symmetry
CHECK_DEADLOCK FALSE
INVARIANTS FreshTracker StoredInOrder
PROPERTIES NothingLost
