CONSTANTS
  w1 = w1
  w2 = w2
  r1 = r1
  r2 = r2
  r3 = r3
  Workers = {w1, w2}
  Requests = {r1, r2, r3}
  Lifetime = 1
  MaxTime = 3
  MaxFailures = 1
SPECIFICATION RedisSpec
SYMMETRY Symmetry
CHECK_DEADLOCK FALSE
INVARIANTS
  ExclusiveUnlessTorn
  OrphansHaveCause
