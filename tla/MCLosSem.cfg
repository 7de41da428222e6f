SPECIFICATION Spec
CONSTANTS
  Tasks = {t1, t2, t3}
  MaxCounts = {1, 2}
  MaxPermits = 3
INVARIANT PermitsAccounted
PROPERTY WaitersAreServed
