SPECIFICATION Spec
CONSTANTS
  Addresses = {a1, a2, a3}
  Threads = {loop}
  Limit = 2
  Second = 2
  Window = 3
  Capacity = 2
  Horizon = 6
  a1 = a1  a2 = a2  a3 = a3  loop = loop
SYMMETRY Alike
CHECK_DEADLOCK FALSE
INVARIANTS
  Bounded
  BurstBounded
PROPERTIES
  RetryHonest
  TurnedAwayOnlyWhenFull
