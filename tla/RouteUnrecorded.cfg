SPECIFICATION Spec
CONSTANTS
  k1 = k1
  b1 = b1
  b2 = b2
  n1 = n1
  Nil = Nil
  NoDomain = NoDomain
  Keys = {k1}
  Bodies = {b1, b2}
  Priorities = {0, 1}
  ActionLists <- Lists
  Domains = {n1}
  SpecsOf <- Replaced
  MaxUid = 1
  MaxEdits = 1
  MaxByHand = 0
  Faulty = {}
  MaxFaults = 0
  MaxRestarts = 0
  MaxLag = 1
  MaxPosts = 3
CHECK_DEADLOCK FALSE
INVARIANTS
  RoutesRecorded
