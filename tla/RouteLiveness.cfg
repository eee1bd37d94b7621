SPECIFICATION FairSpec
CONSTANTS
  k1 = k1
  b1 = b1
  b2 = b2
  n1 = n1
  Nil = Nil
  NoDomain = NoDomain
  Keys = {k1}
  Bodies = {b1, b2}
  Priorities = {0, 1}
  ActionLists <- Lists
  Domains = {n1}
  SpecsOf <- Waiting
  MaxUid = 1
  MaxEdits = 1
  MaxByHand = 1
  Faulty <- AllButLookups
  MaxFaults = 1
  MaxRestarts = 1
  MaxLag = 0
  MaxPosts = 5
CHECK_DEADLOCK FALSE
PROPERTIES
  RouteGetsCreated
  EditReachesMailgun
  RouteDeletionCompletes
