SPECIFICATION FairOperator
CONSTANTS
  k1 = k1
  r1 = r1
  n1 = n1
  b1 = b1
  Nil = Nil
  NoDomain = NoDomain
  Keys = {k1}
  Names = {n1}
  SpecsOf <- DomainSpecs
  DeleteModes = {"background"}
  MaxUid = 1
  MaxEdits = 0
  ReceivingNames = {}
  OutsideNames = {}
  MaxOutside = 0
  DomainVerifyDuration = 5
  Faulty = {"verify"}
  MaxFaults = 1
  MaxRestarts = 1
  MaxLag = 0
  RouteKeys = {r1}
  RouteSpecsOf <- RouteSpecs
  Bodies = {b1}
  Priorities = {0}
  ActionLists <- Lists
  RouteFaulty = {}
  MaxRoutes = 1
  MaxRouteEdits = 0
  MaxRouteFaults = 0
  MaxByHand = 1
  MaxPosts = 2
CHECK_DEADLOCK FALSE
PROPERTIES
  RoutesOfVerifiedDomains
  RouteFollowsDomain
