SPECIFICATION FairSpec
CONSTANTS
  n1 = n1
  n2 = n2
  x = x
  y = y
  Names = {n1, n2}
  Texts = {x, y}
  Fail = Fail
  Empty = Empty
  Broken = Broken
  Nil = Nil
  Threads = {controller, test}
  Calls <- AllCalls
  MaxCalls = 4
CHECK_DEADLOCK FALSE
INVARIANT
  TypeOK
PROPERTIES
  OneAtATime
  EveryCallReturns
