SPECIFICATION Spec
CONSTANTS
  k1 = k1
  n1 = n1
  Nil = Nil
  Keys = {k1}
  Names = {n1}
  SpecsOf <- Careless
  DeleteModes = {"background", "foreground"}
  MaxUid = 1
  MaxEdits = 1
  ReceivingNames = {n1}
  OutsideNames = {n1}
  MaxOutside = 2
  DomainVerifyDuration = 5
  Faulty <- AllCalls
  MaxFaults = 1
  MaxRestarts = 1
  MaxLag = 2
CHECK_DEADLOCK FALSE
PROPERTIES
  StatusMachine
  UserIntentKept
