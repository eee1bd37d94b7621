SPECIFICATION FairSpec
CONSTANTS
  k1 = k1
  n1 = n1
  Nil = Nil
  Keys = {k1}
  Names = {n1}
  SpecsOf <- MXToggled
  DeleteModes = {"background"}
  MaxUid = 2
  MaxEdits = 1
  ReceivingNames = {n1}
  OutsideNames = {}
  MaxOutside = 0
  DomainVerifyDuration = 5
  Faulty <- AllButDelLookup
  MaxFaults = 1
  MaxRestarts = 0
  MaxLag = 1
CHECK_DEADLOCK FALSE
PROPERTIES
  ImplementsLifecycle
  VerificationEnds
  PublishedGetsActivated
