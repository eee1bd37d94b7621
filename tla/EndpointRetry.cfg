SPECIFICATION FairSpec
CONSTANTS
  k1 = k1
  n1 = n1
  Nil = Nil
  Keys = {k1}
  Names = {n1}
  SpecsOf <- DNSToggled
  DeleteModes = {"background"}
  MaxUid = 1
  MaxEdits = 1
  ReceivingNames = {n1}
  OutsideNames = {}
  MaxOutside = 0
  DomainVerifyDuration = 5
  Faulty = {"saveEndpoint"}
  MaxFaults = 1
  MaxRestarts = 0
  MaxLag = 2
CHECK_DEADLOCK FALSE
PROPERTIES
  VerificationEnds
