SPECIFICATION FairSpec
CONSTANTS
  none = none
  t1 = t1
  t2 = t2
  p1 = p1
  p2 = p2
  Pods = {p1, p2}
  Keys = {"api_token", "domain_verification_timeout"}
  NumberKeys = {"domain_verification_timeout"}
  Texts = {none, t1, t2}
  Broken = Broken
  Nil = Nil
  Defaults <- MCDefaults
  Sources <- MCSources
  MaxEdits = 2
  MaxDeaths = 2
CHECK_DEADLOCK FALSE
INVARIANTS
  TypeOK
  RunsAsConfigured
PROPERTY
  EventuallyRuns
