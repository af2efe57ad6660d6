SPECIFICATION Spec
CONSTANTS
  Session = {s1, s2}
  s1 = s1
  s2 = s2
  Host = {"h1", "h2"}
  Cert = {"leaf", "ca"}
  Zones <- MCZones
  Chains <- MCChains
  Policies = {"valid", "malformed"}
  ttl = 1
  timeout = 1
  MaxTime = 3
  MaxChanges = 1
  MaxLookups = 3
SYMMETRY Symmetry
CHECK_DEADLOCK FALSE
INVARIANTS
  TypeOK
  AnswersAreRecent
  AvailableIsBacked
  PassIsVouched
