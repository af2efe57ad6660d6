SPECIFICATION Spec
CONSTANTS
  Domain <- MCDomain
  Subdomain <- MCSubdomain
  Identities <- MCIdentities
  Zones <- MCZones
  Clients <- MCClients
  maxSPFLookups = 10
  maxSPFVoidLookups = 2
  maxSPFRedirects = 10
  maxMXHosts = 10
INVARIANTS TypeOK LimitsAreFinal QueriesBounded NestingBounded VerdictIsMeaning
CHECK_DEADLOCK FALSE
