SPECIFICATION Spec
CONSTANTS
  a = a
  b = b
  c = c
  Addr <- MCAddr
  NoAddr = NoAddr
  User = {u1}
  Anonymous = anonymous
  Service = service
  MaxRecipients = 2
  MaxTxns = 2
  Configs <- AllConfigs
  HostActions <- HostSupports
  PolicyRuns <- RelayRuns
INVARIANTS
  TypeOK
  EnvelopeInSync
  DeliveredAsPlanned
  MarkerIsOurs
  SubmissionIdentity
  StatsTruthful
PROPERTY
  ImplementsContract
