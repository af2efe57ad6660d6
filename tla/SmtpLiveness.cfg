SPECIFICATION FairSpec
CONSTANTS
  a = a
  b = b
  c = c
  Addr <- MCAddr
  NoAddr = NoAddr
  User = {u1}
  Anonymous = anonymous
  Service = service
  MaxRecipients = 2
  MaxTxns = 1
  Configs <- AllConfigs
  HostActions <- HostSupports
  PolicyRuns <- PlainRuns
PROPERTIES
  MessageIsAnswered
  DeadSessionEnds
