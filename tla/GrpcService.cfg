SPECIFICATION Spec
CONSTANTS
  Addr = {"r1"}
  NoAddr = "none"
  File = {"root", "a", "b"}
  root = "root"
  Sources <- MCSources
  Versions <- MCVersions
  maxModules = 3
  MaxEdits = 2
  MaxSignals = 2
  Caller = {"c1"}
  Requests <- MCRequests
  Deliveries <- MCDeliveries
  hasToken = TRUE
  loopback = FALSE
  upstreamServer = TRUE
  hostAdapter = FALSE
  forwardQuarantine = FALSE
  MaxMessages = 2
CHECK_DEADLOCK FALSE
INVARIANTS
  OnePolicyPerMessage
  PublishedPolicyRuns
  AnswersAreHonest
PROPERTIES
  EditsTakeEffect
