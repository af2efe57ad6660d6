SPECIFICATION Spec
CONSTANTS
  Domain = {"a.test", "n.a.test", "b.test"}
  org <- MCorg
  NoDomain = "nobody"
  Signers = {"a.test", "b.test"}
  Authors = {"n.a.test"}
  SealOptions <- MCSealOptions
  SignOptions <- MCSignOptions
  Dns <- MCDns
  Reported <- MCReported
  TrustedAuthServs = {"gw"}
  maxSignatures = 2
  MaxEdits = 3
CHECK_DEADLOCK FALSE
INVARIANTS
  TypeOK
  AuthenticMeansSigned
  TruncationIsFlagged
  ChainIsVouched
  UnsignedIsRejected
  FailureIsNotErased
