SPECIFICATION Spec
CONSTANTS
  Addr <- MCAddr
  NoAddr = NoAddr
  Name <- MCName
  Field <- MCField
  field <- MCfield
  Metadata <- MCMetadata
  Messages <- MCMessages
  Codes <- MCCodes
  Advertised <- SomeActions
  MaxCalls = 3
INVARIANTS
  TypeOK
  NothingIgnored
  HeaderEditsHold
PROPERTY
  BlockIsFinal
CHECK_DEADLOCK FALSE
