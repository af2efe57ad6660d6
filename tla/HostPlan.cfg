SPECIFICATION Spec
CONSTANTS
  Addr <- MCAddr
  NoAddr = NoAddr
  Name <- MCName
  Field <- MCField
  field <- MCfield
  Metadata <- MCMetadata
  Messages <- MCMessages
  Codes <- MCCodes
  Advertised <- SpecActions
  MaxCalls = 3
INVARIANT FullHostIsAsked
CHECK_DEADLOCK FALSE
