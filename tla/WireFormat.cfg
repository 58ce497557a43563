CONSTANTS
  ByteMax = 3
  HashLen = 1
  WordLen = 2
  CountLen = 1
  MaxPayload = 2
  MaxOpaqueAccounts = 1
  Digest <- MCDigest
  Messages <- MCMessages
  Payloads <- MCPayloads
  Programs <- MCPrograms
  Descriptors <- MCDescriptors
  MaxTampered = 2
  None = None
SPECIFICATION Spec
INVARIANTS RoundTrip OneSpelling CapabilitiesTellApart
CHECK_DEADLOCK FALSE
