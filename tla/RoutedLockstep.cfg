CONSTANTS
  u1 = u1  k1 = k1  k2 = k2  mA = mA  mB = mB  a1 = a1  b1 = b1  b2 = b2
  enginePda = enginePda  routed = routed  helper = helper  ext = ext  spl = spl
  s1 = s1  e1 = e1  h1 = h1  n1 = n1  n2 = n2
  U64Max = 12
  ProtocolFeeBps = 3
  BasisPoints = 10
  Users = {u1}
  MarketIds = {k1}
  Mints = {mA, mB}
  MintInfo <- MCMintInfo
  UserAccounts = {a1, b1}
  InitialAccount <- MCInitialAccount
  Delegates <- MCDelegates
  Programs = {core, spl, routed, helper}
  CoreProgram = core
  EngineStates = {s1, h1}
  StateOwner <- MCStateOwner
  Revisions = {1}
  TokenAmounts = {4}
  MaxSlot = 0
  MaxInstructions = 1
  None = None
  Nonces = {n1, n2}
  Closures <- MCClosures
  Payloads = {7, None}
  MaxOpaqueAccounts = 3
  OtherHash = OtherHash
  TokenProgram = spl
  RoutedPlanEngine = routed
  HelperProgram = helper
  LpFees = {1}
  ModesUsed = {"LATE_COMMIT_FAILURE"}
  AllowedCallbacks <- MCAllowedCallbacks
  Intents <- MCIntents
  RouteArgs <- MCRouteArgs
  EnginePdas = {}
  ForeignAmounts = {1}
  ForgedAmount = 4
  Opaque = Opaque
SPECIFICATION Spec
INVARIANTS RoutedTypeOK RoutedLockstep HelperLockstep
