CONSTANTS
  u1 = u1  k1 = k1  k2 = k2  mA = mA  mB = mB  a1 = a1  b1 = b1  b2 = b2
  enginePda = enginePda  gen = gen  helper = helper  ext = ext  spl = spl
  s1 = s1  e1 = e1  h1 = h1
  U64Max = 12
  ProtocolFeeBps = 3
  BasisPoints = 10
  Users = {u1}
  MarketIds = {k1, k2}
  Mints = {mA, mB}
  MintInfo <- MCMintInfo
  UserAccounts = {a1, b1, b2}
  InitialAccount <- TwoAccount
  Delegates = {enginePda}
  Programs = {core, spl, gen, helper, ext}
  CoreProgram = core
  EngineStates <- TwoEngines
  StateOwner <- MCStateOwner
  Revisions = {1}
  TokenAmounts = {4}
  MaxSlot = 0
  MaxInstructions = 1
  None = None
  Closures <- TwoClosures
  Payloads = {6, None}
  MaxOpaqueAccounts = 5
  OtherHash = OtherHash
  TokenProgram = spl
  EnginePdas = {enginePda}
  GeneratedPlanEngine = gen
  HelperProgram = helper
  LpFees = {1}
  ModesUsed = {}
  InstructionsSysvar = sysvar
  HelperAuthorities <- TwoAuthorities
  ExecuteArgs <- TwoArgs
  ForeignAmounts = {1, 4}
  ForgedAmount = 4
  Opaque = Opaque
SPECIFICATION LiveSpec
INVARIANTS VaultAccounting GeneratedSettlementUndisturbed GeneratedLockstep GeneratedHelperLockstep
PROPERTIES GeneratedLimitsHonoured GeneratedIsolation GeneratedImplementsExchange
