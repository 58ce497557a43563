CONSTANTS
  u1 = u1  k1 = k1  k2 = k2  mA = mA  mB = mB  a1 = a1  b1 = b1  b2 = b2
  enginePda = enginePda  gen = gen  helper = helper  ext = ext  spl = spl
  s1 = s1  e1 = e1  h1 = h1
  U64Max = 12
  ProtocolFeeBps = 3
  BasisPoints = 10
  Users = {u1}
  MarketIds = {k1}
  Mints = {mA, mB}
  MintInfo <- MCMintInfo
  UserAccounts = {a1, b1}
  InitialAccount <- MCInitialAccount
  Delegates = {}
  Programs = {core, spl, gen, helper}
  CoreProgram = core
  EngineStates <- OneEngine
  StateOwner <- MCStateOwner
  Revisions = {1}
  TokenAmounts = {4}
  MaxSlot = 0
  MaxInstructions = 1
  None = None
  Closures <- MCClosures
  Payloads = {0, 5, None}
  MaxOpaqueAccounts = 5
  OtherHash = OtherHash
  TokenProgram = spl
  EnginePdas = {}
  GeneratedPlanEngine = gen
  HelperProgram = helper
  LpFees = {1}
  ModesUsed = {"ZERO_OUTPUT"}
  InstructionsSysvar = sysvar
  HelperAuthorities <- MCHelperAuthorities
  ExecuteArgs <- MCArgs
  ForeignAmounts = {1}
  ForgedAmount = 4
  Opaque = Opaque
SPECIFICATION Spec
INVARIANTS GeneratedTypeOK GeneratedLockstep GeneratedHelperLockstep
