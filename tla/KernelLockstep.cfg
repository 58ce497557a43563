CONSTANTS
  u1 = u1  k1 = k1  k2 = k2  mA = mA  mB = mB  a1 = a1  b1 = b1  decoy = decoy
  spike = spike  ext = ext  s1 = s1  e1 = e1
  U64Max = 8
  ProtocolFeeBps = 3
  BasisPoints = 10
  Users = {u1}
  MarketIds = {k1}
  Mints = {mA, mB}
  MintInfo <- MCMintInfo
  UserAccounts = {a1, b1, decoy}
  InitialAccount <- MCInitialAccount
  Delegates = {u1}
  Programs = {core, spike, ext}
  CoreProgram = core
  EngineStates = {s1}
  StateOwner <- MCSpikeOwner
  Revisions = {0, 1}
  TokenAmounts = {2}
  MaxSlot = 1
  MaxInstructions = 2
  None = None
  SpikeEngine = spike
  ExecuteArgs <- MCExecuteArgs
  OtherHash = OtherHash
  Opaque = Opaque
SPECIFICATION FairSpec
INVARIANTS TypeOK EngineLockstep
PROPERTIES UserLimitsHonoured KernelImplementsExchange HonestExecutionSettles
