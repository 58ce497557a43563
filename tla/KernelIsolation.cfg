CONSTANTS
  u1 = u1  k1 = k1  k2 = k2  mA = mA  mB = mB  a1 = a1  b1 = b1  decoy = decoy
  spike = spike  ext = ext  s1 = s1  e1 = e1
  U64Max = 8
  ProtocolFeeBps = 3
  BasisPoints = 10
  Users = {u1}
  MarketIds = {k1, k2}
  Mints = {mA, mB}
  MintInfo <- MCMintInfo
  UserAccounts = {a1, b1, decoy}
  InitialAccount <- MCTwoMarketsAccount
  Delegates = {u1}
  Programs = {core, spike, ext}
  CoreProgram = core
  EngineStates = {s1, e1}
  StateOwner <- MCStateOwner
  Revisions = {1}
  TokenAmounts = {1}
  MaxSlot = 0
  MaxInstructions = 1
  None = None
  SpikeEngine = spike
  ExecuteArgs <- MCTwoMarketsArgs
  OtherHash = OtherHash
  Opaque = Opaque
SPECIFICATION TwoMarketsSpec
INVARIANTS VaultAccounting PayoutFunded CachedValuesCurrent
PROPERTIES DomainIsolation KernelImplementsExchange
