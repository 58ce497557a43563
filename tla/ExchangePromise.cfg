CONSTANTS
  x1 = x1  x2 = x2  mA = mA  mB = mB  p1 = p1  p2 = p2
  v1 = v1  v2 = v2  v3 = v3  v4 = v4  v5 = v5  v6 = v6
  U64Max = 4
  ProtocolFeeBps = 3
  BasisPoints = 10
  Accounts = {p1, p2, v1, v2, v3, v4, v5, v6}
  Mints = {mA, mB}
  Exchanges = {x1, x2}
  None = None
SYMMETRY Fresh
SPECIFICATION MCSpec
INVARIANT Solvent
PROPERTY SupplyConserved
