\* Two buckets, one with a pool and one with two, of which one may be unvetted.
SPECIFICATION BoundedSpec

CONSTANTS
  d1 = d1
  d2 = d2
  p1 = p1
  p2 = p2
  p3 = p3
  usd = usd
  eur = eur
  Depositors = {d1}
  Currencies = {usd, eur}
  Pools = {p1, p2, p3}
  Currency1 = usd
  Currency2 = eur
  Routes <- OnePoolApartRoutes
  Amounts = {1}
  VirtualOffset = 1
  MinFirstDeposit = 1
  PerPoolCap = 2
  MaxPools = 1
  NoPool = NoPool
  NoExit = NoExit
  MaxNav = 2
  MaxSurplus = 0
  MaxDonated = 1
  MaxExits = 2
  ExitIds = {1, 2}
  Vetted = {p1, p2}
  Signed = {}
  Pausable = TRUE

PROPERTIES
  GuardsHold
  ExitIdNamesOneProposal
  BucketsDoNotBlend

