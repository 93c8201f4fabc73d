\* The keeper alone takes a frozen pool's funds back into idle.
SPECIFICATION BoundedSpec

CONSTANTS
  d1 = d1
  d2 = d2
  p1 = p1
  p2 = p2
  usd = usd
  eur = eur
  Depositors = {d1, d2}
  Currencies = {usd}
  Pools = {p1, p2}
  Currency1 = usd
  Currency2 = eur
  Routes <- OneCurrencyRoutes
  Amounts = {1, 2}
  VirtualOffset = 1
  MinFirstDeposit = 2
  PerPoolCap = 3
  MaxPools = 2
  NoPool = NoPool
  NoExit = NoExit
  MaxNav = 5
  MaxSurplus = 0
  MaxDonated = 0
  MaxExits = 1
  ExitIds = {}
  Vetted = {p1, p2}
  Signed = {d1, d2}
  Pausable = FALSE

SYMMETRY Interchangeable

PROPERTY
  FrozenFundsNeedApproval

