\* Earnings, holdings and rates, and the activity feed, one at a time. The
\* bounds of each part stop it.
SPECIFICATION Spec

CONSTANTS
  Users = {"u1", "u2"}
  NoUser = "nobody"
  Asker = "u1"
  Buckets <- BothBuckets
  Rate <- TwoPerEuro
  Amounts = {40}
  Interest = {20}
  SCALE = 100
  Month = 1
  RANGE_MS = {0, 1}
  VirtualOffset = 10
  MaxSnaps = 1
  MaxTime = 1
  MaxEarningEvents = 3
  MaxGain = 20
  SAFE_VENUES <- Catalog
  TRAP_VENUES = {"trap"}
  demoPoolFor <- OnePoolEach
  PoolAddress <- OneAddress
  Strangers = {"stranger"}
  FX_SYMBOL = {"EUR"}
  NoPool = "no pool"
  NoCurrency = "no currency"
  Limit = 2
  MaxEvents = 3

INVARIANTS
  HeadlineIsYield
  ChartInventsNothing
  CompleteHistoryIsServed

PROPERTIES
  AnswersAreHonest
  RowsStay

CHECK_DEADLOCK FALSE
