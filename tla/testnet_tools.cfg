\* Long histories of one bucket and of a yield pool; seed, faucet, mock vault and
\* deployment scripts, one at a time, which the operator may leave at any point.
SPECIFICATION BoundedSpec

CONSTANTS
  VirtualOffset = 3
  Amounts = {1, 2, 5, 7}
  MinFirstDeposit = 2
  BucketMaxNav = 60
  Keys = {"k1", "k2"}
  NoKey = "no key"
  Requests <- CommandLines
  Interest = {1}
  SeedFirstDeposit = 1
  MaxFaults = 2
  MaxNav = 15
  InterestUpTo = 4
  Buttons = {"b1", "b2"}
  Claimed = {"k1"}
  KeyOf <- TwoButtons
  Slots = {1, 2}
  RateLimit = 1
  FAUCET_COOLDOWN = 2
  Users = {"u1", "u2"}
  MockCurrencies = {"c1", "c2"}
  Pools = {"p1"}
  Moved = {1, 2}
  NoPool = NoPool
  NoExit = NoExit
  MaxMoney = 3
  Buckets <- BothBuckets
  OwnSac = "own"
  CircleSac = "circle"
  MaxContracts = 4
  Suppliers = {"vault", "other"}
  Sent = {1, 2}
  Durations = {1, 2}
  MAX_RATE_BPS = 2
  BPS_YEAR = 3
  MaxSeconds = 3
  MaxCash = 2
  MaxBooked = 3

INVARIANTS
  SharesAreBacked
  OneAccount
  SurplusIsBounded
  OneMintPerClick
  OfferedPoolsAreReady

PROPERTIES
  PriceNeverFalls
  EventuallySeeded
  OnlyTheBehindClaimAgain
  MockImplementsBucketNav
  ImplementsPoolInterest

CHECK_DEADLOCK FALSE
