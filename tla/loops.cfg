\* A bucket under both callers of runTick, and every way a submission may fail;
\* the poll loop over three events on six ledgers, with one restart; and
\* Sentinel, which has no bounds.
SPECIFICATION LoopsSpec

CONSTANTS
  p1 = p1
  p2 = p2
  Pools = {p1, p2}
  Registered = {p1, p2}
  CandidateLists <- BothPools
  Amounts = {1}
  Threshold = 1
  Drivers = {"cron", "watching"}
  Faults = {"throws", "rejected", "unseen", "late"}
  ExitIds = 2
  NoPool = NoPool
  NoExit = NoExit
  Never = Never
  MaxLate = 1
  PageLimit = 1
  MaxPages = 2
  Retention = 4
  RetentionMargin = 2
  StartSettings = {0, 1}
  NoCursor = NoCursor
  MaxTip = 6
  MaxEvents = 3
  MaxBoots = 2
  Readings <- ReadingsAtThresholds
  Missing <- NoRead
  maxRetries = 2
  Signers = {"keeper", "depositor"}

INVARIANTS
  CursorSkipsNothing
  ThreatIsAnswered

PROPERTIES
  NoPullWhileExitPends
  ProposalStands
  ThreatGetsExit
  ImplementsEventFeed
  EveryEventIsStored

\* At the bounds a process that is down stays down.
CHECK_DEADLOCK FALSE
