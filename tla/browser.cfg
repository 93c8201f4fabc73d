\* The browser: session, reads, transfers, switch and approval, one at a time.
\* The bounds of each part stop it.
SPECIFICATION Spec

CONSTANTS
  Users = {"u1", "u2"}
  Nobody = "nobody"
  Amounts = {1, 2}
  SCALE = 4
  VirtualOffset = 1
  MaxNav = 3
  Runs = {"r1", "r2"}
  NoRun = "no run"
  Wallets = {"freighter", "xbull"}
  FREIGHTER_ID = "freighter"
  NoClient = "no client"
  Buckets <- BothBuckets
  Sharing = {"buckets", "apy"}
  Own = {"earnings"}
  Assets = {"USDC", "EURC"}
  REFRESH_ATTEMPTS = 2
  MaxWrites = 1
  MaxCredits = 2
  MaxInFlight = 2
  MaxExits = 2

INVARIANTS
  SuccessMeansLanded
  LogoutLasts
  AnswersFit

PROPERTIES
  SendingEnds
  ConfirmedStays
  ApprovalMovesWhatWasShown

CHECK_DEADLOCK FALSE
