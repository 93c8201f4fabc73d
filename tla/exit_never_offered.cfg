\* A freeze and a proposal made while the page stays open are never shown on it.
SPECIFICATION WatchSpec

CONSTANTS
  Buckets <- TwoBuckets
  Faults = {}
  MaxExits = 1

PROPERTY
  ExitIsOffered

\* A page that has read, and a keeper that leaves the pools alone.
CHECK_DEADLOCK FALSE
