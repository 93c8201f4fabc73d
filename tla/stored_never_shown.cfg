\* An event kept by a poll that failed between pages is never shown, though
\* every later poll succeeds and nothing is ever out of retention.
SPECIFICATION BoundedSpec

CONSTANTS
  PageLimit = 1
  MaxPages = 3
  Retention = 9
  RetentionMargin = 8
  StartSettings = {0}
  NoCursor = NoCursor
  MaxTip = 4
  MaxEvents = 2
  MaxBoots = 1

PROPERTY
  EveryStoredEventIsShown

\* At the bounds a process that is down stays down.
CHECK_DEADLOCK FALSE
