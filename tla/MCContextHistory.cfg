CONSTANTS
  MaxTokens = 11
  KeepRecent = 2
  MaxMessage = 3
  ClearedSize = 1
  Ids <- RepeatedId
  Sizes <- SmallOrLarge
  ReminderSizes <- ShortOrLong
  SummarySizes <- Short
  MaxExchanges = 5
SPECIFICATION Spec
\* A run that ended, or reached the bound on its exchanges, does nothing more.
CHECK_DEADLOCK FALSE
INVARIANTS
  TypeOK
  NeverBroken
  NewestKept
PROPERTIES
  SummaryCarries
