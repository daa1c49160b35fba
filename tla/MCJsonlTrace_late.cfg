SPECIFICATION Spec
CONSTANTS
  w1 = w1
  w2 = w2
  e1 = e1
  e2 = e2
  e3 = e3
  Writers <- TwoWriters
  Ids <- TwoIds
  MaxLen = 2
  WriteErrors = TRUE
  PowerFails = FALSE
INVARIANTS
  OneLinePerSequence
