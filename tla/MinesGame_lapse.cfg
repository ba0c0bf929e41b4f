SPECIFICATION Spec
CONSTANTS
  b1 = b1
  b2 = b2
  s1 = s1
  s2 = s2
  h1 = h1
  NoBet = NoBet
  NoThread = NoThread
  Bets <- OneBet
  Hands = {h1}
  Stake = 1
  MaxAmount = 2
  RefundRetries = 1
  PayoutRetries = 1
  MaxTimeouts = 0
  Threads <- TwoThreads
  MaxHits = 1
  Prize <- Flat
  MaxPool = 1
  MaxLapses = 1
  MaxRestart = 1
CHECK_DEADLOCK FALSE
SYMMETRY ThreadSymmetry
INVARIANTS
  DoneMeansPaid
  PaidAsRecorded
