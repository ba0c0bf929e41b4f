SPECIFICATION FairSpec
CONSTANTS
  b1 = b1
  b2 = b2
  h1 = h1
  h2 = h2
  NoBet = NoBet
  Bets <- OneBet
  Hands = {h1}
  Stake = 1
  MaxAmount = 1
  RefundRetries = 2
  PayoutRetries = 2
  MaxTimeouts = 1
  Batch = FALSE
  MaxDrops = 1
CHECK_DEADLOCK FALSE
INVARIANTS
  DoneMeansPaid
  RefundedOrPaid
PROPERTIES
  StatusMovesForward
  RowIsWorkedOff
  WinnerIsAnswered
