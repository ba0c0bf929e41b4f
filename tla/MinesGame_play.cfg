SPECIFICATION Spec
CONSTANTS
  b1 = b1
  b2 = b2
  s1 = s1
  s2 = s2
  h1 = h1
  NoBet = NoBet
  NoThread = NoThread
  Bets <- OneBet
  Hands = {}
  Stake = 1
  MaxAmount = 2
  RefundRetries = 1
  PayoutRetries = 1
  MaxTimeouts = 1
  Threads <- TwoThreads
  MaxHits = 2
  Prize <- Doubling
  MaxPool = 1
  MaxLapses = 0
  MaxRestart = 0
CHECK_DEADLOCK FALSE
SYMMETRY ThreadSymmetry
INVARIANTS
  TypeOK
  RefundedOrPaid
  EnteredOnce
  PaidAsRecorded
PROPERTIES
  NoPayoutAfterMine
  StatusMovesForward
