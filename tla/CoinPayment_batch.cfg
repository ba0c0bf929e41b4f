SPECIFICATION Spec
CONSTANTS
  b1 = b1
  b2 = b2
  h1 = h1
  h2 = h2
  NoBet = NoBet
  Bets <- TwoBets
  Hands = {}
  Stake = 1
  MaxAmount = 1
  RefundRetries = 2
  PayoutRetries = 2
  MaxTimeouts = 2
  Batch = TRUE
  MaxDrops = 1
CHECK_DEADLOCK FALSE
INVARIANTS
  TypeOK
  TakenIsAccounted
  DoneMeansPaid
  PayingIsHeld
PROPERTIES
  KeepsSettlement
