SPECIFICATION FairSpec
CONSTANTS
  n1 = n1
  n2 = n2
  d1 = d1
  d2 = d2
  p1 = p1
  p2 = p2
  Nodes <- TwoNodes
  Draws <- OneDraw
  Prices <- TwoPrices
  LastSec = 2
  BetEnd = 1
  MaxRetry = 2
  Looks = 2
  MaxCrash = 1
CHECK_DEADLOCK FALSE
INVARIANTS
  TypeOK
  DrawPriceStands
  DeadOfRetriesOnly
PROPERTIES
  TickerArrives
