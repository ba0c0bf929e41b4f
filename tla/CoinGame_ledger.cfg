SPECIFICATION Spec
CONSTANTS
  b1 = b1
  b2 = b2
  c1 = c1
  u1 = u1
  w1 = w1
  w2 = w2
  NoReq = NoReq
  Bets <- TwoBets
  Picks <- BothOptions
  PickOf <- PicksSame
  BetDuration = 2
  BetReal = 1
  DrawDuration = 3
  MaxTime = 5
  MaxPeriod = 4
  Users = {u1}
  Cancels <- OneCancel
  TargetOf <- CancelFirst
  UserOf <- UsersAll
  LockLease = 2
  MaxReq = 1
  Workers <- OneWorker
  TagTTL = 3
  MaxJob = 1
  MaxCrash = 0
  GroupSize = 2
INVARIANTS
  CancelOrSettle
  RefundOrPayout
  SecondOrderNeedsCleanup
  OneLockedRequest
PROPERTIES
  KeepsLedger
