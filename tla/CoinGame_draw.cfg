SPECIFICATION Spec
CONSTANTS
  b1 = b1
  b2 = b2
  c1 = c1
  u1 = u1
  w1 = w1
  w2 = w2
  NoReq = NoReq
  Bets <- OneBet
  Picks <- BothOptions
  PickOf <- PicksOne
  BetDuration = 2
  BetReal = 1
  DrawDuration = 3
  MaxTime = 9
  MaxPeriod = 4
  Users = {u1}
  Cancels <- NoCancel
  TargetOf <- NoTarget
  UserOf <- UsersOne
  LockLease = 2
  MaxReq = 1
  Workers <- TwoWorkers
  TagTTL = 3
  MaxJob = 1
  MaxCrash = 1
  GroupSize = 2
SYMMETRY WorkerSymmetry
INVARIANTS
  TypeOK
  SettledOnce
  NoBetLeftBehind
  SettledAtOwnPrice
  HistoryIsTheDraw
  OrdersAreTheSettled
PROPERTIES
  CurrentNeverGoesBack
