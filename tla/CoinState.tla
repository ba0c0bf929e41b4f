----------------------------- MODULE CoinState -----------------------------
(***************************************************************************)
(* The state the bet service and the draw scheduler of the coin game share *)
(* for one coin: the wall clock in seconds, the Redis hash that holds the  *)
(* current period, and the game_period and game_bet tables.                *)
(*                                                                         *)
(* A period map carries only its id, its start time and the cached         *)
(* drawResultTime; the other fields of the hash are functions of the start *)
(* time (CoinPeriodServiceImpl.createCoinPeriod) and are defined below as  *)
(* such.  A price stands for the pair of tickers a draw result is computed *)
(* from and remembers which period it was fetched for.                     *)
(***************************************************************************)
EXTENDS Naturals

CONSTANTS
  Bets,          \* the rows of game_bet, one per bet request that gets that far
  Picks,         \* the options players bet on; the one a price makes win
  PickOf,        \* the option each bet is placed on
  BetDuration,   \* coin.duration.bet, seconds
  BetReal,       \* coin.duration.betReal, seconds
  DrawDuration,  \* coin.duration.draw, seconds
  MaxTime,       \* bound: the clock stops here
  MaxPeriod      \* bound: rows of game_period

(***************************************************************************)
(* The durations are configured so that players stop betting before the    *)
(* period ends (betReal <= bet) and the draw starts before the period's    *)
(* draw window closes; every application-*.yml has draw: 5.                *)
(***************************************************************************)
ASSUME CoinStateAssumption ==
  /\ PickOf \in [Bets -> Picks]
  /\ BetDuration \in Nat \ {0}
  /\ BetReal \in 1 .. BetDuration
  /\ DrawDuration \in Nat /\ DrawDuration >= 3
  /\ MaxTime \in Nat
  /\ MaxPeriod \in Nat \ {0}

VARIABLES
  clock,       \* DateUtils.unixTime()
  hash,        \* Redis COIN_PERIOD_HASH + coin: the current period
  periods,     \* table game_period
  lastPeriod,  \* its auto-increment id
  bet          \* table game_bet

stateVars == <<clock, hash, periods, lastPeriod, bet>>

Period == 1 .. MaxPeriod

\* No draw result cached: the field drawResultTime is the empty string.
NoPrice == [for |-> 0, pick |-> "none"]
Price == [for : Period, pick : Picks]

\* The hash before any period was created (Redis returns no entries).
NoMap == [id |-> 0, start |-> 0, price |-> NoPrice]
PeriodMap == [id : 0 .. MaxPeriod, start : Nat, price : Price \cup {NoPrice}]

\* GameEnum.BetStatusEnum; NONE is a row that was not (or no longer is) inserted.
BetStatus == {"NONE", "BET_DONE", "BET_FAILED", "PAY_ING", "BOMB",
              "WT_DONE", "WT_FAILED", "CANCEL"}

BetRow == [status : BetStatus, period : 0 .. MaxPeriod]
NoBet == [status |-> "NONE", period |-> 0]

\* A draw leaves a bet in one of these; only payouts move it further.
Settled == {"PAY_ING", "BOMB", "WT_DONE", "WT_FAILED"}

\* drawValue (with extInfo) and orderCount; the count is kept as the set counted.
PeriodRow == [value : Price \cup {NoPrice}, orders : SUBSET Bets]
NoRow == [value |-> NoPrice, orders |-> {}]

(***************************************************************************)
(* The times createCoinPeriod derives from the start of a period.          *)
(***************************************************************************)
BetLast(m)   == m.start + BetReal - 1
BetEnd(m)    == m.start + BetDuration - 1
DrawStart(m) == m.start + BetDuration + 1
DrawEnd(m)   == BetEnd(m) + DrawDuration

\* Mutant: only the exact second counts.
DueExactly(m) == clock = DrawStart(m)

\* Time to draw the period.
Due(m) == clock >= DrawStart(m)

\* Mutant: the window closes only when the period is replaced.
InPeriod(p) == hash.id = p /\ hash.start <= clock

\* The window test bet and cancel make before they touch anything.
InBetWindow(p) ==
  /\ hash.id = p
  /\ hash.start <= clock
  /\ clock <= BetLast(hash)

StateTypeOK ==
  /\ clock \in 0 .. MaxTime
  /\ hash \in PeriodMap
  /\ periods \in [Period -> PeriodRow]
  /\ lastPeriod \in 0 .. MaxPeriod
  /\ bet \in [Bets -> BetRow]

(***************************************************************************)
(* The scheduler finds the first period running: row 1 was inserted and    *)
(* put into the hash at time 0.                                            *)
(***************************************************************************)
StateInit ==
  /\ clock = 0
  /\ hash = [id |-> 1, start |-> 0, price |-> NoPrice]
  /\ periods = [p \in Period |-> NoRow]
  /\ lastPeriod = 1
  /\ bet = [b \in Bets |-> NoBet]

(***************************************************************************)
(* A fresh deployment: no period exists, the hash is empty.                *)
(***************************************************************************)
ColdInit ==
  /\ clock = 0
  /\ hash = NoMap
  /\ periods = [p \in Period |-> NoRow]
  /\ lastPeriod = 0
  /\ bet = [b \in Bets |-> NoBet]
=============================================================================
