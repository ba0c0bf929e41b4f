# trending-game: specifications

`trending-game` is a Spring server for two betting games. In the **coin game** players
bet on how the price of a coin (BTC, ETH, ...) moves within a short period; every
second a scheduler looks whether the current period is over, draws it, creates the
next period and pays the winners. In the **Mines** game a player opens fields of a
private board and withdraws before hitting a mine. Stakes and winnings are moved by a
merchant ("seamless wallet") over HTTP. State lives in MySQL tables and in Redis, and
several nodes may run the same schedulers.

This directory holds TLA+ modules of both games, of the money they move, of the players'
WebSocket sessions and of the price feed, the configurations TLC checks them with, and
proofs checked by TLAPS. Paths below are relative to
`trending-game-boot/src/main/java/com/bistro/` unless they start otherwise.

## 1. Inventory

| Component | State | Operations | Interacts with | Hard behaviour | Correct when |
|---|---|---|---|---|---|
| Draw scheduler: `module/task/CoinDrawTask`, `CoinDrawServiceImpl`, `CoinPeriodServiceImpl` | Redis: job lock (500 ms), draw tag per period (30 s), period hash per coin, set of drawn periods; tables `game_period`, `game_bet`; the executor's queue of payout tasks | `draw` (every second), `updateRedisAfterDraw`, `createCoinPeriod`, `payout`, `batchPayout` | reads tickers, writes bets, calls the merchant | several tasks of several nodes; tag expires by time; Redis calls around a database transaction; crash between any two of them | every bet is settled, once, in its own period, at one price; the current period only moves on |
| Coin bets: `CoinBetServiceImpl`, `ApiCoinController`, `aop/RedissonLockAspect` | Redisson lock per user and coin (30 s lease), once-limit key per user and period (10 min), table `game_bet` | `bet`, `cancel`, `removeOnceLimitKey` | period hash, merchant, rank and balance | merchant call between the window test and the commit; cancel without a transaction; cleanup after the lock is gone | a bet is in play only in an undrawn period; cancelled or settled, refunded or paid |
| Payment: `PaymentServiceImpl`, `PaymentTimeoutTask`, `ManualTransactionServiceImpl` | tables `game_payment_info`, `game_payment_timeout`; the merchant's ledger | `bet`, `payout`, `batchPayout`, `refund`, timeout retries, manual refund and payout | merchant | answers lost after the money moved; retries of what was done; manual actions next to automatic ones | no stake kept for a failed bet, no double refund or payout |
| Mines: `GameBetServiceImpl`, `GamePlayServiceImpl`, `WithdrawServiceImpl`, `message/handler/*` | tables `game_bet`, `game_record_info`, `game_recode_detail`, `game_payout`; Redis ongoing-game key | `playerBet`, `play`, `withdraw`, `getOngoingGame` | payment, rank | nested transactions, pool threads that write Redis inside a transaction, play after the end | a game is paid at most once and never after a mine |
| Ticker feed: `BinanceTickerServiceImpl`, `web/core/websocket/client/*` | Redis sorted set of tickers, per-second tag (90 s); socket, state flag, retry counter | socket callbacks, `addTicker`, `getTicker` | draw, presetting | duplicates, late tickers, reconnects that double or give up | one ticker per second; the feed comes back |
| Player sockets: `web/core/websocket/WebSocketServer` | session maps, Redis heartbeat key (45 s) | open, close, message, error | Mines | an old session's close against a new session | one session per player |
| Price presetting and totals: `CoinDrawTask.presetPrice`, `initCoinTotalAmount` | preset price set, totals hash | as named | tickers, draw | none here: nothing in the repository calls `presetPrice` | at most one preset per period |
| Balance and rank: `UserBalanceServiceImpl`, `GameRankService` | Redis balance, rank sets | set, add, rank | bets, draws | a set from an older answer against an increment | the cache follows the merchant |
| Pure arithmetic: draw result, `utils/MultiplierUtils`, `RandomNumbersUtils`, ... | none | functions | | rounding, boundaries | agrees with a reference |
| Rest: sequences, player and merchant registry, cleaning, fake bets, statistics, the RuoYi framework (`trending-game-framework`, `-system`, `-quartz`, `-generator`, `-common`), front end | | | | | |

`PROJECT.json` lists each of these with its status, and under "hazards" the lines where
the hard behaviour bites. A hazard names the properties that would notice it going wrong.
Where the code itself does what is feared, the properties except that case by a history
variable and show that nothing else leads there; such a hazard has a note in place of a
property, or beside the properties that cover the rest of it.

## 2. Modules

    CoinState       clock, period hash, tables: what the two sides of a coin share
      CoinBet       bet and cancel requests under the per-user lock
      CoinDraw      draw tasks and payout tasks
        CoinGame        both on one clock: Next, fairness, the properties
          MCCoinGame        constants for TLC
          CoinGameProofs    theorems: types, the user's lock, settled at most once
          CoinRoundsProofs  theorems: rounds, prices, results, the refinement
    BetLedger       what the coin game promises about bets, instantiated by CoinGame

    Payment         merchant, calls, timeout rows, the timeout task, the operator
          PaymentProofs         lemmas about its steps, for both games
      CoinPayment       the money of one period of the coin game
          MCCoinPayment         constants for TLC
          CoinPaymentProofs     theorems: the tables say what happened, a bet is
                                refunded or paid, the refinement
          CoinTracesProofs      theorems: stakes and winners leave a trace, statuses
                                go forward
      MinesGame         the Mines game of one player
          MCMinesGame           constants for TLC
          MinesGameProofs       theorems: all its invariants and action properties
    Settlement      what the payment side promises, instantiated by CoinPayment

    WsSession       the WebSocket connections of one player
          MCWsSession, WsSessionProofs
    Feed            the price feed of a coin on several nodes
          MCFeed, FeedProofs

The coin game is seen twice, because its two hard parts do not meet. `CoinGame` is about
time: when bets, cancels and draws may overlap, with a merchant that answers in three
ways. `CoinPayment` is about money: its draw is one step, and every call to the merchant
may end in every way and be repeated by somebody else. What the first shows (a bet is
drawn once, in its period, and no request of a period outlives the window before its
draw) is what lets the second draw in one step.

### The coin game

Everything is for one coin; coins share nothing but the job lock.

**CoinState.** `clock` is `DateUtils.unixTime()`, in seconds. `hash` is the Redis hash
`COIN_PERIOD_HASH + coin`. Of its fields only the id, the start and the cached
`drawResultTime` are kept; `BetLast`, `BetEnd`, `DrawStart` and `DrawEnd` are the times
`createCoinPeriod` computes from the start. `periods` and `bet` are the tables.
A `Price` stands for the pair of tickers a result is computed from: it remembers the
period it was fetched for and the option it makes win. `orderCount` is kept as the set
of bets it counts, which is stronger than the number.

**CoinBet.** One row of `rpc` per request, its label the place the request is at. For a
bet: `Submit` (the aspect's `tryLock`), `BetWindow`, `BetOnce` (the `setIfAbsent` of the
once-limit key), `BetPay` (insert and merchant call), `BetCommit`, `After` (rank and
balance, in the controller) and `Cleanup` (`removeOnceLimitKey`, in the controller, after
the lock is gone). For a cancel: `Submit`, `CancelWindow`, `CancelLoad`, `CancelRefund`,
`CancelCommit`, `After`, `Cleanup`. `Dies` is the process going down at any label: the
transaction rolls back, the lock stays until its lease ends. The lock aspect is
`@Order(1)`, outside the transaction, so commit and unlock are one step only where nothing
of the other side can see the difference: the unlock follows the commit and touches only
the user's lock.

**CoinDraw.** One `pc` per task, its label the next Redis or database call of
`CoinDrawTask.draw`: `Poll` (job lock and first read), `AcquireTag`, `FetchPrice`,
`SelectBets` (plain select), `CommitDraw`, `PublishHistory` and `UpdateCurrent`
(`updateRedisAfterDraw`), `CheckCurrent`, `InsertPeriod` and `PutCurrent`
(`createCoinPeriod`), `SubmitPayouts`; `PayGroup` is a payout task. `DrawFails` is the
catch block, `Crash` a task that ends anywhere else, `DropGroup` the loss of a queued
payout in a restart. `SettledOnce` and the ledger talk about history variables
(`settled`, `paidAt`, `sent`, `credited`, `cleared`, `refunded`, `lost`) that no guard
reads.

**CoinGame** puts them together: one step is one call of one actor, or a second that
passes. **BetLedger** is the abstract specification: bets are placed in open rounds, a
draw settles in one step everything in play in its round, and winners are paid.

### The money

**Payment.** `row` is `game_bet` (status and payout amount), `payouts` counts the rows of
`game_payout`, `timeouts` is `game_payment_timeout` and `last` its auto-increment.
`wallet` is the merchant's book: the requests it carried out, at most one per bet and
kind, since `uniqueId` is made of these. `flight` holds requests whose caller has given
up and which may still arrive (`MerchantLate`). `Call` is `PaymentServiceImpl.bet`,
`payout` or `refund`: answered with success and carried out, or not answered with
success, and then carried out, not carried out, or still on its way, with or without a
timeout row (`NoteTimeout`: read timeouts of debits and payouts only). The timeout task
is one run with a program counter: `TaskStart` selects the rows, `TaskNext` reads the bet
of the next one, `TaskCall`, `TaskWrite` (`updateGameBet` with the copy) and `TaskMark`
follow; `TaskThrows` is an exception caught in the loop and `TaskDies` a restart. An
order of the operator goes through `ShowPage`, `ManualLoad`, `ManualCall`,
`ManualRecord` and `ManualWrite`, and may be dropped anywhere. The page offers a payout
of bets it shows as `WT_FAILED`, a refund also of those it shows as `BET_DONE`; the
service checks neither (`ManualTransactionServiceImpl` has the test commented out), so
the bet may be anything by the time of the order.

**CoinPayment** adds the requests of a period: `BetCall` and `BetCommit`, `CancelLoad`,
`CancelCall` and `CancelCommit`, `Draw`, and the payout tasks with winners one by one
(`PayCall`) or in a group (`BatchCall`), then `PayCommit`. In a group each bet may be
answered paid, refused or not at all, and the call as a whole may fail after some were
paid. `DropTask` is the executor's queue or an uncommitted transaction lost in a restart.

**Settlement** is the abstract specification: the merchant takes a stake and then returns
it or pays for it, and the service says of a bet only what has happened. `CoinPayment`
maps `money` to the merchant's book and `told` to the bet table.

**MinesGame.** One player, several threads that handle his messages. `BetCall`,
`BetSet`, `BetCommit`; `Play`, `PlayBomb`, `PlayCommit`; `Withdraw`, `PayoutCall`,
`PayoutSubmit`, `PayoutCommit` are the places where `playerBet`, `play` and `withdraw`
call out or commit, each with its rollback. A play in automatic mode goes through the
withdraw's labels before its own commit (`REQUIRES_NEW`), taking the lock again. `pool`
counts the updates of the ongoing-game key waiting in the thread pool, which run in any
order and whatever became of their transaction. `LockLapses` is the end of the 30 s
lease under a running method. The board is the number of diamonds found and whether a
mine was; which field holds what is left to chance.

### Sessions and feed

**WsSession.** Of one player: `key` is the Redis key `WEBSOCKET_HT`, `session` and `user`
are his entries in `sessionMap` and `userMap`. A connection goes through `Tag`,
`Register` (or `Refuse`, `OpenFails`) in `onOpen`, and `CloseRead`, `CloseMaps`,
`CloseKey` in `onClose`; these of two connections interleave. A heartbeat is two steps in
the pool, `BeatRead` (which user) and `BeatSet` (refresh the key). The pages are the
compiled front end: they connect, reconnect after a loss, and disable themselves on close
code 4003. `Restart` loses the maps and not the key.

**Feed.** Per node, `socket`, `state` and `retry` are the connection, `webState` and
`retryNum`; `Breaks` is `onFailure` or `onClosing` with the event handled in the same
thread. `addTicker` is `AddTag` (the tag of the second and the random price) and
`AddWrite`. A draw (`StartDraw`, `Look`, `Finish`) looks up to `Looks` times for the
ticker of its second and then takes what is there. Any call of Redis in `addTicker` may
throw; `onMessage` (`CustomWebSocketListener` lines 57-59) logs that and drops the ticker.
`TagFails` is the `setIfAbsent` that throws, with or without having set the tag, `AddFails`
the look for a preset price or the write that throws after the tag was set: the tag then
stays for its 90 s and keeps the other nodes from writing the second.

### History variables and mutants

No guard reads a history variable. In CoinState: `settled`, `paidAt`, `sent`,
`credited`, `cleared`, `refunded`, `lost`. In Payment and the games: `byHand` (a refund
ordered by hand), `unheard` (a debit that left no trace here), `lost` (a cancel's refund
nobody recorded), `dropped` (a winner whose payout task is gone), `moved` and `strayed`
(a Mines game that went on after a payout was asked; games that overlapped or key updates
that were not meant). In WsSession `holder` and `unseated` (who set the key, who lost it
to a named cause), in Feed `missed` (a second lost for all nodes: its tag set by a node that
then failed or went down, or its last waiting ticker dropped) and `stale` (a second whose
tag ran out while a ticker of it waited in a pool). Where a property excepts a case, the
exception is one of these, set at the exact step that causes it, and the property says
what that step is.

Definitions headed "Mutant:" are not used by the specification. Each is a plausible
mistake in the definition that follows or uses it (an ignored `setIfAbsent` answer, a
forgotten status test, a tag that is too short), kept next to it as the witness that the
properties listed for it in `PROJECT.json` notice that mistake.

### What is abstracted

- Amounts and lists of options: a bet has one pick. A tie refund (price unchanged) is a
  win, since it takes the same path, `PAY_ING` and payout.
- The merchant answers success, refusal, or nothing after the money moved.
- The once-limit key lives 10 minutes, longer than a period is open, so it does not expire.
- In `createCoinPeriod` the time is an argument, computed just before the call; the model
  reads clock and hash in one step.
- The per-user result cache, totals, rank and balance that `updateRedisAfterDraw` also
  writes feed nothing back into periods or bets and are left out.
- The commission of a bet, statistics and record rows.
- In the payment modules all stakes are equal, and `game_payment_info` is left out: only
  pages of the administration read it. The retry delay of a timeout row is one step (`Age`),
  taken when the request that left the row is over. The delays are arguments of the
  Quartz job, set in its database (a test uses 10 s); that they are longer than the rest
  of a request after its read timeout is an **assumption**, and `RefundedOrPaid`,
  `StatusMovesForward` and the refinement rest on it.
- The merchant carries out each unique id once, answers a repeated one with success, and
  returns only a stake it took. The service relies on that: the id is made of the bet and
  the kind of request (`chanelOrderNo`), and every retry repeats it. The merchant itself is not
  in the repository.
- In CoinPayment the draw waits until no request of its period is running, which is
  `BetsBeforeDraw` of CoinGame.

## 3. Runs

`CHECK_DEADLOCK FALSE` is set for CoinPayment (a period ends), MinesGame (all bets of
the bound are played), Feed and WsSession (bounded seconds and pages; nobody has to
act): they may really stop. The coin game's clock and cron never do.

| Run | What is in it | Shows |
|---|---|---|
| `draw` | 1 bet, 2 tasks, one crash of a task or of a queued payout anywhere, `MaxTime` 9: a period drawn, its successor, and the draw of that | `TypeOK`; `SettledOnce` although a period may be drawn twice; a bet in play is in the current period (`NoBetLeftBehind`); settled at the price of its own period (`SettledAtOwnPrice`), which is the one published (`HistoryIsTheDraw`) and counted (`OrdersAreTheSettled`); `CurrentNeverGoesBack` |
| `ledger` | 2 bets of a player on the same option and a cancel, payouts in one group with partial answers | the game implements `BetLedger` (`KeepsLedger`); `CancelOrSettle`, `RefundOrPayout`, `OneLockedRequest`; two orders in a period need a deleted key (`SecondOrderNeedsCleanup`) |
| `recover` | `FairSpec`, 1 task at a time, draws that fail at will and one crash | `DueBetIsSettled`, `DuePeriodIsSucceeded` |
| `oneorder` | 2 bets of a player in one window | violated, see Findings |
| `coinpayment_batch` | 2 bets and their cancels, winners in one group with partial, missing and lost answers, 2 timeout rows, one lost payout task | every stake taken is accounted for (`TakenIsAccounted`), the table says what happened (`DoneMeansPaid`), `PayingIsHeld`, and the refinement `KeepsSettlement` |
| `coinpayment_live` | `FairSpec`, 1 bet, payouts one by one, 1 timeout row, an order of the operator at any time, one lost payout task | `RefundedOrPaid`, `StatusMovesForward`, `DoneMeansPaid`; a row whose bet exists is done or given up (`RowIsWorkedOff`), a winner is answered (`WinnerIsAnswered`) |
| `minesgame_play` | 1 game of up to 2 diamonds, 2 threads, 1 timeout row | `RefundedOrPaid`, `EnteredOnce`, `PaidAsRecorded`, `NoPayoutAfterMine`, `StatusMovesForward` |
| `minesgame_games` | 2 games of a player, 2 key updates of a kind in the pool | the key names the game in play (`OngoingIsFound`) |
| `minesgame_lapse` | a lease that ends too early, a restart, an order of the operator | `DoneMeansPaid` needs no lock |
| `minesgame_newgame` | 2 games | violated, see Findings |
| `wssession_tabs` | `FairSpec`, 2 pages, 2 links, 2 connections at a time, any number of reconnects, expiries and restarts | `AcceptedIsServed`, `ForgottenInTheEnd` |
| `feed_nodes` | `FairSpec`, 2 nodes, 2 seconds (the draw's and the one before), 2 prices, 1 draw with 2 looks, 1 restart, any number of failed Redis calls | `DrawPriceStands`, `DeadOfRetriesOnly`, `TickerArrives` |

Bounds of the coin runs. The times are scaled: a period with `BetDuration` 2, of
which `BetReal` 1 accepts bets, and `DrawDuration` 3 keeps the order of all its times
(last bet < end < draw start < draw end), with a gap of a full draw window between two
periods. `TagTTL` is 3 and `MaxJob` 1: a task ends before its tag can expire, yet a tag
does expire within a run. `MaxPeriod` 4 is more than the runs' clocks can use up.
Two tasks are enough for the races on the tag and on the hash, each of which is between
two; two bets for a draw that sees one of them only. `MaxTime` stops the clock, not the
system: `TagsLapse` lets the remaining tags end, so that a period whose task died is
drawn again also at the bound. Symmetry (of tasks, of threads) is used in safety runs
only.

Bounds of the other runs. Nothing a bet does in the payment modules depends on another
bet except through a group payout and the order in which the timeout task takes rows:
two bets and two rows show both. `RefundRetries` and `PayoutRetries` 2 let a row fail,
be retried and be given up. One diamond value per count (`Prize`) and two diamonds make
two payouts of one game differ in amount. Two threads are enough for one lock. In the
feed a draw reads two seconds, and two nodes compete for a tag.

### Fairness

**Coin game.** `FairSpec` assumes weak fairness of the clock, of the requests' and tasks' own steps and
of the job lock's expiry (threads are scheduled and time passes), and of polling as such
(the cron ticks every second; some task polls, not each). Strong fairness is assumed of
`FetchPrice`, `SelectBets` and `CommitDraw`, the steps a failing draw competes with, and
stands for tickers that come back after an outage: a coin whose tickers never return is
never drawn, and `CoinDrawTask` retries every second until then. `TagsLapse` is the
passing of time beyond the bound. Nothing is assumed of players, of crashes or of
payouts.

**CoinPayment.** Weak fairness of what is running: commits and cancels of requests, the
executor's payout tasks, the Quartz job, the age of a row. Strong fairness of each step
of the timeout task *per row*: a run may be cut short anywhere, by an exception or a
restart, but not for ever at the same point of the same row. A job that is run again and
again can rely on no less; were one row to fail in the same place in every run for ever, it
would indeed never be worked off. Nothing is assumed of bets, of the operator, of the
merchant's late arrivals or of `DropTask`.

**WsSession.** The server's threads go on, a lost connection is noticed (by TCP or the
container's idle timeout), and the key expires once no heartbeat can come. **Feed.** The
pool's threads go on, a ticker that ends in a logged exception included. Players, networks,
Redis and the exchange do as they please in both.

## 4. Proofs

### CoinGameProofs

`CoinGameProofs` proves, for every number of bets, players, tasks and crashes and every
duration within the assumptions, from a running period (`Spec`) and from an empty
deployment (`ColdSpec`):

- `TypeCorrect`: `[]TypeOK`. `TypeOK` alone is not inductive: a task inserts a
  map it carries as the current period, and a commit indexes the tables with ids. The
  invariant `TypeInv` adds what a task and a request hold while they are at a label
  (`WorkerHolds`, `RequestHolds`) and that the hash is empty or names a created period.
- `MutualExclusion`: `[]OneLockedRequest`. `LockInv` says that whoever is inside a locked
  method holds the lock, and that the lease ends `LockLease` after the entry. The clock
  cannot pass `MaxReq` after an entry, so no lease ends under its holder.
- `SettledAtMostOnce`: `[]SettledOnce`. `DrawInv` has four parts. `TagInv`: a task
  between its tag and its commit is covered by a live tag, because it started at most
  `MaxJob` seconds ago. `OneDraw`: so no two tasks draw the same period. `RowInv`: a bet
  still `BET_DONE` or `NONE` was never settled, and one never settled was never sent.
  `BatchInv`: what a task selected is unsettled until it commits, and the winners it
  carries after that are not sent yet and in no other task's hands. The delicate step is
  a payout or cancel that writes a status from an earlier read, while a task holds the
  bet in its batch.

Assumptions, all named `ASSUME`s that TLC evaluates in every run: the types of the
constants and durations, and relations between times that the deployment relies on and
**no line of the code enforces**:

- `TagOutlivesJob`: a draw task ends before the 30 s tag can. The price loop waits at
  most 4 x 305 ms, but nothing bounds the database. With `MaxJob >= TagTTL` a bet can be
  settled twice: TLC finds it at once.
- `TagOutlivesTwoJobs`: twice a task's time is still less than the tag's 30 s, so a task
  takes less than 15 s. `SettledOnce` does not need it, the rounds below do: a task that
  read the period just before its successor was created may ask for the old tag up to a
  task's time later, and must not get it. With `MaxJob` 2 and `TagTTL` 3 TLC finds
  `CurrentNeverGoesBack` violated.
- `LockOutlivesRequest`: a request ends before its 30 s lease.
- `BetsBeforeDraw`: a request that passed the window test commits before its period's
  draw can start, `bet - betReal + 2` = 32 s later in the production configurations
  (17 s in the development one). Without it a bet can be left in play in a drawn period.

`CoinGameProofs` uses the first and the third; `CoinRoundsProofs` uses all four.

### CoinRoundsProofs

The rest of the coin game's safety, over the invariant of `CoinGameProofs` (`GameInv`)
and from a running period (`Spec`): two tasks that find an empty deployment may both
create a first period, see Findings. Only `SecondOrder` is proved from there too.

- `CurrentIsTheLatest`: `CurrentNeverGoesBack`. `RoundInv` follows the tasks around the
  period: one task at a time is between its tag and the next period (`OneBusy`), it works
  on the current period, whose tag outlives it, and a task that still holds an earlier
  period will be refused that period's tag (`WorkerInv`); a request past the window test
  names the current period and started in its window (`WindowInv`). So `updateCurrentPeriod`
  and `createCoinPeriod`, which write maps read long before, never put an old one back.
- `NoneLeftBehind`: `[]NoBetLeftBehind`. `PlayInv`: from the select to the commit of a draw
  the batch is exactly the bets in play, since no request is past the window test once
  the period is due (`DueIsQuiet`, from `BetsBeforeDraw`), and a drawn period holds none.
- `CancelledIsNotSettled`, `RefundOrPayoutHolds`: `[]CancelOrSettle`, `[]RefundOrPayout`.
  `CancelInv`: the bet of a cancel under way is not settled, and a recorded refund left
  the bet `CANCEL` or is about to.
- `ImplementsLedger`: `Spec => KeepsLedger`. With `QueueInv` (what waits for its payout is
  `PAY_ING` and in one group only) every step of the game is a `Place`, a `Cancel`, a
  draw of a whole round, a payment or a stutter of `BetLedger`.
- `OwnPrice`: `[]SettledAtOwnPrice`, with `PriceInv`: the cached `drawResultTime` a task
  works with belongs to the period it holds.
- `HistoryHolds`, `OrdersHold`: `[]HistoryIsTheDraw`, `[]OrdersAreTheSettled`. `ResultInv`:
  as long as no task died, a period that has a result and is still current is with the
  one task that drew it, so it is not drawn again.
- `SecondOrder`: `[]SecondOrderNeedsCleanup`. `OrderInv`: a bet in play, or on its way there
  past the once-limit test, has its key, or the key was deleted.

### PaymentProofs

No theorem of its own but the lemmas the two games share: what each step of the merchant,
the timeout task and the operator keeps of types and of `DoneMeansPaid`, and what such a
step may change at all (`PayBooks`, `PayRows`, `PayTask`, `PayHands`, `PayAges`): requests
that were asked for, rows written from a copy that was loaded.

### CoinPaymentProofs

For any finite set of bets, any set of orders, and any amounts, retries and bounds,
`Batch` or not:

- `TypeCorrect`: `[]TypeOK`.
- `DoneMeansPaidAlways`: `[]DoneMeansPaid`. Nobody who writes a status looks at the
  merchant's book, so what each of them knows at that moment has to be part of the
  invariant `PaidInv`: a timeout row that was inserted names a bet (`RowsNamed`); a task
  at "paid" or later has had its request carried out (`TaskHolds`), and so has an order
  at "write" (`HandHolds`), a payout answer that says "ok" (`AnswersHold`) and a cancel
  that says "refunded" (`CancelsHold`). Since the book only grows (`Stays`), the copies
  they carry may be as old as they like. The assumption that matters is that the
  merchant answers success only for what it has carried out, now or before.

- `RefundedOrPaidAlways`: `[]RefundedOrPaid`.
- `ImplementsSettlement`: `Spec => KeepsSettlement`.

`RefundedOrPaid` is far from inductive: that no refund follows a payout depends on who
may still send one. `SettleInv` therefore puts each bet on a side. A bet of the *refund
side* is declined, rolled back or cancelled, and everything that could still ask for its
stake back (a request with the merchant or on its way, a timeout row of its debit, a
cancel under way) belongs to a bet of that side; a bet of the *pay side* is a winner, and
the payout requests, the rows of its payout, the task that holds it and the operator's
orders belong to a bet of that side (`RefundSide`, `PaySide`, together with `RequestSide`
in `Side`). No step moves a bet from one to the other, except one whose refund
the service lost sight of or the operator ordered (`Clean`). What makes the sides stick
although `TaskWrite` writes a status it chose before: a row is old enough for the task
only when no request and no payout task holds the bet (`TaskOpen`, `HeldOnce`), so a
late retry finds the bet where the row says. For the refinement each step is then a
`Take`, a `Settle`, a `Tell` or a stutter of `Settlement`; that a `Settle` finds the
stake taken and untold is the invariant again.

TLC checked each inductive invariant of these proofs on bounds like those of the runs
before it was proved.

### CoinTracesProofs

- `TakenIsAccountedAlways`: `[]TakenIsAccounted`.
- `PayingIsHeldAlways`: `[]PayingIsHeld`.

These say that nothing is forgotten without a cause, and rest on `SettleInv` and on what
the tables remember (`Traces`): a bet has a row only once its request is over, and only
such bets are cancelled, paid or in the operator's hands (`RowsExist`); a debit that was
sent, and was not answered with success, left a timeout row or is in `unheard`
(`DebitsTraced`); and a timeout row is marked done only after what it asks for was carried
out (`DoneWasAsked`). What `SettleInv` contributes is that a row is old enough for the task
only when its bet's request is over (`TaskOpen`): the task writes `CANCEL` over a bet that
exists and takes no stake out of sight, and the debit it returns is the only one there
will be.

- `StatusMovesAlways`: `Spec => StatusMovesForward`. The only exception is a refund by hand,
  so this cannot rest on the sides, which a lost refund breaks. `CourseInv` keeps of them
  what is true of such bets too: a bet being cancelled is in play, one with a timed out
  debit is not (`BetCourse`), whoever pays a bet finds it on the pay side and no longer in
  a payout task (`PayCourse`), and every copy of a row that is on its way to be written
  back has the amount the row has by then (`Copies`).

### MinesGameProofs

For any bets, threads, orders, timeout rows, prizes and bounds, all of the module's
safety. Each part rests on those before it:

- `MinesTypesAreKept`, `MinesDoneIsPaid`: `[]TypeOK`, `[]DoneMeansPaid`, with what a thread
  knows at each label (`JobOK`).
- `StakeOrPayout`: `[]RefundedOrPaid`. `StakeInv`: a bet with its `game_record_info` row is
  in play, and only then paid for; one without is the only kind the timeout task refunds;
  a bet being placed has neither a request for its stake nor another thread. No lock is
  needed, leases may end at any time.
- `MineIsTheEnd`: `NoPayoutAfterMine`, with `Alone` (while no lease ended too early, the
  thread that is on holds the lock) and `MineInv`: a play that goes on has seen no mine,
  and a withdraw that is the first for its game found none.
- `PayoutEnteredOnce`: `[]EnteredOnce`. `OnceInv`: once the payout is entered all that is
  left of the game is the commit of the play that was paid.
- `OngoingFound`: `[]OngoingIsFound`. `NameInv`: while games do not overlap and every key
  update was meant, at most one game is alive, the pool holds updates about that one only,
  and the key names it or a set is waiting with no delete behind it, in whatever order the
  pool runs them.
- `PaidWhatIsRecorded`, `StatusMoves`: `[]PaidAsRecorded`, `StatusMovesForward`. `DueInv`
  says what a payout that was asked for is of (`Owed`: the prize of the diamonds on record,
  or of those the play that is on has found), and that the bet table, the merchant's book,
  the requests on their way, and the copies of the task and the operator all carry that
  amount. The delicate part is the time between the call and the commit: a timeout row
  left by the call exists while the bet is still `BET_DONE`, and it is harmless because it
  is still young (`DueNote`). The list of moves could be made smaller on the way: a game whose
  payout was asked for never ends as `BOMB` under the exceptions.

### WsSessionProofs and FeedProofs

- `SessionTypes`, `AcceptedServed`: `[]TypeOK`, `[]AcceptedIsServed`, for any links, pages and
  connections. `SeatInv`: a connection that is tagged or open and not unseated is the
  holder of the key, so there is one at most, and what is past the test of `onClose` met
  its own link in the key (`PastKey`): the close of an old session cannot take the maps or
  the key from a new one.
- `FeedTypes`, `GivesUpAfterRetries`, `PriceStands`: `[]TypeOK`, `[]DeadOfRetriesOnly`,
  `[]DrawPriceStands`, for any nodes, seconds, prices and retries. The bound on the counter
  is inductive only with `AttemptsLeft` (a node with a connection has an attempt left). The
  price: of all tickers of a second, those stored and those a pool thread is about to
  store, there is one, and its tag is there as long as another ticker of the second waits
  (`OneOfTheSecond`, with `PastOnly`: no ticker is of a second to come), and what a draw
  took is among the stored (`TookIsWritten`).
- `NoSecondForgotten`: `Spec => [][KeptStays]_vars`, the safety half of `TickerArrives`. A
  second of which some node has the ticker stays with a node, is written, or is lost for
  all in that very step, by a restart or a failed call. The invariant is `TagIsMeant`: a
  tag stands for a ticker that is written or being written, or for a second in `missed`.

### Only model-checked

Liveness and everything under fairness, which the prover does not reach:
`DueBetIsSettled`, `DuePeriodIsSucceeded`, `RowIsWorkedOff`, `WinnerIsAnswered`,
`ForgottenInTheEnd`, `TickerArrives`. Every invariant and every action property the passing
runs check, and both refinements, are theorems. Those with exceptions (history
variables) are proved with the same exceptions.

## 5. Findings

- `oneorder`: the once-limit key ("one order per period") is deleted after every failed
  answer, also when the bet is committed and only the rank or balance update failed, and
  when the lock refused a second request while the first held the key.
- `minesgame_newgame`: a comment says that no new game can be opened while a withdraw
  keeps failing. The only trace of that is the ongoing-game key, which `playerBet` never
  reads; the withdraw of the earlier game then deletes the key of the new one.

### Other things the models show

Behaviours that no text of the repository denies, so no run calls them violations:

- A task that dies after the draw's commit and before the next period leaves a drawn
  period current. It is drawn again when its tag expires; no bet is settled twice, but
  `CoinDrawServiceImpl` lines 224-230 overwrite `orderCount` and `income` with zeros.
- On an empty deployment two tasks can both create a first period (`ColdSpec`); the one
  put later replaces one that may hold bets already, which nobody draws.
- A winner in a payout task lost with the process, or left out of a batch answer, stays
  `PAY_ING`: nothing looks for it again (`dropped`).
- A timeout row of a debit whose bet was rolled back never leaves status 0: its turn ends
  in a null pointer before the attempt is counted. A repeated payout that times out
  leaves a second row, so the retry count bounds a row and not a bet.
- The order of a cancel's refund and the draw: a refund whose answer was lost leaves the
  bet in play, to be paid as well (`lost`).
- A Mines game that was paid by the timeout task can still be played, and a mine found
  then writes `BOMB` over it (`moved`).
- A payout of an earlier Mines game by hand deletes the ongoing-game key, whichever game it
  names by then (`strayed` in `MinesManualWrite`).
- A draw task that takes longer than 15 s, half the life of its tag, can put a drawn period
  back over its successor (`TagOutlivesTwoJobs`); nothing bounds a task's database calls.
- After a restart, or a reconnect within 45 s of a loss the server has not noticed, a
  player's only page is refused by its own key with code 4003 and disables itself.
- A Redis call of `addTicker` that fails after `setIfAbsent` loses the second for every
  node, without a restart: the tag stays for 90 s, the exception is logged and nobody tries
  again (`AddFails`, `TagFails`). The draw of that second then takes the one before.
- The feed's socket has neither ping nor read timeout: an exchange that falls silent on
  an open connection is never noticed (`FallsSilent`).

## 6. Not modelled

`PROJECT.json` names every component and why. In short: balances, totals and rankings
follow the games and decide nothing in them; the draw result, the multipliers and the
statistics are decimal arithmetic and decoration, and outcomes are left to chance in the
models; `presetPrice` and the sequences have no caller in the repository; tokens, the
registry, cleaning, administration, the code generator, Quartz and the web framework are
row-by-row or third-party code; the front end is compiled and minified, and only what its
pages do to a WebSocket session is modelled, as is the operator's page.

Within the modelled components: the merchant's side of a call is an assumption (above);
links that fail the signature check touch no state; reads of the rankings and charts
change nothing; a coin's configuration does not change while the system runs.

What is left: liveness, which stays with TLC; a proof of the coin game's rounds from an
empty deployment, of which only `TypeCorrect`, `MutualExclusion`, `SettledAtMostOnce` and
`SecondOrder` hold as they are; and a composition of the two views of the coin game, which
now meet in an argument of this text (section 2) and not in a theorem.
