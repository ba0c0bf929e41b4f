------------------------------ MODULE CoinGame ------------------------------
(***************************************************************************)
(* The coin game of one coin: bet and cancel requests, the draw scheduler  *)
(* and the payout tasks working on the same period hash and tables while   *)
(* the clock runs.                                                         *)
(***************************************************************************)
EXTENDS CoinBet, CoinDraw

vars == <<stateVars, betVars, drawVars>>

(***************************************************************************)
(* What the deployment relies on and nothing in the code enforces: a draw  *)
(* task ends before its tag can expire, a request before its lock does,    *)
(* and a request that passed the window test before the draw of its period *)
(* can begin.  In the code the tag lives 30 s, the lock is leased for 30 s *)
(* and the gap, bet - betReal + 2, is 32 s in production.                  *)
(***************************************************************************)
ASSUME TagOutlivesJob == MaxJob < TagTTL

\* That a bet is settled once needs no more than that.  That a period is not drawn
\* again after its successor was created, by a task that read it just before, does.
ASSUME TagOutlivesTwoJobs == 2 * MaxJob < TagTTL

ASSUME LockOutlivesRequest == MaxReq < LockLease

ASSUME BetsBeforeDraw == MaxReq < BetDuration - BetReal + 2

\* A second passes.  MaxJob and MaxReq are what the model assumes about how
\* slow tasks and requests can be; nothing in the code enforces them.
Tick ==
  /\ clock < MaxTime
  /\ JobsInTime
  /\ RequestsInTime
  /\ clock' = clock + 1
  /\ UNCHANGED <<hash, periods, lastPeriod, bet, betVars, drawVars>>

\* Bound: when the clock has reached MaxTime it no longer counts, yet time goes
\* on, and the draw tags nobody is working under lapse.
TagsLapse ==
  /\ clock = MaxTime
  /\ \A w \in Workers : pc[w] = "idle"
  /\ \E p \in Period : TagLive(p)
  /\ tag' = [p \in Period |-> 0]
  /\ UNCHANGED <<stateVars, betVars, jobLock, pc, since, map, price, batch,
                 history, queue, crashes, settled, paidAt, sent, credited>>

Init == StateInit /\ BetInit /\ DrawInit

Init0 == ColdInit /\ BetInit /\ DrawInit

Next ==
  \/ Tick
  \/ TagsLapse
  \/ BetNext /\ UNCHANGED drawVars
  \/ DrawNext /\ UNCHANGED betVars

Spec == Init /\ [][Next]_vars

\* The same from an empty deployment.
ColdSpec == Init0 /\ [][Next]_vars

(***************************************************************************)
(* Fairness.  Running tasks are scheduled by the executor; the cron ticks  *)
(* every second, so polling goes on; the clock runs.  The tickers come     *)
(* back after an outage, so a task that keeps reaching its commit gets it  *)
(* through: strong fairness on the steps DrawFails competes with.  Nothing *)
(* is assumed about players.                                               *)
(***************************************************************************)
RequestSteps == \E r \in Requests :
                  \/ After(r) \/ Cleanup(r)
                  \/ r \in Bets /\ BetStep(r)
                  \/ r \in Cancels /\ CancelStep(r)

Fairness ==
  /\ WF_vars(Tick)
  /\ SF_vars(TagsLapse)
  /\ WF_vars(RequestSteps /\ UNCHANGED drawVars)
  /\ WF_vars(JobLockExpires /\ UNCHANGED betVars)
  /\ WF_vars((\E w \in Workers : Poll(w)) /\ UNCHANGED betVars)
  /\ \A w \in Workers :
       /\ WF_vars(WorkerStep(w) /\ UNCHANGED betVars)
       /\ SF_vars(FetchPrice(w) /\ UNCHANGED betVars)
       /\ SF_vars(SelectBets(w) /\ UNCHANGED betVars)
       /\ SF_vars(CommitDraw(w) /\ UNCHANGED betVars)

FairSpec == Spec /\ Fairness

(***************************************************************************)
(* Properties.                                                             *)
(***************************************************************************)

\* Every variable has its type.
TypeOK == StateTypeOK /\ BetTypeOK /\ DrawTypeOK

\* A bet is in at most one committed draw, and its winnings are handed to the
\* merchant at most once.  CoinDrawServiceImpl.draw reads the bets without
\* locking them; only the draw tag of CoinDrawTask stands against a second task.
SettledOnce == \A b \in Bets : settled[b] <= 1 /\ sent[b] <= 1

\* Every bet was settled at a price fetched for its own period, and all bets of a
\* period at the same price: the drawResultTime cached in the period hash is read
\* and written under the key of the coin, not of the period.
SettledAtOwnPrice ==
  \A b \in Bets : settled[b] > 0 =>
    /\ paidAt[b].for = bet[b].period
    /\ \A c \in Bets : /\ settled[c] > 0
                       /\ bet[c].period = bet[b].period
                       => paidAt[c] = paidAt[b]

\* No bet is left behind: as long as a bet is in play, its period is the current
\* one, so the scheduler will still draw it.  Broken by a bet whose transaction
\* commits after the draw read the bets, or by a period replaced before its draw.
NoBetLeftBehind ==
  \A b \in Bets : bet[b].status = "BET_DONE" => bet[b].period = hash.id

\* The current period never goes back to an earlier one: updateCurrentPeriod
\* writes back a map that was read before the draw.
CurrentNeverGoesBack == [][hash'.id >= hash.id]_hash

\* A cancelled bet was never settled, and a settled bet is never cancelled:
\* cancel writes CANCEL over a status it read before the merchant call.
CancelOrSettle == \A b \in Bets : bet[b].status = "CANCEL" => settled[b] = 0

\* The merchant gives back the stake of a bet or pays its winnings, never both,
\* except where the answer to the refund never reached the service.
RefundOrPayout == refunded \cap credited \subseteq lost

\* What players are shown as the result of a period is what the bets of that
\* period were settled at: only a task that died, whose period is drawn again and
\* published at another price, can make it differ.
HistoryIsTheDraw ==
  \A e \in history, b \in Bets :
    settled[b] > 0 /\ bet[b].period = e.id => paidAt[b] = e.value \/ crashes > 0

\* The order count of a drawn period is the number of bets settled in it
\* (GamePeriod.orderCount); only a task that died has them counted again.
OrdersAreTheSettled ==
  \A b \in Bets :
    settled[b] > 0 => b \in periods[bet[b].period].orders \/ crashes > 0

\* The game keeps the promises of BetLedger; a period is drawn once its draw
\* value is in the table.
Ledger == INSTANCE BetLedger
            WITH Rounds <- Period,
                 status <- [b \in Bets |-> bet[b].status],
                 round <- [b \in Bets |-> bet[b].period],
                 drawn <- {p \in Period : periods[p].value # NoPrice}

\* Every step of the game is a step of the ledger or leaves the ledger alone.
KeepsLedger == Ledger!Spec

\* A player has two bets in play in the same period only where a once-limit key
\* of that period was deleted.
SecondOrderNeedsCleanup ==
  \A b, c \in Bets :
    /\ b # c /\ UserOf[b] = UserOf[c]
    /\ bet[b].status = "BET_DONE" /\ bet[c].status = "BET_DONE"
    /\ bet[b].period = bet[c].period
    => <<UserOf[b], bet[b].period>> \in cleared

\* A player never has two bets in play in the same period: CoinBetServiceImpl.bet
\* says "one order per period" of its once-limit key.
OneOrderPerPeriod ==
  \A b, c \in Bets :
    /\ b # c /\ UserOf[b] = UserOf[c]
    /\ bet[b].status = "BET_DONE" /\ bet[c].status = "BET_DONE"
    => bet[b].period # bet[c].period

\* Two requests of a player are never inside the locked methods together.
OneLockedRequest ==
  \A r, s \in Requests :
    Locked(r) /\ Locked(s) /\ UserOf[r] = UserOf[s] => r = s

\* Every bet in play when its period is due is settled in the end.
DueBetIsSettled ==
  \A b \in Bets :
    (bet[b].status = "BET_DONE" /\ clock >= DrawStart(hash)) ~> settled[b] > 0

\* Every period that is due is followed by another one.
DuePeriodIsSucceeded ==
  \A p \in Period :
    (hash.id = p /\ clock >= DrawStart(hash)) ~> hash.id > p
=============================================================================
