------------------------------ MODULE CoinDraw ------------------------------
(***************************************************************************)
(* The draw scheduler: CoinDrawTask.draw() with CoinDrawServiceImpl and    *)
(* CoinPeriodServiceImpl under it.  A worker is one asynchronous task      *)
(* started by a cron tick of any node; pc names the statement it is at.    *)
(* Database transactions are a snapshot read and an atomic commit; Redis   *)
(* calls are one step each.                                                *)
(***************************************************************************)
EXTENDS CoinState, FiniteSets

CONSTANTS
  Workers,    \* draw tasks that may be running at the same time
  TagTTL,     \* seconds the draw tag of a period lives (30 in the code)
  MaxJob,     \* assumed bound: seconds from a task's first read to its end
  MaxCrash,   \* bound: tasks that die half way, by an exception or a restart
  GroupSize   \* coin.batchPayoutGroupSize; 1 stands for the unbatched payout

ASSUME CoinDrawAssumption ==
  /\ TagTTL \in Nat
  /\ MaxJob \in Nat
  /\ MaxCrash \in Nat
  /\ GroupSize \in Nat \ {0}

VARIABLES
  jobLock,    \* Redis COIN_DRAW_KEY_RUNNING_JOB is set
  tag,        \* tag[p]: when the draw tag of period p expires, 0 if never set
  pc,         \* pc[w]: where worker w is
  since,      \* since[w]: when it started
  map,        \* map[w]: the period map it holds, read from or meant for the hash
  price,      \* price[w]: the draw result it works with
  batch,      \* batch[w]: bets it selected; after the commit, the winners
  history,    \* Redis COIN_PERIOD_SET + coin: drawn periods shown to players
  queue,      \* groups of winners waiting for their payout task
  crashes,    \* how many workers died
  settled,    \* history variable: committed draws that included the bet
  paidAt,     \* history variable: the price the bet was last settled at
  sent,       \* history variable: payout tasks submitted for the bet
  credited    \* history variable: bets whose winnings the merchant credited

drawVars == <<jobLock, tag, pc, since, map, price, batch, history, queue,
              crashes, settled, paidAt, sent, credited>>

PC == {"idle", "tag", "price", "select", "commit", "history", "current",
       "check", "insert", "put", "payout"}

\* The worker holds the draw tag of its period and has not committed.
Drawing(w) == pc[w] \in {"price", "select", "commit"}

\* Mutant: the answer of setIfAbsent is not looked at.
TagForgotten(p) == FALSE

\* Mutant: the tag lives two seconds less.
TagShort(p) == clock + 2 < tag[p]

\* The draw tag of a period has not expired.
TagLive(p) == clock < tag[p]

Later(a, b) == IF a >= b THEN a ELSE b

HistoryEntry == [id : Period, value : Price]

DrawTypeOK ==
  /\ jobLock \in BOOLEAN
  /\ tag \in [Period -> Nat]
  /\ pc \in [Workers -> PC]
  /\ since \in [Workers -> 0 .. MaxTime]
  /\ map \in [Workers -> PeriodMap]
  /\ price \in [Workers -> Price \cup {NoPrice}]
  /\ batch \in [Workers -> SUBSET Bets]
  /\ history \subseteq HistoryEntry
  /\ queue \subseteq SUBSET Bets
  /\ crashes \in 0 .. MaxCrash
  /\ settled \in [Bets -> Nat]
  /\ paidAt \in [Bets -> Price \cup {NoPrice}]
  /\ sent \in [Bets -> Nat]
  /\ credited \subseteq Bets

DrawInit ==
  /\ jobLock = FALSE
  /\ tag = [p \in Period |-> 0]
  /\ pc = [w \in Workers |-> "idle"]
  /\ since = [w \in Workers |-> 0]
  /\ map = [w \in Workers |-> NoMap]
  /\ price = [w \in Workers |-> NoPrice]
  /\ batch = [w \in Workers |-> {}]
  /\ history = {}
  /\ queue = {}
  /\ crashes = 0
  /\ settled = [b \in Bets |-> 0]
  /\ paidAt = [b \in Bets |-> NoPrice]
  /\ sent = [b \in Bets |-> 0]
  /\ credited = {}

Goto(w, label) == pc' = [pc EXCEPT ![w] = label]

\* A worker that ends forgets its local variables.
Stop(w) ==
  /\ pc' = [pc EXCEPT ![w] = "idle"]
  /\ since' = [since EXCEPT ![w] = 0]
  /\ map' = [map EXCEPT ![w] = NoMap]
  /\ price' = [price EXCEPT ![w] = NoPrice]
  /\ batch' = [batch EXCEPT ![w] = {}]

\* A cron tick that wins the job lock starts a task, whose first act is to read
\* the current period: none, create one; due, try to draw it; else, nothing.
Poll(w) ==
  /\ pc[w] = "idle"
  /\ ~jobLock
  /\ jobLock' = TRUE
  /\ \/ /\ hash = NoMap
        /\ Goto(w, "check")
        /\ since' = [since EXCEPT ![w] = clock]
        /\ UNCHANGED map
     \/ /\ hash # NoMap
        /\ Due(hash)
        /\ Goto(w, "tag")
        /\ since' = [since EXCEPT ![w] = clock]
        /\ map' = [map EXCEPT ![w] = hash]
     \/ /\ hash # NoMap
        /\ ~Due(hash)
        /\ UNCHANGED <<pc, since, map>>
  /\ UNCHANGED <<stateVars, tag, price, batch, history, queue, crashes,
                 settled, paidAt, sent, credited>>

\* The job lock lives 500 ms.
JobLockExpires ==
  /\ jobLock
  /\ jobLock' = FALSE
  /\ UNCHANGED <<stateVars, tag, pc, since, map, price, batch, history, queue,
                 crashes, settled, paidAt, sent, credited>>

\* setIfAbsent on the draw tag of the period read earlier; losers stop.
AcquireTag(w) ==
  /\ pc[w] = "tag"
  /\ \/ /\ ~TagLive(map[w].id)
        /\ tag' = [tag EXCEPT ![map[w].id] = clock + TagTTL]
        /\ Goto(w, "price")
        /\ UNCHANGED <<since, map, price, batch>>
     \/ /\ TagLive(map[w].id)
        /\ Stop(w)
        /\ UNCHANGED tag
  /\ UNCHANGED <<stateVars, jobLock, history, queue, crashes, settled, paidAt,
                 sent, credited>>

\* Use the cached draw result of the map in hand; without one compute it from
\* the tickers and cache it in the field of whatever the hash holds now.
FetchPrice(w) ==
  /\ pc[w] = "price"
  /\ \/ /\ map[w].price # NoPrice
        /\ price' = [price EXCEPT ![w] = map[w].price]
        /\ UNCHANGED hash
     \/ /\ map[w].price = NoPrice
        /\ \E k \in Picks :
             LET r == [for |-> map[w].id, pick |-> k]
             IN  /\ price' = [price EXCEPT ![w] = r]
                 /\ hash' = [hash EXCEPT !.price = r]
  /\ Goto(w, "select")
  /\ UNCHANGED <<clock, periods, lastPeriod, bet, jobLock, tag, since, map,
                 batch, history, queue, crashes, settled, paidAt, sent, credited>>

\* Read the bets of the period that are BET_DONE: a plain select, no row locks.
SelectBets(w) ==
  /\ pc[w] = "select"
  /\ batch' = [batch EXCEPT ![w] =
                 {b \in Bets : bet[b].status = "BET_DONE"
                               /\ bet[b].period = map[w].id}]
  /\ Goto(w, "commit")
  /\ UNCHANGED <<stateVars, jobLock, tag, since, map, price, history, queue,
                 crashes, settled, paidAt, sent, credited>>

\* The selected bets that win at a price.
Winners(S, r) == {b \in S : PickOf[b] = r.pick}

\* Write the outcome of the selected bets, whatever their status is by now, and
\* the draw value and order count of the period, and commit the transaction.
CommitDraw(w) ==
  LET won == Winners(batch[w], price[w])
  IN  /\ pc[w] = "commit"
      /\ bet' = [b \in Bets |->
                   IF b \in batch[w]
                   THEN [bet[b] EXCEPT !.status = IF b \in won THEN "PAY_ING"
                                                               ELSE "BOMB"]
                   ELSE bet[b]]
      /\ periods' = [periods EXCEPT ![map[w].id] =
                       [value |-> price[w], orders |-> batch[w]]]
      /\ settled' = [b \in Bets |-> IF b \in batch[w] THEN settled[b] + 1
                                                       ELSE settled[b]]
      /\ paidAt' = [b \in Bets |-> IF b \in batch[w] THEN price[w] ELSE paidAt[b]]
      /\ batch' = [batch EXCEPT ![w] = won]
      /\ Goto(w, "history")
      /\ UNCHANGED <<clock, hash, lastPeriod, jobLock, tag, since, map, price,
                     history, queue, crashes, sent, credited>>

\* Too few tickers, or any exception before the commit: the transaction rolls
\* back and the draw tag is deleted.
DrawFails(w) ==
  /\ Drawing(w)
  /\ tag' = [tag EXCEPT ![map[w].id] = 0]
  /\ Stop(w)
  /\ UNCHANGED <<stateVars, jobLock, history, queue, crashes, settled, paidAt,
                 sent, credited>>

\* Mutant: publish the result the map had when it was read.
PublishHeld(w) ==
  /\ pc[w] = "history"
  /\ history' = history \cup {[id |-> map[w].id, value |-> map[w].price]}
  /\ Goto(w, "current")
  /\ UNCHANGED <<stateVars, jobLock, tag, since, map, price, batch, queue,
                 crashes, settled, paidAt, sent, credited>>

\* Add the drawn period to the sorted set players read results from.
PublishHistory(w) ==
  /\ pc[w] = "history"
  /\ history' = history \cup {[id |-> map[w].id, value |-> price[w]]}
  /\ Goto(w, "current")
  /\ UNCHANGED <<stateVars, jobLock, tag, since, map, price, batch, queue,
                 crashes, settled, paidAt, sent, credited>>

\* putAll of the map read at the start, with the drawResultTime it had then.
UpdateCurrent(w) ==
  /\ pc[w] = "current"
  /\ hash' = map[w]
  /\ Goto(w, "check")
  /\ UNCHANGED <<clock, periods, lastPeriod, bet, jobLock, tag, since, map,
                 price, batch, history, queue, crashes, settled, paidAt, sent,
                 credited>>

\* After createCoinPeriod: submit the payouts if there are any, else end.
PayoutOrStop(w) == IF batch[w] = {} THEN Stop(w)
                   ELSE Goto(w, "payout") /\ UNCHANGED <<since, map, price, batch>>

\* The start time createCoinPeriod is called with.
NextStart(w) == IF map[w] = NoMap THEN clock ELSE Later(clock, DrawEnd(map[w]) + 1)

\* createCoinPeriod's double check: a hash whose draw window is not over at the
\* new start time is left alone.  The time is read together with the hash.
CheckCurrent(w) ==
  /\ pc[w] = "check"
  /\ \/ /\ hash # NoMap
        /\ NextStart(w) < DrawEnd(hash)
        /\ PayoutOrStop(w)
     \/ /\ hash = NoMap \/ NextStart(w) >= DrawEnd(hash)
        /\ map' = [map EXCEPT ![w] = [id |-> 0, start |-> NextStart(w),
                                      price |-> NoPrice]]
        /\ Goto(w, "insert")
        /\ UNCHANGED <<since, price, batch>>
  /\ UNCHANGED <<stateVars, jobLock, tag, history, queue, crashes, settled,
                 paidAt, sent, credited>>

\* Insert the new period's row; its auto-increment id goes into the new map.
InsertPeriod(w) ==
  /\ pc[w] = "insert"
  /\ lastPeriod < MaxPeriod
  /\ lastPeriod' = lastPeriod + 1
  /\ map' = [map EXCEPT ![w].id = lastPeriod + 1]
  /\ Goto(w, "put")
  /\ UNCHANGED <<clock, hash, periods, bet, jobLock, tag, since, price, batch,
                 history, queue, crashes, settled, paidAt, sent, credited>>

\* Mutant: the cached draw result survives in the hash.
PutAround(w) ==
  /\ pc[w] = "put"
  /\ hash' = [map[w] EXCEPT !.price = hash.price]
  /\ PayoutOrStop(w)
  /\ UNCHANGED <<clock, periods, lastPeriod, bet, jobLock, tag, history, queue,
                 crashes, settled, paidAt, sent, credited>>

\* Mutant: the new period never gets into the hash.
PutNothing(w) ==
  /\ pc[w] = "put"
  /\ PayoutOrStop(w)
  /\ UNCHANGED <<stateVars, jobLock, tag, history, queue,
                 crashes, settled, paidAt, sent, credited>>

\* Make the new map the current period.
PutCurrent(w) ==
  /\ pc[w] = "put"
  /\ hash' = map[w]
  /\ PayoutOrStop(w)
  /\ UNCHANGED <<clock, periods, lastPeriod, bet, jobLock, tag, history, queue,
                 crashes, settled, paidAt, sent, credited>>

\* The ways ListUtils.partition may cut a set of winners into groups: all are
\* full but one.
Groupings(S) == {P \in SUBSET SUBSET S :
                   /\ UNION P = S
                   /\ {} \notin P
                   /\ \A g, h \in P : g = h \/ g \cap h = {}
                   /\ \A g \in P : Cardinality(g) <= GroupSize
                   /\ \A g, h \in P : g = h \/ Cardinality(g) = GroupSize
                                            \/ Cardinality(h) = GroupSize}

\* One asynchronous payout task per group of winners.
SubmitPayouts(w) ==
  /\ pc[w] = "payout"
  /\ \E P \in Groupings(batch[w]) : queue' = queue \cup P
  /\ sent' = [b \in Bets |-> IF b \in batch[w] THEN sent[b] + 1 ELSE sent[b]]
  /\ Stop(w)
  /\ UNCHANGED <<stateVars, jobLock, tag, history, crashes, settled, paidAt,
                 credited>>

\* A payout task: the merchant is called and the statuses of the bets it reported
\* on are written, whatever they are by now.  A call that is declined or times
\* out fails the bet, in the second case perhaps after the money moved; a bet the
\* answer leaves out, or an exception on the way, leaves it as it was.
PayGroup(g) ==
  /\ g \in queue
  /\ queue' = queue \ {g}
  /\ \E outcome \in [g -> {"WT_DONE", "WT_FAILED", "silent"}],
        late \in SUBSET g :
       /\ bet' = [b \in Bets |->
                    IF b \in g /\ outcome[b] # "silent"
                    THEN [bet[b] EXCEPT !.status = outcome[b]] ELSE bet[b]]
       /\ credited' = credited \cup late \cup {b \in g : outcome[b] = "WT_DONE"}
  /\ UNCHANGED <<clock, hash, periods, lastPeriod, jobLock, tag, pc, since, map,
                 price, batch, history, crashes, settled, paidAt, sent>>

\* The task dies where it stands: an exception outside the try block, or the
\* process goes down.  What it wrote stays, its tag stays until it expires.
Crash(w) ==
  /\ pc[w] # "idle"
  /\ crashes < MaxCrash
  /\ crashes' = crashes + 1
  /\ Stop(w)
  /\ UNCHANGED <<stateVars, jobLock, tag, history, queue, settled, paidAt, sent,
                 credited>>

\* A restart takes the payout tasks that had not run yet with it.
DropGroup(g) ==
  /\ g \in queue
  /\ crashes < MaxCrash
  /\ crashes' = crashes + 1
  /\ queue' = queue \ {g}
  /\ UNCHANGED <<stateVars, jobLock, tag, pc, since, map, price, batch, history,
                 settled, paidAt, sent, credited>>

\* The steps a running worker takes by itself.
WorkerStep(w) ==
  \/ AcquireTag(w) \/ FetchPrice(w) \/ SelectBets(w) \/ CommitDraw(w)
  \/ PublishHistory(w) \/ UpdateCurrent(w)
  \/ CheckCurrent(w) \/ InsertPeriod(w) \/ PutCurrent(w) \/ SubmitPayouts(w)

DrawNext ==
  \/ JobLockExpires
  \/ \E w \in Workers : Poll(w) \/ WorkerStep(w) \/ DrawFails(w) \/ Crash(w)
  \/ \E g \in SUBSET Bets : PayGroup(g) \/ DropGroup(g)

\* No task outlives MaxJob seconds.
JobsInTime == \A w \in Workers : pc[w] # "idle" => clock < since[w] + MaxJob
=============================================================================
