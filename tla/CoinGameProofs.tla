--------------------------- MODULE CoinGameProofs ---------------------------
(***************************************************************************)
(* Proofs about CoinGame, for every number of bets, cancels, players and   *)
(* draw tasks and every duration, from a running period and from an empty  *)
(* deployment alike: types, mutual exclusion of a player's requests, and   *)
(* that a bet is settled and paid out at most once, whichever draw tasks   *)
(* crash.                                                                  *)
(***************************************************************************)
EXTENDS CoinGame, TLAPS

AnyInit == Init \/ Init0

(***************************************************************************)
(* Types.  Beyond TypeOK: what a task and a request hold at each label.    *)
(***************************************************************************)

\* From the tag on, until a new period is made, a task holds a drawn period.
HasPeriod(w) == pc[w] \in {"tag", "price", "select", "commit", "history",
                           "current"}

HasPrice(w) == pc[w] \in {"select", "commit", "history"}

Running(r) == rpc[r] \notin {"idle", "done"}

Cancelling(r) == rpc[r] \in {"load", "refund", "refunded", "refused"}

HashIsPeriod == hash = NoMap \/ hash.id \in Period

WorkerHolds ==
  \A w \in Workers :
    /\ HasPeriod(w) => map[w].id \in Period /\ hash.id \in Period
    /\ HasPrice(w) => price[w] \in Price
    /\ pc[w] = "put" => map[w].id \in Period

RequestHolds ==
  \A r \in Requests :
    /\ Running(r) => asked[r] \in Period
    /\ Cancelling(r) => r \in Cancels
    /\ rpc[r] = "refunded" => TargetOf[r] \in refunded

TypeInv == TypeOK /\ HashIsPeriod /\ WorkerHolds /\ RequestHolds

USE CoinStateAssumption, CoinBetAssumption, CoinDrawAssumption DEF CoinStateAssumption, CoinBetAssumption, CoinDrawAssumption

\* A row of game_bet with another status is a row.
LEMMA StatusType ==
  ASSUME NEW row \in BetRow, NEW s \in BetStatus
  PROVE  [row EXCEPT !.status = s] \in BetRow
  BY DEF BetRow

\* A period map with another id is a period map.
LEMMA NumberType ==
  ASSUME NEW m \in PeriodMap, NEW p \in Period
  PROVE  [m EXCEPT !.id = p] \in PeriodMap /\ [m EXCEPT !.id = p].id = p
  BY DEF PeriodMap, Period

\* Types hold at the start.
LEMMA TypeInit == AnyInit => TypeInv
<1> SUFFICES ASSUME AnyInit PROVE TypeInv
  OBVIOUS
<1> USE DEF AnyInit, Init, Init0, StateInit, ColdInit, BetInit, DrawInit
<1>1. NoMap \in PeriodMap /\ NoRow \in PeriodRow /\ NoBet \in BetRow
  BY DEF NoMap, PeriodMap, NoPrice, NoRow, PeriodRow, NoBet, BetRow, BetStatus
<1>2. StateTypeOK
  BY <1>1 DEF StateTypeOK, PeriodMap, NoPrice
<1>3. BetTypeOK
  BY DEF BetTypeOK, RPC, Requests
<1>4. DrawTypeOK
  <2>0. jobLock \in BOOLEAN
    OBVIOUS
  <2>1. /\ tag \in [Period -> Nat] /\ pc \in [Workers -> PC]
        /\ since \in [Workers -> 0 .. MaxTime]
    BY DEF PC
  <2>2. /\ map \in [Workers -> PeriodMap]
        /\ price \in [Workers -> Price \cup {NoPrice}]
        /\ batch \in [Workers -> SUBSET Bets]
    BY <1>1
  <2>3. history \subseteq HistoryEntry /\ queue \subseteq SUBSET Bets
    OBVIOUS
  <2>4. /\ crashes \in 0 .. MaxCrash
        /\ settled \in [Bets -> Nat] /\ paidAt \in [Bets -> Price \cup {NoPrice}]
        /\ sent \in [Bets -> Nat] /\ credited \subseteq Bets
    OBVIOUS
  <2> QED
    BY <2>0, <2>1, <2>2, <2>3, <2>4 DEF DrawTypeOK
<1>5. HashIsPeriod /\ WorkerHolds /\ RequestHolds
  BY DEF HashIsPeriod, WorkerHolds, RequestHolds, HasPeriod, HasPrice, Running,
         Cancelling, Period
<1> QED
  BY <1>2, <1>3, <1>4, <1>5 DEF TypeInv, TypeOK

\* What a request step must establish: it touches nothing else.
RequestTypes == bet \in [Bets -> BetRow] /\ BetTypeOK /\ RequestHolds

\* A request that arrives.
LEMMA SubmitType ==
  ASSUME TypeInv, NEW r \in Requests, Submit(r)
  PROVE  RequestTypes'
<1> USE DEF TypeInv, TypeOK, BetTypeOK
<1>1. UserOf[r] \in Users /\ clock + LockLease \in Nat /\ clock \in 0 .. MaxTime
  BY DEF StateTypeOK
<1>2. bet' \in [Bets -> BetRow]
  BY DEF Submit, stateVars, StateTypeOK
<1>3. BetTypeOK'
  <2>1. rpc' \in [Requests -> RPC] /\ asked' \in [Requests -> 0 .. MaxPeriod]
    BY DEF Submit, Move, RPC, Period
  <2>2. got' \in [Requests -> 0 .. MaxTime]
    BY <1>1 DEF Submit, Keep
  <2>3. lock' \in [Users -> [holder : Requests \cup {NoReq}, until : Nat]]
    BY <1>1 DEF Submit, Keep
  <2> QED
    BY <2>1, <2>2, <2>3 DEF Submit
<1>4. RequestHolds'
  BY DEF Submit, RequestHolds, Running, Cancelling, Move, RPC
<1> QED
  BY <1>2, <1>3, <1>4 DEF RequestTypes

\* A step of bet.
LEMMA BetStepType ==
  ASSUME TypeInv, NEW b \in Bets, BetStep(b)
  PROVE  RequestTypes'
<1> USE DEF TypeInv, TypeOK, BetTypeOK
<1>1. b \in Requests /\ UserOf[b] \in Users
  BY DEF Requests
<1>2. lock' \in [Users -> [holder : Requests \cup {NoReq}, until : Nat]]
  BY <1>1 DEF BetStep, BetWindow, BetOnce, BetPay, BetCommit, Keep, Release
<1>3. got' \in [Requests -> 0 .. MaxTime]
  BY <1>1 DEF BetStep, BetWindow, BetOnce, BetPay, BetCommit, Keep, Release, StateTypeOK
<1>4. rpc' \in [Requests -> RPC] /\ asked' \in [Requests -> 0 .. MaxPeriod]
  <2>1. \E label \in RPC : Move(b, label)
    BY DEF BetStep, BetWindow, BetOnce, BetPay, BetCommit, RPC
  <2> QED
    BY <2>1, <1>1 DEF Move
<1>5. bet' \in [Bets -> BetRow]
  BY <1>1 DEF BetStep, BetWindow, BetOnce, BetPay, BetCommit, stateVars, StateTypeOK,
              BetRow, BetStatus
<1>6. onceKey' \subseteq Users \X Period
  BY <1>1 DEF BetStep, BetWindow, BetOnce, BetPay, BetCommit, RequestHolds, Running
<1>7. UNCHANGED <<cleared, refunded, lost>>
  BY DEF BetStep, BetWindow, BetOnce, BetPay, BetCommit
<1>8. RequestHolds'
  BY <1>1, <1>7 DEF BetStep, BetWindow, BetOnce, BetPay, BetCommit, RequestHolds, Running,
              Cancelling, Move, RPC
<1> QED
  BY <1>2, <1>3, <1>4, <1>5, <1>6, <1>7, <1>8 DEF RequestTypes

\* A step of cancel.
LEMMA CancelStepType ==
  ASSUME TypeInv, NEW c \in Cancels, CancelStep(c)
  PROVE  RequestTypes'
<1> USE DEF TypeInv, TypeOK, BetTypeOK
<1>1. c \in Requests /\ UserOf[c] \in Users /\ TargetOf[c] \in Bets
  BY DEF Requests
<1>2. lock' \in [Users -> [holder : Requests \cup {NoReq}, until : Nat]]
  BY <1>1 DEF CancelStep, CancelWindow, CancelLoad, CancelRefund, CancelCommit, Keep, Release
<1>3. got' \in [Requests -> 0 .. MaxTime]
  BY <1>1 DEF CancelStep, CancelWindow, CancelLoad, CancelRefund, CancelCommit, Keep,
              Release, StateTypeOK
<1>4. rpc' \in [Requests -> RPC] /\ asked' \in [Requests -> 0 .. MaxPeriod]
  <2>1. \E label \in RPC : Move(c, label)
    BY DEF CancelStep, CancelWindow, CancelLoad, CancelRefund, CancelCommit, RPC
  <2> QED
    BY <2>1, <1>1 DEF Move
<1>5. bet' \in [Bets -> BetRow]
  BY <1>1 DEF CancelStep, CancelWindow, CancelLoad, CancelRefund, CancelCommit, stateVars,
              StateTypeOK, BetRow, BetStatus
<1>6. UNCHANGED <<onceKey, cleared>>
  BY DEF CancelStep, CancelWindow, CancelLoad, CancelRefund, CancelCommit
<1>7. refunded' \subseteq Bets /\ lost' \subseteq refunded'
  BY <1>1 DEF CancelStep, CancelWindow, CancelLoad, CancelRefund, CancelCommit, RequestHolds
<1>8. RequestHolds'
  BY <1>1 DEF CancelStep, CancelWindow, CancelLoad, CancelRefund, CancelCommit, RequestHolds,
              Running, Cancelling, Move, RPC
<1> QED
  BY <1>2, <1>3, <1>4, <1>5, <1>6, <1>7, <1>8 DEF RequestTypes

\* The controllers' part, and a process that goes down.
LEMMA EndType ==
  ASSUME TypeInv, NEW r \in Requests, After(r) \/ Cleanup(r) \/ Dies(r)
  PROVE  RequestTypes'
<1> USE DEF TypeInv, TypeOK, BetTypeOK
<1>1. UserOf[r] \in Users
  OBVIOUS
<1>2. UNCHANGED <<lock, refunded, bet>>
  BY DEF After, Cleanup, Dies, stateVars
<1>3. got' \in [Requests -> 0 .. MaxTime]
  BY DEF After, Cleanup, Dies
<1>4. rpc' \in [Requests -> RPC] /\ asked' \in [Requests -> 0 .. MaxPeriod]
  <2>1. \E label \in RPC : Move(r, label)
    BY DEF After, Cleanup, Dies, RPC
  <2> QED
    BY <2>1 DEF Move
<1>5. onceKey' \subseteq Users \X Period /\ cleared' \subseteq Users \X Period
  BY <1>1 DEF After, Cleanup, Dies, RequestHolds, Running
<1>6. lost' \subseteq refunded
  BY DEF After, Cleanup, Dies, RequestHolds, Running
<1>7. RequestHolds'
  BY <1>2 DEF After, Cleanup, Dies, RequestHolds, Running, Cancelling, Move, RPC
<1> QED
  BY <1>2, <1>3, <1>4, <1>5, <1>6, <1>7 DEF RequestTypes, StateTypeOK

\* Requests keep all types.
LEMMA TypeOfRequests ==
  ASSUME TypeInv, BetNext /\ UNCHANGED drawVars
  PROVE  TypeInv'
<1>1. RequestTypes'
  BY SubmitType, BetStepType, CancelStepType, EndType DEF BetNext
<1>2. UNCHANGED <<clock, hash, periods, lastPeriod>>
  BY DEF BetNext, Submit, After, Cleanup, Dies, BetStep, BetWindow, BetOnce, BetPay, BetCommit,
         CancelStep, CancelWindow, CancelLoad, CancelRefund, CancelCommit, stateVars
<1>3. StateTypeOK' /\ BetTypeOK' /\ RequestHolds'
  BY <1>1, <1>2 DEF TypeInv, TypeOK, StateTypeOK, RequestTypes
<1>4. DrawTypeOK'
  BY DEF TypeInv, TypeOK, DrawTypeOK, drawVars
<1>5. HashIsPeriod' /\ WorkerHolds'
  BY <1>2 DEF TypeInv, HashIsPeriod, WorkerHolds, HasPeriod, HasPrice, drawVars
<1> QED
  BY <1>3, <1>4, <1>5 DEF TypeInv, TypeOK

\* What a draw step must establish.
DrawTypes == StateTypeOK /\ DrawTypeOK /\ HashIsPeriod /\ WorkerHolds

\* A task that ends forgets what it holds and disturbs nobody.
LEMMA StopType ==
  ASSUME TypeInv, NEW w \in Workers, Stop(w)
  PROVE  /\ pc' \in [Workers -> PC] /\ since' \in [Workers -> 0 .. MaxTime]
         /\ map' \in [Workers -> PeriodMap]
         /\ price' \in [Workers -> Price \cup {NoPrice}]
         /\ batch' \in [Workers -> SUBSET Bets]
         /\ pc'[w] = "idle"
         /\ \A v \in Workers \ {w} : /\ pc'[v] = pc[v] /\ map'[v] = map[v]
                                     /\ price'[v] = price[v] /\ batch'[v] = batch[v]
<1> USE DEF TypeInv, TypeOK, DrawTypeOK, Stop
<1>1. NoMap \in PeriodMap
  BY DEF NoMap, PeriodMap, NoPrice
<1> QED
  BY <1>1 DEF PC

\* A cron tick.
LEMMA PollType ==
  ASSUME TypeInv, NEW w \in Workers, Poll(w)
  PROVE  DrawTypes'
<1> USE DEF TypeInv, TypeOK, StateTypeOK, DrawTypeOK, Poll
<1>1. StateTypeOK' /\ HashIsPeriod'
  BY DEF stateVars, HashIsPeriod
<1>2. DrawTypeOK'
  <2>1. jobLock' \in BOOLEAN
    OBVIOUS
  <2>2. pc' \in [Workers -> PC]
    BY DEF Goto, PC
  <2>3. since' \in [Workers -> 0 .. MaxTime] /\ map' \in [Workers -> PeriodMap]
    OBVIOUS
  <2> QED
    BY <2>1, <2>2, <2>3
<1>3. WorkerHolds'
  BY DEF WorkerHolds, HasPeriod, HasPrice, Goto, PC, stateVars, HashIsPeriod
<1> QED
  BY <1>1, <1>2, <1>3 DEF DrawTypes

\* The draw tag is taken, or the task ends.
LEMMA AcquireTagType ==
  ASSUME TypeInv, NEW w \in Workers, AcquireTag(w)
  PROVE  DrawTypes'
<1> USE DEF TypeInv, TypeOK, StateTypeOK, DrawTypeOK, AcquireTag
<1>1. StateTypeOK' /\ HashIsPeriod'
  BY DEF stateVars, HashIsPeriod
<1>2. map[w].id \in Period
  BY DEF WorkerHolds, HasPeriod
<1>3. CASE TagLive(map[w].id)
  <2>1. Stop(w) /\ UNCHANGED tag
    BY <1>3
  <2> QED
    BY <2>1, <1>1, StopType DEF DrawTypes, WorkerHolds, HasPeriod, HasPrice, stateVars
<1>4. CASE ~TagLive(map[w].id)
  <2>1. tag' \in [Period -> Nat] /\ pc' \in [Workers -> PC]
    BY <1>2, <1>4 DEF Goto, PC
  <2>2. DrawTypeOK'
    BY <2>1, <1>4
  <2>3. WorkerHolds'
    BY <1>4 DEF WorkerHolds, HasPeriod, HasPrice, Goto, stateVars
  <2> QED
    BY <1>1, <2>2, <2>3 DEF DrawTypes
<1> QED
  BY <1>3, <1>4

\* The draw result is found, and cached in the hash.
LEMMA FetchPriceType ==
  ASSUME TypeInv, NEW w \in Workers, FetchPrice(w)
  PROVE  DrawTypes'
<1> USE DEF TypeInv, TypeOK, StateTypeOK, DrawTypeOK, FetchPrice
<1>1. map[w].id \in Period /\ hash.id \in Period
  BY DEF WorkerHolds, HasPeriod
<1>2. /\ price' \in [Workers -> Price \cup {NoPrice}]
      /\ price'[w] \in Price
      /\ \A v \in Workers \ {w} : price'[v] = price[v]
  <2>1. map[w].price \in Price \cup {NoPrice}
    BY DEF PeriodMap
  <2>2. \E r \in Price : price' = [price EXCEPT ![w] = r]
    BY <2>1, <1>1 DEF Price
  <2> QED
    BY <2>2
<1>3. hash' \in PeriodMap /\ hash'.id = hash.id
  BY <1>1 DEF PeriodMap, Price
<1>4. StateTypeOK' /\ HashIsPeriod'
  BY <1>1, <1>3 DEF HashIsPeriod
<1>5. DrawTypeOK'
  BY <1>2 DEF Goto, PC
<1>6. WorkerHolds'
  BY <1>2, <1>3 DEF WorkerHolds, HasPeriod, HasPrice, Goto
<1> QED
  BY <1>4, <1>5, <1>6 DEF DrawTypes

\* The bets are read.
LEMMA SelectBetsType ==
  ASSUME TypeInv, NEW w \in Workers, SelectBets(w)
  PROVE  DrawTypes'
<1> USE DEF TypeInv, TypeOK, StateTypeOK, DrawTypeOK, SelectBets, stateVars
<1>1. DrawTypeOK'
  BY DEF Goto, PC
<1>2. WorkerHolds'
  BY DEF WorkerHolds, HasPeriod, HasPrice, Goto
<1> QED
  BY <1>1, <1>2 DEF DrawTypes, HashIsPeriod

\* The draw is committed.
LEMMA CommitDrawType ==
  ASSUME TypeInv, NEW w \in Workers, CommitDraw(w)
  PROVE  DrawTypes'
<1> USE DEF TypeInv, TypeOK, StateTypeOK, DrawTypeOK, CommitDraw
<1>1. map[w].id \in Period /\ batch[w] \subseteq Bets
  BY DEF WorkerHolds, HasPeriod
<1>2. bet' \in [Bets -> BetRow]
  <2>1. \A b \in Bets : bet'[b] \in BetRow
    BY StatusType DEF BetStatus
  <2> QED
    BY <2>1
<1>3. periods' \in [Period -> PeriodRow]
  BY <1>1 DEF PeriodRow
<1>4. StateTypeOK'
  BY <1>2, <1>3
<1>5. /\ settled' \in [Bets -> Nat] /\ paidAt' \in [Bets -> Price \cup {NoPrice}]
      /\ batch' \in [Workers -> SUBSET Bets]
  BY <1>1 DEF Winners
<1>6. DrawTypeOK'
  BY <1>5 DEF Goto, PC
<1>7. WorkerHolds'
  BY DEF WorkerHolds, HasPeriod, HasPrice, Goto
<1> QED
  BY <1>4, <1>6, <1>7 DEF DrawTypes, HashIsPeriod

\* The draw is rolled back.
LEMMA DrawFailsType ==
  ASSUME TypeInv, NEW w \in Workers, DrawFails(w)
  PROVE  DrawTypes'
<1> USE DEF TypeInv, TypeOK, StateTypeOK, DrawTypeOK, DrawFails, stateVars
<1>1. tag' \in [Period -> Nat]
  BY DEF WorkerHolds, HasPeriod, Drawing
<1>2. DrawTypeOK'
  BY <1>1, StopType
<1>3. WorkerHolds'
  BY StopType DEF WorkerHolds, HasPeriod, HasPrice
<1> QED
  BY <1>2, <1>3 DEF DrawTypes, HashIsPeriod

\* The drawn period is published.
LEMMA PublishHistoryType ==
  ASSUME TypeInv, NEW w \in Workers, PublishHistory(w)
  PROVE  DrawTypes'
<1> USE DEF TypeInv, TypeOK, StateTypeOK, DrawTypeOK, PublishHistory, stateVars
<1>1. history' \subseteq HistoryEntry
  BY DEF WorkerHolds, HasPeriod, HasPrice, HistoryEntry
<1>2. DrawTypeOK'
  BY <1>1 DEF Goto, PC
<1>3. WorkerHolds'
  BY DEF WorkerHolds, HasPeriod, HasPrice, Goto
<1> QED
  BY <1>2, <1>3 DEF DrawTypes, HashIsPeriod

\* The map read earlier is written back.
LEMMA UpdateCurrentType ==
  ASSUME TypeInv, NEW w \in Workers, UpdateCurrent(w)
  PROVE  DrawTypes'
<1> USE DEF TypeInv, TypeOK, StateTypeOK, DrawTypeOK, UpdateCurrent
<1>1. hash' \in PeriodMap /\ hash'.id \in Period
  BY DEF WorkerHolds, HasPeriod
<1>2. DrawTypeOK'
  BY DEF Goto, PC
<1>3. WorkerHolds'
  BY <1>1 DEF WorkerHolds, HasPeriod, HasPrice, Goto
<1> QED
  BY <1>1, <1>2, <1>3 DEF DrawTypes, HashIsPeriod

\* PayoutOrStop ends the task or leaves it with nothing but its label changed.
LEMMA PayoutOrStopType ==
  ASSUME TypeInv, NEW w \in Workers, PayoutOrStop(w)
  PROVE  /\ pc' \in [Workers -> PC] /\ since' \in [Workers -> 0 .. MaxTime]
         /\ map' \in [Workers -> PeriodMap]
         /\ price' \in [Workers -> Price \cup {NoPrice}]
         /\ batch' \in [Workers -> SUBSET Bets]
         /\ pc'[w] \in {"idle", "payout"}
         /\ \A v \in Workers \ {w} : /\ pc'[v] = pc[v] /\ map'[v] = map[v]
                                     /\ price'[v] = price[v] /\ batch'[v] = batch[v]
<1>1. CASE batch[w] = {}
  BY <1>1, StopType DEF PayoutOrStop
<1>2. CASE batch[w] # {}
  BY <1>2 DEF PayoutOrStop, Goto, PC, TypeInv, TypeOK, DrawTypeOK
<1> QED
  BY <1>1, <1>2

\* A period starts at a natural number of seconds.
LEMMA NextStartType ==
  ASSUME TypeInv, NEW w \in Workers
  PROVE  NextStart(w) \in Nat
<1>1. map[w].start \in Nat /\ clock \in Nat
  BY DEF TypeInv, TypeOK, StateTypeOK, DrawTypeOK, PeriodMap
<1>2. DrawEnd(map[w]) + 1 \in Nat
  BY <1>1 DEF DrawEnd, BetEnd
<1> QED
  BY <1>1, <1>2 DEF NextStart, Later

\* The double check of createCoinPeriod.
LEMMA CheckCurrentType ==
  ASSUME TypeInv, NEW w \in Workers, CheckCurrent(w)
  PROVE  DrawTypes'
<1> USE DEF TypeInv, TypeOK, StateTypeOK, DrawTypeOK, stateVars
<1>1. CASE PayoutOrStop(w)
  <2>1. DrawTypeOK'
    BY <1>1, PayoutOrStopType DEF CheckCurrent
  <2>2. WorkerHolds'
    BY <1>1, PayoutOrStopType DEF CheckCurrent, WorkerHolds, HasPeriod, HasPrice
  <2> QED
    BY <2>1, <2>2 DEF CheckCurrent, DrawTypes, HashIsPeriod
<1>2. CASE ~PayoutOrStop(w)
  <2>1. [id |-> 0, start |-> NextStart(w), price |-> NoPrice] \in PeriodMap
    BY NextStartType DEF PeriodMap
  <2>2. DrawTypeOK'
    BY <1>2, <2>1 DEF CheckCurrent, Goto, PC
  <2>3. WorkerHolds'
    BY <1>2 DEF CheckCurrent, WorkerHolds, HasPeriod, HasPrice, Goto
  <2> QED
    BY <2>2, <2>3 DEF CheckCurrent, DrawTypes, HashIsPeriod
<1> QED
  BY <1>1, <1>2

\* A new period gets the next id.
LEMMA InsertPeriodType ==
  ASSUME TypeInv, NEW w \in Workers, InsertPeriod(w)
  PROVE  DrawTypes'
<1> USE DEF TypeInv, TypeOK, StateTypeOK, DrawTypeOK, InsertPeriod
<1>1. lastPeriod + 1 \in Period
  BY DEF Period
<1>2. /\ map' \in [Workers -> PeriodMap] /\ map'[w].id \in Period
      /\ \A v \in Workers \ {w} : map'[v] = map[v]
  <2>1. map[w] \in PeriodMap
    OBVIOUS
  <2>2. /\ [map[w] EXCEPT !.id = lastPeriod + 1] \in PeriodMap
        /\ [map[w] EXCEPT !.id = lastPeriod + 1].id = lastPeriod + 1
    BY <2>1, <1>1, NumberType
  <2>3. map' = [map EXCEPT ![w] = [map[w] EXCEPT !.id = lastPeriod + 1]]
    OBVIOUS
  <2> QED
    BY <2>2, <2>3, <1>1
<1>3. StateTypeOK' /\ HashIsPeriod'
  BY <1>1 DEF Period, HashIsPeriod
<1>4. DrawTypeOK'
  BY <1>2 DEF Goto, PC
<1>6. WorkerHolds'
  BY <1>2 DEF WorkerHolds, HasPeriod, HasPrice, Goto
<1> QED
  BY <1>3, <1>4, <1>6 DEF DrawTypes

\* The new period becomes the current one.
LEMMA PutCurrentType ==
  ASSUME TypeInv, NEW w \in Workers, PutCurrent(w)
  PROVE  DrawTypes'
<1> USE DEF TypeInv, TypeOK, StateTypeOK, DrawTypeOK, PutCurrent
<1>1. hash' \in PeriodMap /\ hash'.id \in Period
  BY DEF WorkerHolds
<1>2. DrawTypeOK'
  BY PayoutOrStopType
<1>3. WorkerHolds'
  BY <1>1, PayoutOrStopType DEF WorkerHolds, HasPeriod, HasPrice
<1> QED
  BY <1>1, <1>2, <1>3 DEF DrawTypes, HashIsPeriod

\* The winners are handed over to payout tasks.
LEMMA SubmitPayoutsType ==
  ASSUME TypeInv, NEW w \in Workers, SubmitPayouts(w)
  PROVE  DrawTypes'
<1> USE DEF TypeInv, TypeOK, StateTypeOK, DrawTypeOK, SubmitPayouts, stateVars
<1>1. queue' \subseteq SUBSET Bets
  BY DEF Groupings
<1>2. sent' \in [Bets -> Nat]
  OBVIOUS
<1>3. DrawTypeOK'
  BY <1>1, <1>2, StopType
<1>4. WorkerHolds'
  BY StopType DEF WorkerHolds, HasPeriod, HasPrice
<1> QED
  BY <1>3, <1>4 DEF DrawTypes, HashIsPeriod

\* A task dies.
LEMMA CrashType ==
  ASSUME TypeInv, NEW w \in Workers, Crash(w)
  PROVE  DrawTypes'
<1> USE DEF TypeInv, TypeOK, StateTypeOK, DrawTypeOK, Crash, stateVars
<1>1. DrawTypeOK'
  BY StopType
<1>2. WorkerHolds'
  BY StopType DEF WorkerHolds, HasPeriod, HasPrice
<1> QED
  BY <1>1, <1>2 DEF DrawTypes, HashIsPeriod

\* The steps that leave every task where it is.
LEMMA QueueType ==
  ASSUME TypeInv,
         \/ JobLockExpires
         \/ \E g \in SUBSET Bets : PayGroup(g) \/ DropGroup(g)
  PROVE  DrawTypes'
<1> USE DEF TypeInv, TypeOK, StateTypeOK, DrawTypeOK, DrawTypes
<1>1. CASE JobLockExpires
  BY <1>1 DEF JobLockExpires, stateVars, HashIsPeriod, WorkerHolds, HasPeriod, HasPrice
<1>2. ASSUME NEW g \in SUBSET Bets, PayGroup(g) PROVE DrawTypes'
  <2>1. bet' \in [Bets -> BetRow]
    <3>1. PICK outcome \in [g -> {"WT_DONE", "WT_FAILED", "silent"}] :
            bet' = [b \in Bets |-> IF b \in g /\ outcome[b] # "silent"
                                   THEN [bet[b] EXCEPT !.status = outcome[b]]
                                   ELSE bet[b]]
      BY <1>2 DEF PayGroup
    <3>2. ASSUME NEW b \in Bets PROVE bet'[b] \in BetRow
      <4>1. CASE b \in g /\ outcome[b] # "silent"
        <5>1. bet'[b] = [bet[b] EXCEPT !.status = outcome[b]]
          BY <3>1, <4>1
        <5>2. outcome[b] \in BetStatus /\ bet[b] \in BetRow
          BY <4>1 DEF BetStatus
        <5> QED
          BY <5>1, <5>2, StatusType
      <4>2. CASE ~(b \in g /\ outcome[b] # "silent")
        BY <3>1, <4>2
      <4> QED
        BY <4>1, <4>2
    <3> QED
      BY <3>1, <3>2
  <2>2. queue' \subseteq SUBSET Bets /\ credited' \subseteq Bets
    BY <1>2 DEF PayGroup
  <2> QED
    BY <1>2, <2>1, <2>2 DEF PayGroup, HashIsPeriod, WorkerHolds, HasPeriod, HasPrice
<1>3. ASSUME NEW g \in SUBSET Bets, DropGroup(g) PROVE DrawTypes'
  BY <1>3 DEF DropGroup, stateVars, HashIsPeriod, WorkerHolds, HasPeriod, HasPrice
<1> QED
  BY <1>1, <1>2, <1>3

\* The draw scheduler keeps all types.
LEMMA TypeOfDraw ==
  ASSUME TypeInv, DrawNext /\ UNCHANGED betVars
  PROVE  TypeInv'
<1>1. DrawTypes'
  BY PollType, AcquireTagType, FetchPriceType, SelectBetsType, CommitDrawType,
     DrawFailsType, PublishHistoryType, UpdateCurrentType, CheckCurrentType,
     InsertPeriodType, PutCurrentType, SubmitPayoutsType, CrashType, QueueType
     DEF DrawNext, WorkerStep
<1>2. BetTypeOK' /\ RequestHolds'
  BY DEF TypeInv, TypeOK, BetTypeOK, RequestHolds, Running, Cancelling, betVars
<1> QED
  BY <1>1, <1>2 DEF TypeInv, TypeOK, DrawTypes

\* So does time.
LEMMA TypeOfTime ==
  ASSUME TypeInv, Tick \/ TagsLapse \/ UNCHANGED vars
  PROVE  TypeInv'
<1> USE DEF TypeInv, TypeOK, HashIsPeriod, WorkerHolds, HasPeriod, HasPrice, RequestHolds,
            Running, Cancelling, BetTypeOK, DrawTypeOK, StateTypeOK, betVars, drawVars,
            stateVars
<1>1. CASE Tick
  BY <1>1 DEF Tick
<1>2. CASE TagsLapse
  BY <1>2 DEF TagsLapse
<1>3. CASE UNCHANGED vars
  BY <1>3 DEF vars
<1> QED
  BY <1>1, <1>2, <1>3

\* TypeInv is inductive.
LEMMA TypeStep == TypeInv /\ [Next]_vars => TypeInv'
  BY TypeOfRequests, TypeOfDraw, TypeOfTime DEF Next

\* Every variable keeps its type, from a running period and from an empty
\* deployment.
THEOREM TypeCorrect == Spec \/ ColdSpec => []TypeOK
<1>1. TypeInv => TypeOK
  BY DEF TypeInv
<1>2. Spec \/ ColdSpec => AnyInit /\ [][Next]_vars
  BY DEF Spec, ColdSpec, AnyInit
<1> QED
  BY TypeInit, TypeStep, <1>1, <1>2, PTL

(***************************************************************************)
(* Mutual exclusion.  A request inside a locked method holds the lock of   *)
(* its player, and its lease is not over: it has run for MaxReq seconds at *)
(* most, which is less than LockLease.                                     *)
(***************************************************************************)

LockInv ==
  \A r \in Requests : Locked(r) =>
    /\ lock[UserOf[r]].holder = r
    /\ lock[UserOf[r]].until = got[r] + LockLease
    /\ clock <= got[r] + MaxReq

\* Nobody is inside a locked method at the start.
LEMMA LockInit == AnyInit => LockInv
BY DEF AnyInit, Init, Init0, BetInit, LockInv, Locked

\* A free lock means that no request of the player is inside.
LEMMA FreeLock ==
  ASSUME TypeInv, LockInv, NEW u \in Users, LockFree(u),
         NEW r \in Requests, UserOf[r] = u
  PROVE  ~Locked(r)
<1> SUFFICES ASSUME Locked(r) PROVE FALSE
  OBVIOUS
<1>1. /\ lock[u].holder = r /\ lock[u].until = got[r] + LockLease
      /\ clock <= got[r] + MaxReq
  BY DEF LockInv
<1>2. r # NoReq
  OBVIOUS
<1>3. got[r] \in Nat /\ clock \in Nat
  BY DEF TypeInv, TypeOK, BetTypeOK, StateTypeOK
<1> QED
  BY <1>1, <1>2, <1>3, LockOutlivesRequest DEF LockFree

\* A request that gets the lock finds nobody of its player inside.
LEMMA LockSubmit ==
  ASSUME TypeInv, LockInv, NEW s \in Requests, Submit(s)
  PROVE  LockInv'
<1> USE DEF TypeInv, TypeOK, BetTypeOK, StateTypeOK
<1>1. CASE ~LockFree(UserOf[s])
  BY <1>1 DEF Submit, LockInv, Locked, Move, Keep, stateVars
<1>2. CASE LockFree(UserOf[s])
  <2>1. UserOf[s] \in Users
    OBVIOUS
  <2>2. \A r \in Requests : UserOf[r] = UserOf[s] => ~Locked(r)
    BY <1>2, <2>1, FreeLock
  <2>3. ASSUME NEW r \in Requests, Locked(r)'
        PROVE  /\ lock'[UserOf[r]].holder = r
               /\ lock'[UserOf[r]].until = got'[r] + LockLease
               /\ clock' <= got'[r] + MaxReq
    <3>1. CASE r = s
      BY <1>2, <2>1, <3>1 DEF Submit, stateVars
    <3>2. CASE r # s
      <4>1. Locked(r) /\ got'[r] = got[r] /\ clock' = clock
        BY <1>2, <2>3, <3>2 DEF Submit, Locked, stateVars
      <4>2. UserOf[r] # UserOf[s]
        BY <4>1, <2>2
      <4> QED
        BY <1>2, <4>1, <4>2 DEF Submit, LockInv
    <3> QED
      BY <3>1, <3>2
  <2> QED
    BY <2>3 DEF LockInv
<1> QED
  BY <1>1, <1>2

\* A step of s that stays inside leaves the lock alone; one that leaves the method
\* gives back only the lock s holds.
LEMMA LockStay ==
  ASSUME TypeInv, LockInv, NEW s \in Requests, UNCHANGED clock,
         \A r \in Requests \ {s} : rpc'[r] = rpc[r],
         \/ Keep /\ (Locked(s)' => Locked(s))
         \/ Release(s) /\ ~Locked(s)'
         \/ UNCHANGED lock /\ got' = [got EXCEPT ![s] = 0] /\ ~Locked(s)'
  PROVE  LockInv'
<1> USE DEF TypeInv, TypeOK, BetTypeOK
<1> SUFFICES ASSUME NEW r \in Requests, Locked(r)'
             PROVE  /\ lock'[UserOf[r]].holder = r
               /\ lock'[UserOf[r]].until = got'[r] + LockLease
                    /\ clock' <= got'[r] + MaxReq
  BY DEF LockInv
<1>1. CASE Keep /\ (Locked(s)' => Locked(s))
  <2>1. Locked(r)
    BY <1>1 DEF Locked
  <2> QED
    BY <1>1, <2>1 DEF LockInv, Keep
<1>2. CASE ~Locked(s)' /\ (Release(s) \/ (UNCHANGED lock /\ got' = [got EXCEPT ![s] = 0]))
  <2>1. r # s /\ Locked(r)
    BY <1>2 DEF Locked
  <2>2. lock[UserOf[r]].holder = r
    BY <2>1 DEF LockInv
  <2>3. got'[r] = got[r] /\ lock'[UserOf[r]] = lock[UserOf[r]]
    BY <1>2, <2>1, <2>2 DEF Release
  <2> QED
    BY <2>1, <2>3 DEF LockInv
<1> QED
  BY <1>1, <1>2

\* A step of bet.
LEMMA LockBetStep ==
  ASSUME TypeInv, LockInv, NEW b \in Bets, BetStep(b)
  PROVE  LockInv'
<1>1. b \in Requests /\ Locked(b) /\ UNCHANGED clock
  BY DEF BetStep, BetWindow, BetOnce, BetPay, BetCommit, Locked, stateVars, Requests
<1>2. \A r \in Requests \ {b} : rpc'[r] = rpc[r]
  BY DEF BetStep, BetWindow, BetOnce, BetPay, BetCommit, Move, TypeInv, TypeOK, BetTypeOK
<1>3. Keep \/ (Release(b) /\ ~Locked(b)')
  BY <1>1 DEF BetStep, BetWindow, BetOnce, BetPay, BetCommit, Move, Locked, TypeInv, TypeOK,
              BetTypeOK
<1> QED
  BY <1>1, <1>2, <1>3, LockStay

\* A step of cancel.
LEMMA LockCancelStep ==
  ASSUME TypeInv, LockInv, NEW c \in Cancels, CancelStep(c)
  PROVE  LockInv'
<1>1. c \in Requests /\ Locked(c) /\ UNCHANGED clock
  BY DEF CancelStep, CancelWindow, CancelLoad, CancelRefund, CancelCommit, Locked,
         stateVars, Requests
<1>2. \A r \in Requests \ {c} : rpc'[r] = rpc[r]
  BY DEF CancelStep, CancelWindow, CancelLoad, CancelRefund, CancelCommit, Move, TypeInv,
         TypeOK, BetTypeOK
<1>3. Keep \/ (Release(c) /\ ~Locked(c)')
  BY <1>1 DEF CancelStep, CancelWindow, CancelLoad, CancelRefund, CancelCommit, Move, Keep,
              Locked, TypeInv, TypeOK, BetTypeOK
<1> QED
  BY <1>1, <1>2, <1>3, LockStay

\* What comes after the locked method.
LEMMA LockEnd ==
  ASSUME TypeInv, LockInv, NEW r \in Requests, After(r) \/ Cleanup(r) \/ Dies(r)
  PROVE  LockInv'
<1>1. UNCHANGED clock /\ UNCHANGED lock
  BY DEF After, Cleanup, Dies, stateVars
<1>2. \A s \in Requests \ {r} : rpc'[s] = rpc[s]
  BY DEF After, Cleanup, Dies, Move, TypeInv, TypeOK, BetTypeOK
<1>3. ~Locked(r)'
  BY DEF After, Cleanup, Dies, Move, Locked, TypeInv, TypeOK, BetTypeOK
<1>4. Keep \/ got' = [got EXCEPT ![r] = 0]
  BY DEF After, Cleanup, Dies, Keep
<1> QED
  BY <1>1, <1>2, <1>3, <1>4, LockStay

\* LockInv is inductive, given the types.
LEMMA LockStep == TypeInv /\ LockInv /\ [Next]_vars => LockInv'
<1> SUFFICES ASSUME TypeInv, LockInv, [Next]_vars PROVE LockInv'
  OBVIOUS
<1>1. CASE Tick
  BY <1>1 DEF Tick, RequestsInTime, LockInv, Locked, betVars, TypeInv, TypeOK, BetTypeOK,
              StateTypeOK
<1>2. CASE BetNext
  BY <1>2, LockSubmit, LockBetStep, LockCancelStep, LockEnd DEF BetNext
<1>3. CASE UNCHANGED <<clock, betVars>>
  BY <1>3 DEF LockInv, Locked, betVars
<1>4. DrawNext \/ TagsLapse \/ UNCHANGED vars => UNCHANGED clock
  BY DEF DrawNext, TagsLapse, vars, stateVars, JobLockExpires, Poll, WorkerStep, DrawFails,
         Crash, PayGroup, DropGroup, AcquireTag, FetchPrice, SelectBets, CommitDraw,
         PublishHistory, UpdateCurrent, CheckCurrent, InsertPeriod, PutCurrent, SubmitPayouts
<1> QED
  BY <1>1, <1>2, <1>3, <1>4 DEF Next, TagsLapse, vars

\* Two requests of one player are never inside the locked methods together,
\* as long as a request ends before its lease: RedissonLockAspect, no watchdog.
THEOREM MutualExclusion == Spec \/ ColdSpec => []OneLockedRequest
<1>1. LockInv => OneLockedRequest
  BY DEF LockInv, OneLockedRequest
<1>2. Spec \/ ColdSpec => AnyInit /\ [][Next]_vars
  BY DEF Spec, ColdSpec, AnyInit
<1> QED
  BY TypeInit, TypeStep, LockInit, LockStep, <1>1, <1>2, PTL

(***************************************************************************)
(* A bet is settled at most once.                                          *)
(***************************************************************************)

\* The bet's transaction has not committed.
Open(b) == rpc[b] \in {"idle", "window", "once", "pay", "paid", "declined"}

\* The labels at which a task holds the winners of a draw it committed.
Paying(w) == pc[w] \in {"history", "current", "check", "insert", "put", "payout"}

\* A task has run for MaxJob seconds at most, and the tag of the period it draws
\* outlives that.
TagInv ==
  \A w \in Workers :
    /\ pc[w] # "idle" => since[w] <= clock /\ clock <= since[w] + MaxJob
    /\ Drawing(w) => tag[map[w].id] >= since[w] + TagTTL

\* So no two tasks draw the same period.
OneDraw == \A w, v \in Workers :
             Drawing(w) /\ Drawing(v) /\ map[w].id = map[v].id => w = v

\* A bet that is not committed has an empty row; a settled one is no longer in play.
RowInv ==
  /\ \A b \in Bets :
       /\ Open(b) => bet[b].period = 0 /\ bet[b].status = "NONE"
       /\ settled[b] > 0 => bet[b].period # 0 /\ bet[b].status # "BET_DONE"
       /\ settled[b] <= 1
       /\ sent[b] <= settled[b]
  /\ \A c \in Cancels : rpc[c] \in {"refund", "refunded", "refused"} => ~Open(TargetOf[c])
  /\ \A g \in queue : \A b \in g : settled[b] > 0

\* What a task selected is of its period and unsettled; what it won is settled,
\* not sent, and its own.
BatchInv ==
  \A w \in Workers :
    /\ pc[w] \in {"idle", "tag", "price", "select"} => batch[w] = {}
    /\ pc[w] = "commit" => \A b \in batch[w] : bet[b].period = map[w].id /\ settled[b] = 0
    /\ Paying(w) => \A b \in batch[w] :
                      /\ settled[b] > 0 /\ sent[b] = 0
                      /\ \A v \in Workers : Paying(v) /\ b \in batch[v] => v = w

DrawInv == TagInv /\ OneDraw /\ RowInv /\ BatchInv

\* No task, no bet and no tag at the start.
LEMMA DrawInit0 == AnyInit => DrawInv
<1> SUFFICES ASSUME AnyInit PROVE DrawInv
  OBVIOUS
<1> USE DEF AnyInit, Init, Init0, StateInit, ColdInit, BetInit, DrawInit
<1>1. TagInv /\ OneDraw
  BY DEF TagInv, OneDraw, Drawing
<1>2. RowInv
  BY DEF RowInv, Open, NoBet, Requests
<1>3. BatchInv
  BY DEF BatchInv, Paying
<1> QED
  BY <1>1, <1>2, <1>3 DEF DrawInv

\* Only w moves.
Alone(w) == /\ clock' = clock
            /\ \A v \in Workers \ {w} : /\ pc'[v] = pc[v] /\ since'[v] = since[v]
                                        /\ map'[v] = map[v] /\ batch'[v] = batch[v]

\* A step of a task is a step of that task only.
LEMMA WorkerAlone ==
  ASSUME TypeInv, NEW w \in Workers,
         Poll(w) \/ WorkerStep(w) \/ DrawFails(w) \/ Crash(w)
  PROVE  Alone(w)
<1> USE DEF Alone, Goto, Stop, TypeInv, TypeOK, DrawTypeOK, stateVars
<1>1. CASE Poll(w) \/ AcquireTag(w) \/ DrawFails(w) \/ Crash(w)
  BY <1>1 DEF Poll, AcquireTag, DrawFails, Crash
<1>2. CASE FetchPrice(w) \/ SelectBets(w) \/ CommitDraw(w)
  BY <1>2 DEF FetchPrice, SelectBets, CommitDraw
<1>3. CASE PublishHistory(w) \/ UpdateCurrent(w)
  BY <1>3 DEF PublishHistory, UpdateCurrent
<1>4. CASE InsertPeriod(w) \/ SubmitPayouts(w)
  BY <1>4 DEF InsertPeriod, SubmitPayouts
<1>5. CASE CheckCurrent(w) \/ PutCurrent(w)
  BY <1>5 DEF CheckCurrent, PutCurrent, PayoutOrStop
<1> QED
  BY <1>1, <1>2, <1>3, <1>4, <1>5 DEF WorkerStep

\* A task that goes on, or stops, without starting to draw keeps the tags in order.
LEMMA TagKeep ==
  ASSUME TypeInv, TagInv, OneDraw, NEW w \in Workers, Alone(w),
         pc'[w] # "idle" => pc[w] # "idle" /\ since'[w] = since[w],
         Drawing(w)' => Drawing(w) /\ map'[w] = map[w],
         \/ UNCHANGED tag
         \/ /\ Drawing(w) /\ ~Drawing(w)'
            /\ tag' = [tag EXCEPT ![map[w].id] = 0]
  PROVE  TagInv' /\ OneDraw'
<1>1. OneDraw'
  BY DEF OneDraw, Alone, Drawing
<1>2. ASSUME NEW v \in Workers, Drawing(v)'
      PROVE  tag'[map'[v].id] >= since'[v] + TagTTL
  <2>1. Drawing(v) /\ map'[v] = map[v] /\ since'[v] = since[v]
    BY <1>2 DEF Drawing, Alone
  <2>2. tag[map[v].id] >= since[v] + TagTTL
    BY <2>1 DEF TagInv
  <2>3. map[v].id \in Period /\ tag \in [Period -> Nat]
    BY <2>1 DEF TypeInv, WorkerHolds, HasPeriod, Drawing, TypeOK, DrawTypeOK
  <2>4. tag'[map[v].id] = tag[map[v].id]
    BY <1>2, <2>1, <2>3 DEF OneDraw
  <2> QED
    BY <2>1, <2>2, <2>4
<1>3. ASSUME NEW v \in Workers, pc'[v] # "idle"
      PROVE  since'[v] <= clock' /\ clock' <= since'[v] + MaxJob
  BY <1>3 DEF TagInv, Alone
<1> QED
  BY <1>1, <1>2, <1>3 DEF TagInv

\* A task starts its MaxJob seconds now.
LEMMA TagPoll ==
  ASSUME TypeInv, TagInv, OneDraw, NEW w \in Workers, Poll(w)
  PROVE  TagInv' /\ OneDraw'
<1> USE DEF TypeInv, TypeOK, DrawTypeOK, StateTypeOK, Poll, Goto, stateVars
<1>1. Alone(w) /\ ~Drawing(w)' /\ UNCHANGED tag
  BY WorkerAlone DEF Drawing
<1>2. pc'[w] = "idle" \/ since'[w] = clock
  OBVIOUS
<1>3. OneDraw'
  BY <1>1 DEF OneDraw, Alone, Drawing
<1>4. ASSUME NEW v \in Workers
      PROVE  /\ pc'[v] # "idle" => since'[v] <= clock' /\ clock' <= since'[v] + MaxJob
             /\ Drawing(v)' => tag'[map'[v].id] >= since'[v] + TagTTL
  <2>1. CASE v = w
    BY <1>1, <1>2, <2>1 DEF Alone
  <2>2. CASE v # w
    BY <1>1, <2>2 DEF Alone, TagInv, Drawing
  <2> QED
    BY <2>1, <2>2
<1> QED
  BY <1>3, <1>4 DEF TagInv

\* Whoever gets the tag is alone: another task drawing this period would have a
\* live tag.
LEMMA TagAcquire ==
  ASSUME TypeInv, TagInv, OneDraw, NEW w \in Workers, AcquireTag(w)
  PROVE  TagInv' /\ OneDraw'
<1> USE DEF TypeInv, TypeOK, DrawTypeOK, StateTypeOK
<1>0. Alone(w)
  BY WorkerAlone DEF WorkerStep
<1>1. CASE TagLive(map[w].id)
  <2>1. pc'[w] = "idle" /\ ~Drawing(w)' /\ UNCHANGED tag
    BY <1>1 DEF AcquireTag, Stop, Drawing
  <2> QED
    BY <1>0, <2>1, TagKeep
<1>2. CASE ~TagLive(map[w].id)
  <2>1. /\ pc[w] = "tag" /\ pc'[w] = "price"
        /\ tag' = [tag EXCEPT ![map[w].id] = clock + TagTTL]
        /\ UNCHANGED <<since, map>>
    BY <1>2 DEF AcquireTag, Goto
  <2>2. map[w].id \in Period /\ clock >= tag[map[w].id] /\ clock \in Nat
    BY <1>2, <2>1 DEF WorkerHolds, HasPeriod, TagLive
  <2>3. since[w] <= clock /\ clock <= since[w] + MaxJob /\ since[w] \in Nat
    BY <2>1 DEF TagInv
  <2>4. ASSUME NEW v \in Workers, v # w, Drawing(v)'
        PROVE  Drawing(v) /\ map[v].id # map[w].id /\ map[v].id \in Period
    <3>1. Drawing(v) /\ map[v].id \in Period /\ tag[map[v].id] \in Nat
      BY <1>0, <2>4 DEF Alone, Drawing, WorkerHolds, HasPeriod
    <3>2. /\ tag[map[v].id] >= since[v] + TagTTL /\ clock <= since[v] + MaxJob
          /\ since[v] \in Nat
      BY <3>1 DEF TagInv, Drawing
    <3>3. clock < tag[map[v].id]
      BY <3>1, <3>2, <2>2, TagOutlivesJob
    <3> QED
      BY <3>1, <3>3, <2>2
  <2>5. OneDraw'
    BY <1>0, <2>1, <2>4 DEF OneDraw, Drawing, Alone
  <2>6. ASSUME NEW v \in Workers
        PROVE  /\ pc'[v] # "idle" => since'[v] <= clock' /\ clock' <= since'[v] + MaxJob
               /\ Drawing(v)' => tag'[map'[v].id] >= since'[v] + TagTTL
    <3>1. CASE v = w
      <4>1. tag'[map[w].id] = clock + TagTTL
        BY <2>1, <2>2
      <4> QED
        BY <1>0, <2>1, <2>3, <3>1, <4>1 DEF Alone
    <3>2. CASE v # w
      <4>1. pc'[v] = pc[v] /\ clock' = clock
        BY <1>0, <3>2 DEF Alone
      <4>2. Drawing(v)' => Drawing(v) /\ tag'[map[v].id] = tag[map[v].id]
        BY <2>1, <2>4, <3>2
      <4> QED
        BY <2>1, <4>1, <4>2 DEF TagInv
    <3> QED
      BY <3>1, <3>2
  <2> QED
    BY <2>5, <2>6 DEF TagInv
<1> QED
  BY <1>1, <1>2

\* The other steps of a task start no draw.
LEMMA TagOther ==
  ASSUME TypeInv, TagInv, OneDraw, NEW w \in Workers,
         \/ FetchPrice(w) \/ SelectBets(w) \/ CommitDraw(w) \/ PublishHistory(w)
         \/ UpdateCurrent(w) \/ CheckCurrent(w) \/ InsertPeriod(w) \/ PutCurrent(w)
         \/ SubmitPayouts(w) \/ DrawFails(w) \/ Crash(w)
  PROVE  TagInv' /\ OneDraw'
<1> USE DEF TypeInv, TypeOK, DrawTypeOK
<1>1. Alone(w)
  BY WorkerAlone DEF WorkerStep
<1>2. CASE \/ FetchPrice(w) \/ SelectBets(w) \/ CommitDraw(w) \/ PublishHistory(w)
           \/ UpdateCurrent(w) \/ InsertPeriod(w)
  <2>1. pc[w] # "idle" /\ UNCHANGED <<since, tag>>
    BY <1>2 DEF FetchPrice, SelectBets, CommitDraw, PublishHistory, UpdateCurrent,
                InsertPeriod
  <2>2. Drawing(w)' => Drawing(w) /\ map'[w] = map[w]
    BY <1>2 DEF FetchPrice, SelectBets, CommitDraw, PublishHistory, UpdateCurrent,
                InsertPeriod, Goto, Drawing
  <2> QED
    BY <1>1, <2>1, <2>2, TagKeep
<1>3. CASE CheckCurrent(w) \/ PutCurrent(w)
  <2>1. pc[w] # "idle" /\ UNCHANGED tag /\ ~Drawing(w)'
    BY <1>3 DEF CheckCurrent, PutCurrent, PayoutOrStop, Stop, Goto, Drawing
  <2>2. pc'[w] # "idle" => since'[w] = since[w]
    BY <1>3 DEF CheckCurrent, PutCurrent, PayoutOrStop, Stop
  <2> QED
    BY <1>1, <2>1, <2>2, TagKeep
<1>4. CASE SubmitPayouts(w) \/ DrawFails(w) \/ Crash(w)
  <2>1. pc'[w] = "idle" /\ ~Drawing(w)'
    BY <1>4 DEF SubmitPayouts, DrawFails, Crash, Stop, Drawing
  <2>2. \/ UNCHANGED tag
        \/ Drawing(w) /\ tag' = [tag EXCEPT ![map[w].id] = 0]
    BY <1>4 DEF SubmitPayouts, DrawFails, Crash
  <2> QED
    BY <1>1, <2>1, <2>2, TagKeep
<1> QED
  BY <1>2, <1>3, <1>4

\* TagInv and OneDraw are inductive together.
LEMMA TagStep ==
  ASSUME TypeInv, TagInv, OneDraw, [Next]_vars
  PROVE  TagInv' /\ OneDraw'
<1> USE DEF TagInv, OneDraw, Drawing
<1>1. CASE Tick
  <2>1. UNCHANGED <<pc, since, map, tag>> /\ clock' = clock + 1 /\ clock \in Nat
    BY <1>1 DEF Tick, drawVars, TypeInv, TypeOK, StateTypeOK
  <2>2. \A w \in Workers : pc[w] # "idle" => clock < since[w] + MaxJob /\ since[w] \in Nat
    BY <1>1 DEF Tick, JobsInTime, TypeInv, TypeOK, DrawTypeOK
  <2> QED
    BY <2>1, <2>2
<1>2. CASE TagsLapse
  BY <1>2 DEF TagsLapse, stateVars
<1>3. CASE UNCHANGED <<clock, drawVars>>
  BY <1>3 DEF drawVars
<1>4. BetNext => UNCHANGED clock
  BY DEF BetNext, Submit, After, Cleanup, Dies, BetStep, BetWindow, BetOnce, BetPay, BetCommit,
         CancelStep, CancelWindow, CancelLoad, CancelRefund, CancelCommit, stateVars
<1>5. CASE DrawNext
  <2>1. CASE \E w \in Workers : Poll(w) \/ WorkerStep(w) \/ DrawFails(w) \/ Crash(w)
    BY <2>1, TagPoll, TagAcquire, TagOther DEF WorkerStep
  <2>2. CASE JobLockExpires \/ \E g \in SUBSET Bets : PayGroup(g) \/ DropGroup(g)
    BY <2>2 DEF JobLockExpires, PayGroup, DropGroup, stateVars
  <2> QED
    BY <1>5, <2>1, <2>2 DEF DrawNext
<1> QED
  BY <1>1, <1>2, <1>3, <1>4, <1>5 DEF Next, vars, stateVars

\* What requests do to the rows of game_bet: only an open bet gets its row, and
\* only a bet in play is cancelled.
RowSteps ==
  /\ \A b \in Bets : Open(b)' => Open(b) /\ bet'[b] = bet[b]
  /\ \A b \in Bets : ~Open(b) =>
       /\ bet'[b].period = bet[b].period
       /\ bet'[b].status = "BET_DONE" => bet[b].status = "BET_DONE"
  /\ \A c \in Cancels :
       rpc'[c] \in {"refund", "refunded", "refused"} => ~Open(TargetOf[c])'

\* Requests take only these row steps.
LEMMA RequestRows ==
  ASSUME TypeInv, RowInv, BetNext
  PROVE  RowSteps
<1> USE DEF TypeInv, TypeOK, BetTypeOK
<1>1. ASSUME NEW r \in Requests, Submit(r) \/ After(r) \/ Cleanup(r) \/ Dies(r)
      PROVE  RowSteps
  <2>1. UNCHANGED bet
    BY <1>1 DEF Submit, After, Cleanup, Dies, stateVars
  <2>2. \A s \in Requests \ {r} : rpc'[s] = rpc[s]
    BY <1>1 DEF Submit, After, Cleanup, Dies, Move
  <2>3. \/ rpc'[r] \in {"cleanup", "done"}
        \/ rpc'[r] = "window" /\ rpc[r] = "idle"
    BY <1>1 DEF Submit, After, Cleanup, Dies, Move
  <2>4. \A b \in Bets : Open(b)' => Open(b)
    BY <2>2, <2>3 DEF Open, Requests
  <2> QED
    BY <2>1, <2>2, <2>3, <2>4 DEF RowSteps, RowInv, Requests
<1>2. ASSUME NEW b \in Bets, BetStep(b)
      PROVE  RowSteps
  <2>1. b \in Requests /\ \A s \in Requests \ {b} : rpc'[s] = rpc[s]
    BY <1>2 DEF BetStep, BetWindow, BetOnce, BetPay, BetCommit, Move, Requests
  <2>2. Open(b)
    BY <1>2 DEF BetStep, BetWindow, BetOnce, BetPay, BetCommit, Open
  <2>3. Open(b)' => UNCHANGED bet
    BY <1>2, <2>1 DEF BetStep, BetWindow, BetOnce, BetPay, BetCommit, Open, Move, stateVars
  <2>4. \A a \in Bets \ {b} : bet'[a] = bet[a]
    BY <1>2 DEF BetStep, BetWindow, BetOnce, BetPay, BetCommit, stateVars, StateTypeOK
  <2>5. \A c \in Cancels : c # b /\ c \in Requests
    BY DEF Requests
  <2> QED
    BY <2>1, <2>2, <2>3, <2>4, <2>5 DEF RowSteps, RowInv, Open, Requests
<1>3. ASSUME NEW c \in Cancels, CancelStep(c)
      PROVE  RowSteps
  <2>1. c \in Requests /\ \A s \in Requests \ {c} : rpc'[s] = rpc[s]
    BY <1>3 DEF CancelStep, CancelWindow, CancelLoad, CancelRefund, CancelCommit, Move,
                Requests
  <2>2. \A b \in Bets : rpc'[b] = rpc[b] /\ (Open(b)' <=> Open(b))
    BY <2>1 DEF Requests, Open
  <2>3. \/ UNCHANGED bet
        \/ /\ rpc[c] = "refunded"
           /\ bet' = [bet EXCEPT ![TargetOf[c]] =
                        [bet[TargetOf[c]] EXCEPT !.status = "CANCEL"]]
    BY <1>3 DEF CancelStep, CancelWindow, CancelLoad, CancelRefund, CancelCommit, stateVars
  <2>4. /\ \A b \in Bets : Open(b) => bet'[b] = bet[b]
        /\ \A b \in Bets : /\ bet'[b].period = bet[b].period
                           /\ bet'[b].status = "BET_DONE" => bet[b].status = "BET_DONE"
    <3>1. CASE UNCHANGED bet
      BY <3>1
    <3>2. CASE /\ rpc[c] = "refunded"
               /\ bet' = [bet EXCEPT ![TargetOf[c]] =
                            [bet[TargetOf[c]] EXCEPT !.status = "CANCEL"]]
      <4>1. TargetOf[c] \in Bets /\ bet[TargetOf[c]] \in BetRow
        BY DEF StateTypeOK
      <4>2. ~Open(TargetOf[c])
        BY <3>2 DEF RowInv
      <4>3. \A row \in BetRow : /\ [row EXCEPT !.status = "CANCEL"].period = row.period
                                /\ [row EXCEPT !.status = "CANCEL"].status = "CANCEL"
        BY DEF BetRow
      <4> QED
        BY <3>2, <4>1, <4>2, <4>3 DEF StateTypeOK
    <3> QED
      BY <2>3, <3>1, <3>2
  <2>5. rpc'[c] \in {"refund", "refunded", "refused"} =>
          \/ rpc[c] \in {"refund", "refunded", "refused"}
          \/ Cancellable(c)
    BY <1>3 DEF CancelStep, CancelWindow, CancelLoad, CancelRefund, CancelCommit, Move
  <2>6. Cancellable(c) => ~Open(TargetOf[c])
    BY DEF Cancellable, RowInv
  <2>7. \A d \in Cancels : rpc'[d] \in {"refund", "refunded", "refused"} =>
          ~Open(TargetOf[d])'
    BY <2>1, <2>2, <2>5, <2>6 DEF RowInv, Requests
  <2> QED
    BY <2>2, <2>4, <2>7 DEF RowSteps
<1> QED
  BY <1>1, <1>2, <1>3 DEF BetNext

\* So they leave what tasks selected and settled alone.
LEMMA RowsOfRequests ==
  ASSUME TypeInv, RowInv, BatchInv, BetNext, UNCHANGED drawVars
  PROVE  RowInv' /\ BatchInv'
<1>1. RowSteps
  BY RequestRows
<1>2. UNCHANGED <<settled, sent, queue, pc, map, batch>>
  BY DEF drawVars
<1>3. RowInv'
  BY <1>1, <1>2 DEF RowInv, RowSteps
<1>4. \A w \in Workers : pc[w] = "commit" =>
        \A b \in batch[w] : b \in Bets /\ bet'[b].period = bet[b].period
  <2> SUFFICES ASSUME NEW w \in Workers, pc[w] = "commit", NEW b \in batch[w]
               PROVE  b \in Bets /\ bet'[b].period = bet[b].period
    OBVIOUS
  <2>1. b \in Bets /\ map[w].id \in Period /\ bet[b].period = map[w].id
    BY DEF TypeInv, TypeOK, DrawTypeOK, WorkerHolds, HasPeriod, BatchInv
  <2>2. ~Open(b)
    BY <2>1 DEF RowInv, Period
  <2> QED
    BY <1>1, <2>1, <2>2 DEF RowSteps
<1>5. BatchInv'
  BY <1>2, <1>4 DEF BatchInv, Paying
<1> QED
  BY <1>3, <1>5

\* A step that settles and sends nothing: the task keeps or drops what it holds.
LEMMA BatchKeep ==
  ASSUME TypeInv, RowInv, BatchInv, NEW w \in Workers, Alone(w),
         UNCHANGED <<rpc, bet, settled, sent, queue>>,
         \/ batch'[w] = {}
         \/ /\ batch'[w] = batch[w]
            /\ pc'[w] \notin {"idle", "tag", "price", "select"}
            /\ pc'[w] = "commit" => pc[w] = "commit" /\ map'[w] = map[w]
            /\ Paying(w)' => Paying(w)
  PROVE  RowInv' /\ BatchInv'
<1>1. RowInv'
  BY DEF RowInv, Open
<1>2. \A v \in Workers : /\ batch'[v] \subseteq batch[v]
                         /\ batch'[v] # {} =>
                              /\ batch'[v] = batch[v]
                              /\ Paying(v)' => Paying(v)
                              /\ pc'[v] = "commit" => pc[v] = "commit" /\ map'[v] = map[v]
  BY DEF Alone, Paying
<1>3. \A v \in Workers : pc'[v] \in {"idle", "tag", "price", "select"} => batch'[v] = {}
  BY DEF Alone, BatchInv
<1>4. \A v \in Workers : pc'[v] = "commit" =>
        \A b \in batch'[v] : bet'[b].period = map'[v].id /\ settled'[b] = 0
  BY <1>2 DEF BatchInv
<1>5. \A v \in Workers : Paying(v)' =>
        \A b \in batch'[v] :
          /\ settled'[b] > 0 /\ sent'[b] = 0
          /\ \A u \in Workers : Paying(u)' /\ b \in batch'[u] => u = v
  BY <1>2 DEF BatchInv
<1> QED
  BY <1>1, <1>3, <1>4, <1>5 DEF BatchInv

\* The steps of a task that settle and send nothing.
LEMMA RowsOfQuietSteps ==
  ASSUME TypeInv, RowInv, BatchInv, UNCHANGED betVars, NEW w \in Workers,
         \/ Poll(w) \/ AcquireTag(w) \/ FetchPrice(w) \/ DrawFails(w) \/ PublishHistory(w)
         \/ UpdateCurrent(w) \/ CheckCurrent(w) \/ InsertPeriod(w) \/ PutCurrent(w)
         \/ Crash(w)
  PROVE  RowInv' /\ BatchInv'
<1> USE DEF TypeInv, TypeOK, DrawTypeOK
<1>1. Alone(w)
  BY WorkerAlone DEF WorkerStep
<1>2. UNCHANGED <<rpc, bet, settled, sent, queue>>
  BY DEF Poll, AcquireTag, FetchPrice, DrawFails, PublishHistory, UpdateCurrent,
         CheckCurrent, InsertPeriod, PutCurrent, Crash, betVars, stateVars
<1>3. CASE Poll(w) \/ AcquireTag(w) \/ FetchPrice(w) \/ DrawFails(w) \/ Crash(w)
  <2>1. batch'[w] = {}
    BY <1>3 DEF Poll, AcquireTag, FetchPrice, DrawFails, Crash, Stop, BatchInv
  <2> QED
    BY <1>1, <1>2, <2>1, BatchKeep
<1>4. CASE PublishHistory(w) \/ UpdateCurrent(w) \/ InsertPeriod(w)
  <2>1. /\ batch'[w] = batch[w] /\ Paying(w)
        /\ pc'[w] \in {"current", "check", "put"}
    BY <1>4 DEF PublishHistory, UpdateCurrent, InsertPeriod, Goto, Paying
  <2> QED
    BY <1>1, <1>2, <2>1, BatchKeep
<1>5. CASE CheckCurrent(w) \/ PutCurrent(w)
  <2>1. \/ batch'[w] = {}
        \/ /\ batch'[w] = batch[w] /\ Paying(w)
           /\ pc'[w] \in {"insert", "payout"}
    BY <1>5 DEF CheckCurrent, PutCurrent, PayoutOrStop, Stop, Goto, Paying
  <2> QED
    BY <1>1, <1>2, <2>1, BatchKeep
<1> QED
  BY <1>3, <1>4, <1>5

\* A bet in play is unsettled when it is selected.
LEMMA RowsOfSelect ==
  ASSUME TypeInv, RowInv, BatchInv, UNCHANGED betVars, NEW w \in Workers, SelectBets(w)
  PROVE  RowInv' /\ BatchInv'
<1> USE DEF TypeInv, TypeOK, DrawTypeOK
<1>1. Alone(w)
  BY WorkerAlone DEF WorkerStep
<1>2. UNCHANGED <<rpc, bet, settled, sent, queue, map>>
  BY DEF SelectBets, betVars, stateVars
<1>3. RowInv'
  BY <1>2 DEF RowInv, Open
<1>4. \A b \in batch'[w] : bet[b].period = map[w].id /\ settled[b] = 0
  <2>1. \A b \in batch'[w] : b \in Bets /\ bet[b].status = "BET_DONE"
                             /\ bet[b].period = map[w].id
    BY DEF SelectBets
  <2> QED
    BY <2>1 DEF RowInv
<1>5. pc'[w] = "commit" /\ ~Paying(w)'
  BY DEF SelectBets, Goto, Paying
<1>6. BatchInv'
  BY <1>1, <1>2, <1>4, <1>5 DEF BatchInv, Alone, Paying
<1> QED
  BY <1>3, <1>6

\* A commit settles bets no other task selected and no task settled.
LEMMA RowsOfCommit ==
  ASSUME TypeInv, OneDraw, RowInv, BatchInv, UNCHANGED betVars,
         NEW w \in Workers, CommitDraw(w)
  PROVE  RowInv' /\ BatchInv'
<1> USE DEF TypeInv, TypeOK, DrawTypeOK
<1>1. Alone(w)
  BY WorkerAlone DEF WorkerStep
<1>2. UNCHANGED <<rpc, sent, queue, map>> /\ pc[w] = "commit"
  BY DEF CommitDraw, betVars
<1>3. batch[w] \subseteq Bets /\ map[w].id \in Period
  BY <1>2 DEF WorkerHolds, HasPeriod
<1>4. ASSUME NEW b \in batch[w]
      PROVE  /\ bet[b].period = map[w].id /\ bet[b].period # 0 /\ settled[b] = 0
             /\ sent[b] = 0 /\ ~Open(b)
  BY <1>2, <1>3 DEF BatchInv, RowInv, Period
<1>5. ASSUME NEW b \in batch[w]
      PROVE  /\ bet'[b].period = bet[b].period /\ bet'[b].status \in {"PAY_ING", "BOMB"}
             /\ settled'[b] = 1
  <2>1. /\ bet[b] \in BetRow
        /\ \E s \in {"PAY_ING", "BOMB"} : bet'[b] = [bet[b] EXCEPT !.status = s]
    BY <1>3 DEF CommitDraw, StateTypeOK
  <2>2. settled'[b] = settled[b] + 1
    BY <1>3 DEF CommitDraw
  <2> QED
    BY <1>4, <2>1, <2>2 DEF BetRow
<1>6. ASSUME NEW b \in Bets \ batch[w]
      PROVE  bet'[b] = bet[b] /\ settled'[b] = settled[b]
  BY DEF CommitDraw
<1>7. RowInv'
  <2>1. \A b \in Bets : Open(b)' <=> Open(b)
    BY <1>2 DEF Open
  <2>2. ASSUME NEW b \in Bets
        PROVE  /\ Open(b)' => bet'[b].period = 0 /\ bet'[b].status = "NONE"
               /\ settled'[b] > 0 => bet'[b].period # 0 /\ bet'[b].status # "BET_DONE"
               /\ settled'[b] <= 1
               /\ sent'[b] <= settled'[b]
               /\ settled[b] > 0 => settled'[b] > 0
    <3>1. CASE b \in batch[w]
      BY <3>1, <1>2, <1>4, <1>5, <2>1
    <3>2. CASE b \notin batch[w]
      BY <3>2, <1>2, <1>6, <2>1 DEF RowInv
    <3> QED
      BY <3>1, <3>2
  <2>3. \A c \in Cancels : rpc'[c] \in {"refund", "refunded", "refused"} =>
          ~Open(TargetOf[c])'
    BY <1>2, <2>1 DEF RowInv
  <2>4. \A g \in queue : \A b \in g : settled'[b] > 0
    BY <2>2 DEF RowInv
  <2> QED
    BY <1>2, <2>2, <2>3, <2>4 DEF RowInv
<1>8. batch'[w] \subseteq batch[w] /\ pc'[w] = "history"
  BY DEF CommitDraw, Goto, Winners
<1>9. ASSUME NEW v \in Workers, v # w, pc[v] = "commit", NEW b \in batch[v]
      PROVE  b \in Bets \ batch[w] /\ bet[b].period = map[v].id /\ settled[b] = 0
  <2>1. map[v].id # map[w].id
    BY <1>2, <1>9 DEF OneDraw, Drawing
  <2>2. b \in Bets /\ bet[b].period = map[v].id /\ settled[b] = 0
    BY <1>9 DEF BatchInv
  <2> QED
    BY <2>1, <2>2, <1>4
<1>10. ASSUME NEW v \in Workers, v # w, Paying(v), NEW b \in batch[v]
       PROVE  b \in Bets \ batch[w]
  <2>1. b \in Bets /\ settled[b] > 0
    BY <1>10 DEF BatchInv
  <2> QED
    BY <2>1, <1>4
<1>11. ASSUME NEW v \in Workers
       PROVE  /\ pc'[v] \in {"idle", "tag", "price", "select"} => batch'[v] = {}
              /\ pc'[v] = "commit" =>
                   \A b \in batch'[v] : bet'[b].period = map'[v].id /\ settled'[b] = 0
              /\ Paying(v)' => \A b \in batch'[v] :
                   /\ settled'[b] > 0 /\ sent'[b] = 0
                   /\ \A u \in Workers : Paying(u)' /\ b \in batch'[u] => u = v
  <2>1. CASE v = w
    <3>1. ASSUME NEW b \in batch'[w], NEW u \in Workers, Paying(u)', b \in batch'[u]
          PROVE  u = w
      BY <3>1, <1>1, <1>8, <1>10 DEF Alone, Paying
    <3> QED
      BY <2>1, <3>1, <1>2, <1>4, <1>5, <1>8
  <2>2. CASE v # w
    <3>1. pc'[v] = pc[v] /\ batch'[v] = batch[v] /\ map'[v] = map[v]
      BY <1>1, <2>2 DEF Alone
    <3>2. pc'[v] \in {"idle", "tag", "price", "select"} => batch'[v] = {}
      BY <3>1 DEF BatchInv
    <3>3. pc'[v] = "commit" =>
            \A b \in batch'[v] : bet'[b].period = map'[v].id /\ settled'[b] = 0
      BY <3>1, <2>2, <1>6, <1>9
    <3>4. ASSUME Paying(v)', NEW b \in batch'[v]
          PROVE  /\ settled'[b] > 0 /\ sent'[b] = 0
                 /\ \A u \in Workers : Paying(u)' /\ b \in batch'[u] => u = v
      <4>1. Paying(v) /\ b \in batch[v] /\ b \in Bets \ batch[w]
        BY <3>1, <3>4, <2>2, <1>10 DEF Paying
      <4>2. settled'[b] > 0 /\ sent'[b] = 0
        BY <4>1, <1>2, <1>6 DEF BatchInv
      <4>3. \A u \in Workers : Paying(u)' /\ b \in batch'[u] => u # w /\ Paying(u) /\ b \in batch[u]
        BY <4>1, <1>1, <1>8 DEF Alone, Paying
      <4> QED
        BY <4>1, <4>2, <4>3 DEF BatchInv
    <3> QED
      BY <3>2, <3>3, <3>4
  <2> QED
    BY <2>1, <2>2
<1> QED
  BY <1>7, <1>11 DEF BatchInv

\* A task hands over winners nobody handed over before.
LEMMA RowsOfSubmit ==
  ASSUME TypeInv, RowInv, BatchInv, UNCHANGED betVars, NEW w \in Workers, SubmitPayouts(w)
  PROVE  RowInv' /\ BatchInv'
<1> USE DEF TypeInv, TypeOK, DrawTypeOK
<1>1. Alone(w)
  BY WorkerAlone DEF WorkerStep
<1>2. UNCHANGED <<rpc, bet, settled>> /\ Paying(w)
  BY DEF SubmitPayouts, betVars, stateVars, Paying
<1>3. pc'[w] = "idle" /\ batch'[w] = {}
  BY DEF SubmitPayouts, Stop
<1>4. \A b \in batch[w] : b \in Bets /\ settled[b] > 0 /\ sent[b] = 0 /\ sent'[b] = 1
  BY <1>2 DEF SubmitPayouts, BatchInv
<1>5. \A b \in Bets \ batch[w] : sent'[b] = sent[b]
  BY DEF SubmitPayouts
<1>6. RowInv'
  <2>1. \A b \in Bets : sent'[b] <= settled[b]
    BY <1>4, <1>5 DEF RowInv
  <2>2. \A g \in queue' : g \in queue \/ g \subseteq batch[w]
    BY DEF SubmitPayouts, Groupings
  <2>3. \A g \in queue' : \A b \in g : settled[b] > 0
    BY <1>4, <2>2 DEF RowInv
  <2> QED
    BY <1>2, <2>1, <2>3 DEF RowInv, Open
<1>7. ASSUME NEW v \in Workers, v # w
      PROVE  /\ pc'[v] = pc[v] /\ map'[v] = map[v] /\ batch'[v] = batch[v]
             /\ Paying(v) => \A b \in batch[v] : sent'[b] = sent[b]
  <2>1. Paying(v) => \A b \in batch[v] : b \in Bets \ batch[w]
    BY <1>2, <1>7 DEF BatchInv
  <2> QED
    BY <1>1, <1>5, <1>7, <2>1 DEF Alone
<1>8. ASSUME NEW v \in Workers
      PROVE  /\ pc'[v] \in {"idle", "tag", "price", "select"} => batch'[v] = {}
             /\ pc'[v] = "commit" =>
                  \A b \in batch'[v] : bet'[b].period = map'[v].id /\ settled'[b] = 0
             /\ Paying(v)' => \A b \in batch'[v] :
                  /\ settled'[b] > 0 /\ sent'[b] = 0
                  /\ \A u \in Workers : Paying(u)' /\ b \in batch'[u] => u = v
  <2>1. CASE v = w
    BY <2>1, <1>3
  <2>2. CASE v # w
    BY <2>2, <1>2, <1>3, <1>7 DEF BatchInv, Paying
  <2> QED
    BY <2>1, <2>2
<1> QED
  BY <1>6, <1>8 DEF BatchInv

\* Payout tasks move settled bets on, never back into play.
LEMMA RowsOfQueue ==
  ASSUME TypeInv, RowInv, BatchInv, UNCHANGED betVars,
         JobLockExpires \/ \E g \in SUBSET Bets : PayGroup(g) \/ DropGroup(g)
  PROVE  RowInv' /\ BatchInv'
<1> USE DEF TypeInv, TypeOK, DrawTypeOK
<1>1. UNCHANGED <<rpc, settled, sent, pc, map, batch>> /\ queue' \subseteq queue
  BY DEF JobLockExpires, PayGroup, DropGroup, betVars
<1>2. ASSUME NEW b \in Bets
      PROVE  /\ bet'[b].period = bet[b].period
             /\ settled[b] = 0 => bet'[b] = bet[b]
             /\ bet'[b].status = "BET_DONE" => bet[b].status = "BET_DONE"
  <2>1. CASE UNCHANGED bet
    BY <2>1
  <2>2. ASSUME NEW g \in SUBSET Bets, PayGroup(g)
        PROVE  /\ bet'[b].period = bet[b].period
               /\ settled[b] = 0 => bet'[b] = bet[b]
               /\ bet'[b].status = "BET_DONE" => bet[b].status = "BET_DONE"
    <3>1. PICK outcome \in [g -> {"WT_DONE", "WT_FAILED", "silent"}] :
            bet' = [a \in Bets |-> IF a \in g /\ outcome[a] # "silent"
                                   THEN [bet[a] EXCEPT !.status = outcome[a]]
                                   ELSE bet[a]]
      BY <2>2 DEF PayGroup
    <3>2. CASE b \in g /\ outcome[b] # "silent"
      <4>1. settled[b] > 0
        BY <2>2, <3>2 DEF PayGroup, RowInv
      <4>2. bet[b] \in BetRow /\ outcome[b] \in {"WT_DONE", "WT_FAILED"}
        BY <3>2 DEF StateTypeOK
      <4>3. bet'[b] = [bet[b] EXCEPT !.status = outcome[b]]
        BY <3>1, <3>2
      <4> QED
        BY <4>1, <4>2, <4>3 DEF BetRow
    <3>3. CASE ~(b \in g /\ outcome[b] # "silent")
      BY <3>1, <3>3
    <3> QED
      BY <3>2, <3>3
  <2> QED
    BY <2>1, <2>2 DEF JobLockExpires, DropGroup, stateVars
<1>3. \A b \in Bets : Open(b) => settled[b] = 0
  BY DEF RowInv
<1>4. RowInv'
  BY <1>1, <1>2, <1>3 DEF RowInv, Open
<1>5. BatchInv'
  BY <1>1, <1>2 DEF BatchInv, Paying
<1> QED
  BY <1>4, <1>5

\* RowInv and BatchInv are inductive, given TypeInv and OneDraw.
LEMMA RowStep ==
  ASSUME TypeInv, OneDraw, RowInv, BatchInv, [Next]_vars
  PROVE  RowInv' /\ BatchInv'
<1>1. CASE Tick \/ TagsLapse \/ UNCHANGED vars
  <2>1. UNCHANGED <<bet, rpc, pc, map, batch, settled, sent, queue>>
    BY <1>1 DEF Tick, TagsLapse, vars, stateVars, betVars, drawVars
  <2> QED
    BY <2>1 DEF RowInv, BatchInv, Open, Paying
<1>2. CASE BetNext /\ UNCHANGED drawVars
  BY <1>2, RowsOfRequests
<1>3. CASE DrawNext /\ UNCHANGED betVars
  BY <1>3, RowsOfQuietSteps, RowsOfSelect, RowsOfCommit, RowsOfSubmit, RowsOfQueue
     DEF DrawNext, WorkerStep
<1> QED
  BY <1>1, <1>2, <1>3 DEF Next

\* A bet is settled by one draw at most and its winnings are handed over for payout
\* once at most, for any number of draw tasks and any crashes: CoinDrawTask.draw,
\* as long as a task ends before its draw tag expires.
THEOREM SettledAtMostOnce == Spec \/ ColdSpec => []SettledOnce
<1>1. ASSUME TypeInv, DrawInv PROVE SettledOnce
  <2>1. ASSUME NEW b \in Bets PROVE settled[b] <= 1 /\ sent[b] <= 1
    <3>1. settled[b] \in Nat /\ sent[b] \in Nat
      BY <1>1 DEF TypeInv, TypeOK, DrawTypeOK
    <3>2. settled[b] <= 1 /\ sent[b] <= settled[b]
      BY <1>1 DEF DrawInv, RowInv
    <3> QED
      BY <3>1, <3>2
  <2> QED
    BY <2>1 DEF SettledOnce
<1>2. TypeInv /\ DrawInv /\ [Next]_vars => DrawInv'
  BY TagStep, RowStep DEF DrawInv
<1>3. TypeInv /\ DrawInv => SettledOnce
  BY <1>1
<1>4. Spec \/ ColdSpec => AnyInit /\ [][Next]_vars
  BY DEF Spec, ColdSpec, AnyInit
<1> QED
  BY TypeInit, TypeStep, DrawInit0, <1>2, <1>3, <1>4, PTL
=============================================================================
