-------------------------- MODULE CoinRoundsProofs --------------------------
(***************************************************************************)
(* Proofs about CoinGame: periods are drawn one after the other, and each  *)
(* draw settles all of the bets in play, at one price of its own.  The     *)
(* game therefore implements BetLedger.  All from a running period (Spec): *)
(* two tasks that find an empty deployment may both create a period.       *)
(***************************************************************************)
EXTENDS CoinGameProofs

USE CoinStateAssumption, CoinBetAssumption, CoinDrawAssumption
    DEF CoinStateAssumption, CoinBetAssumption, CoinDrawAssumption

(***************************************************************************)
(* Rounds.  From the draw tag to the next period one task at a time works  *)
(* on the current period; it is late enough by then that no request        *)
(* accepted in the period is still under way.                              *)
(***************************************************************************)

\* From the tag until the next period is in the hash.
Busy(w) == pc[w] \in {"price", "select", "commit", "history", "current", "check",
                      "insert", "put"}

\* A task holds the period it read in Poll, then the one it creates.
Holding(w) == pc[w] \in {"tag", "price", "select", "commit", "history", "current",
                         "check"}
Creating(w) == pc[w] \in {"insert", "put"}

\* A cached draw result is the period's own.
Fit(m) == m.price = NoPrice \/ m.price.for = m.id

HashInv == hash.id \in Period /\ hash.id <= lastPeriod /\ Fit(hash)

OneBusy == \A w, v \in Workers : Busy(w) /\ Busy(v) => w = v

\* A task past the tag works on the current period, whose tag outlives it; one that
\* is still to ask for the tag of an earlier period will not get it.
WorkerInv(w) ==
  /\ Holding(w) =>
       /\ map[w].id \in Period /\ map[w].id <= hash.id
       /\ Fit(map[w])
       /\ map[w].id = hash.id => map[w].start = hash.start
       /\ DrawStart(map[w]) <= since[w]
  /\ Busy(w) =>
       /\ tag[hash.id] >= since[w] + TagTTL
       /\ Due(hash)
       /\ Holding(w) => map[w].id = hash.id
  /\ Creating(w) => map[w].price = NoPrice
  /\ pc[w] = "put" => hash.id < map[w].id /\ map[w].id <= lastPeriod
  /\ pc[w] = "tag" /\ map[w].id # hash.id => tag[map[w].id] > since[w] + MaxJob

\* A request that passed the window test names the current period and started in
\* its window.
InWindow(r) == rpc[r] \in {"once", "pay", "paid", "declined", "load", "refund",
                           "refunded", "refused"}
WindowInv ==
  /\ \A r \in Requests : Locked(r) => got[r] <= clock
  /\ \A r \in Requests : InWindow(r) => asked[r] = hash.id /\ got[r] <= BetLast(hash)

RoundInv == HashInv /\ OneBusy /\ (\A w \in Workers : WorkerInv(w)) /\ WindowInv

\* What CoinGameProofs shows.
GameInv == TypeInv /\ LockInv /\ DrawInv

\* The game keeps it.
LEMMA GameStep == GameInv /\ [Next]_vars => GameInv'
  BY TypeStep, LockStep, TagStep, RowStep DEF GameInv, DrawInv

LEMMA RoundInit == Init => RoundInv
<1> SUFFICES ASSUME Init PROVE RoundInv
  OBVIOUS
<1> USE DEF Init, StateInit, BetInit, DrawInit
<1>1. HashInv
  BY DEF HashInv, Period, Fit
<1>2. OneBusy /\ \A w \in Workers : WorkerInv(w)
  BY DEF OneBusy, WorkerInv, Busy, Holding, Creating
<1>3. WindowInv
  BY DEF WindowInv, Locked, InWindow
<1> QED
  BY <1>1, <1>2, <1>3 DEF RoundInv

\* No request is past the window test once the period is due.
LEMMA DueIsQuiet ==
  ASSUME TypeInv, LockInv, RoundInv, Due(hash), NEW r \in Requests
  PROVE  ~InWindow(r)
<1> SUFFICES ASSUME InWindow(r) PROVE FALSE
  OBVIOUS
<1>1. got[r] <= BetLast(hash) /\ clock <= got[r] + MaxReq
  BY DEF RoundInv, WindowInv, LockInv, InWindow, Locked
<1>2. clock >= DrawStart(hash)
  BY DEF Due
<1>3. got[r] \in Nat /\ clock \in Nat /\ hash.start \in Nat
  BY DEF TypeInv, TypeOK, BetTypeOK, StateTypeOK, PeriodMap
<1> QED
  BY <1>1, <1>2, <1>3, BetsBeforeDraw DEF BetLast, DrawStart

\* What the other tasks know survives a step of w that leaves the current period
\* where it is and takes no tag they rely on.
LEMMA OthersKeep ==
  ASSUME TypeInv, RoundInv, NEW w \in Workers, Alone(w),
         hash'.id = hash.id, hash'.start = hash.start, lastPeriod' >= lastPeriod,
         lastPeriod' \in Nat,
         \A v \in Workers \ {w} :
           /\ Busy(v) => tag'[hash.id] = tag[hash.id]
           /\ pc[v] = "tag" /\ map[v].id # hash.id => tag'[map[v].id] = tag[map[v].id],
         NEW v \in Workers \ {w}
  PROVE  WorkerInv(v)' /\ (Busy(v)' <=> Busy(v))
<1>1. /\ pc'[v] = pc[v] /\ since'[v] = since[v] /\ map'[v] = map[v] /\ clock' = clock
  BY DEF Alone
<1>2. WorkerInv(v)
  BY DEF RoundInv
<1>3. Due(hash) => Due(hash)'
  BY <1>1 DEF Due, DrawStart
<1>4. map[v].id \in Nat /\ lastPeriod \in Nat
  BY DEF TypeInv, TypeOK, StateTypeOK, DrawTypeOK, PeriodMap
<1> QED
  BY <1>1, <1>2, <1>3, <1>4 DEF WorkerInv, Busy, Holding, Creating, Fit, DrawStart

\* Nor do requests notice.
LEMMA WindowKeep ==
  ASSUME RoundInv, hash'.id = hash.id, hash'.start = hash.start,
         UNCHANGED <<clock, betVars>>
  PROVE  WindowInv'
  BY DEF RoundInv, WindowInv, Locked, InWindow, BetLast, betVars

\* A task goes on, or stops, with the period it holds.
LEMMA RoundKeep ==
  ASSUME TypeInv, RoundInv, NEW w \in Workers, Alone(w), UNCHANGED <<tag, betVars>>,
         hash'.id = hash.id, hash'.start = hash.start, Fit(hash'), lastPeriod' = lastPeriod,
         Busy(w)' => Busy(w) /\ since'[w] = since[w],
         Holding(w)' => map'[w] = map[w] /\ Busy(w)' /\ Holding(w),
         Creating(w)' => map'[w].price = NoPrice /\ pc'[w] # "put"
  PROVE  RoundInv'
<1>1. \A v \in Workers \ {w} : WorkerInv(v)' /\ (Busy(v)' <=> Busy(v))
  BY OthersKeep DEF TypeInv, TypeOK, StateTypeOK
<1>2. Due(hash) => Due(hash)'
  BY DEF Due, DrawStart, Alone
<1>3. WorkerInv(w)'
  BY <1>2 DEF RoundInv, WorkerInv, Busy, Holding, Creating, DrawStart
<1>4. OneBusy'
  BY <1>1 DEF RoundInv, OneBusy
<1>5. HashInv' /\ WindowInv'
  BY WindowKeep DEF RoundInv, HashInv, Fit, Alone
<1> QED
  BY <1>1, <1>3, <1>4, <1>5 DEF RoundInv

\* The steps that keep the period.
LEMMA RoundOfQuietSteps ==
  ASSUME TypeInv, RoundInv, UNCHANGED betVars, NEW w \in Workers,
         \/ FetchPrice(w) \/ SelectBets(w) \/ CommitDraw(w) \/ PublishHistory(w)
         \/ UpdateCurrent(w) \/ CheckCurrent(w) \/ SubmitPayouts(w) \/ Crash(w)
  PROVE  RoundInv'
<1> USE DEF TypeInv, TypeOK, StateTypeOK, DrawTypeOK
<1>1. Alone(w)
  BY WorkerAlone DEF WorkerStep
<1>2. UNCHANGED <<tag, lastPeriod>>
  BY DEF FetchPrice, SelectBets, CommitDraw, PublishHistory, UpdateCurrent, CheckCurrent,
         SubmitPayouts, Crash, stateVars
<1>3. HashInv /\ WorkerInv(w)
  BY DEF RoundInv
<1>4. CASE FetchPrice(w)
  <2>1. /\ pc[w] = "price" /\ pc'[w] = "select" /\ since' = since /\ map' = map
    BY <1>4 DEF FetchPrice, Goto
  <2>2. map[w].id = hash.id
    BY <1>3, <2>1 DEF WorkerInv, Busy, Holding
  <2>3. hash'.id = hash.id /\ hash'.start = hash.start /\ Fit(hash')
    BY <1>3, <1>4, <2>2 DEF FetchPrice, PeriodMap, Fit, HashInv
  <2> QED
    BY <1>1, <1>2, <2>1, <2>3, RoundKeep DEF Busy, Holding, Creating
<1>5. CASE UpdateCurrent(w)
  <2>1. /\ pc[w] = "current" /\ pc'[w] = "check" /\ since' = since /\ map' = map
        /\ hash' = map[w]
    BY <1>5 DEF UpdateCurrent, Goto
  <2>2. hash'.id = hash.id /\ hash'.start = hash.start /\ Fit(hash')
    BY <1>3, <2>1 DEF WorkerInv, Busy, Holding
  <2> QED
    BY <1>1, <1>2, <2>1, <2>2, RoundKeep DEF Busy, Holding, Creating
<1>6. CASE SelectBets(w) \/ CommitDraw(w) \/ PublishHistory(w)
  <2>1. /\ pc[w] \in {"select", "commit", "history"}
        /\ pc'[w] \in {"commit", "history", "current"}
        /\ since' = since /\ map' = map /\ hash' = hash
    BY <1>6 DEF SelectBets, CommitDraw, PublishHistory, Goto, stateVars
  <2> QED
    BY <1>1, <1>2, <1>3, <2>1, RoundKeep DEF Busy, Holding, Creating, HashInv
<1>7. CASE CheckCurrent(w)
  <2>1. /\ pc[w] = "check" /\ hash' = hash
        /\ \/ pc'[w] \in {"idle", "payout"}
           \/ pc'[w] = "insert" /\ since' = since /\ map'[w].price = NoPrice
    BY <1>7 DEF CheckCurrent, PayoutOrStop, Stop, Goto, stateVars
  <2> QED
    BY <1>1, <1>2, <1>3, <2>1, RoundKeep DEF Busy, Holding, Creating, HashInv
<1>8. CASE SubmitPayouts(w) \/ Crash(w)
  <2>1. pc'[w] = "idle" /\ hash' = hash
    BY <1>8 DEF SubmitPayouts, Crash, Stop, stateVars
  <2> QED
    BY <1>1, <1>2, <1>3, <2>1, RoundKeep DEF Busy, Holding, Creating, HashInv
<1> QED
  BY <1>4, <1>5, <1>6, <1>7, <1>8

\* A task reads a period that is due.
LEMMA RoundOfPoll ==
  ASSUME TypeInv, RoundInv, UNCHANGED betVars, NEW w \in Workers, Poll(w)
  PROVE  RoundInv'
<1> USE DEF TypeInv, TypeOK, StateTypeOK, DrawTypeOK
<1>1. Alone(w) /\ UNCHANGED <<clock, hash, lastPeriod, tag>>
  BY WorkerAlone DEF Poll, stateVars
<1>2. hash # NoMap
  BY DEF RoundInv, HashInv, NoMap, Period
<1>3. \/ pc'[w] = "idle"
      \/ pc'[w] = "tag" /\ since'[w] = clock /\ map'[w] = hash /\ Due(hash)
  BY <1>2 DEF Poll, Goto
<1>4. WorkerInv(w)'
  <2>1. CASE pc'[w] = "idle"
    BY <2>1 DEF WorkerInv, Busy, Holding, Creating
  <2>2. CASE pc'[w] = "tag" /\ since'[w] = clock /\ map'[w] = hash /\ Due(hash)
    <3>1. hash.id \in Nat /\ hash.start \in Nat
      BY DEF PeriodMap
    <3>2. HashInv /\ DrawStart(hash) <= clock
      BY <2>2, <3>1 DEF RoundInv, Due, DrawStart
    <3> QED
      BY <1>1, <2>2, <3>1, <3>2 DEF WorkerInv, Busy, Holding, Creating, HashInv, Fit, DrawStart
  <2> QED
    BY <1>3, <2>1, <2>2
<1>5. \A v \in Workers \ {w} : WorkerInv(v)' /\ (Busy(v)' <=> Busy(v))
  BY <1>1, OthersKeep
<1>6. OneBusy'
  BY <1>3, <1>5 DEF RoundInv, OneBusy, Busy
<1> QED
  BY <1>1, <1>4, <1>5, <1>6, WindowKeep DEF RoundInv, HashInv, Fit

\* The tag of a period that is no longer current is still live.
LEMMA RoundOfAcquireTag ==
  ASSUME TypeInv, TagInv, RoundInv, UNCHANGED betVars, NEW w \in Workers, AcquireTag(w)
  PROVE  RoundInv'
<1> USE DEF TypeInv, TypeOK, StateTypeOK, DrawTypeOK
<1>1. Alone(w) /\ UNCHANGED <<clock, hash, lastPeriod>>
  BY WorkerAlone DEF WorkerStep, AcquireTag, stateVars
<1>2. /\ pc[w] = "tag" /\ WorkerInv(w) /\ HashInv
      /\ since[w] \in Nat /\ since[w] <= clock /\ clock <= since[w] + MaxJob
  BY DEF AcquireTag, RoundInv, TagInv
<1>3. CASE TagLive(map[w].id)
  <2>1. pc'[w] = "idle" /\ UNCHANGED tag
    BY <1>3 DEF AcquireTag, Stop
  <2> QED
    BY <1>1, <1>2, <2>1, RoundKeep DEF Busy, Holding, Creating, HashInv
<1>4. CASE ~TagLive(map[w].id)
  <2>1. /\ pc'[w] = "price" /\ since' = since /\ map' = map
        /\ tag' = [tag EXCEPT ![map[w].id] = clock + TagTTL]
    BY <1>4 DEF AcquireTag, Goto
  <2>2. map[w].id \in Period /\ tag[map[w].id] \in Nat /\ tag[map[w].id] <= clock
    BY <1>2, <1>4 DEF WorkerInv, Holding, TagLive
  <2>3. map[w].id = hash.id
    BY <1>2, <2>2 DEF WorkerInv
  <2>4. ASSUME NEW v \in Workers, Busy(v) PROVE FALSE
    <3>1. tag[hash.id] >= since[v] + TagTTL
      BY <2>4 DEF RoundInv, WorkerInv
    <3>2. clock <= since[v] + MaxJob /\ since[v] \in Nat
      BY <2>4 DEF TagInv, Busy
    <3> QED
      BY <2>2, <2>3, <3>1, <3>2, TagOutlivesJob
  <2>5. \A v \in Workers \ {w} : WorkerInv(v)' /\ (Busy(v)' <=> Busy(v))
    BY <1>1, <2>1, <2>2, <2>3, <2>4, OthersKeep
  <2>6. WorkerInv(w)'
    <3>1. Due(hash)'
      BY <1>1, <1>2, <2>3 DEF WorkerInv, Holding, Due, DrawStart, PeriodMap
    <3>2. tag'[hash.id] = clock + TagTTL
      BY <2>1, <2>2, <2>3
    <3> QED
      BY <1>1, <1>2, <2>1, <2>3, <3>1, <3>2 DEF WorkerInv, Busy, Holding, Creating, Fit, DrawStart
  <2>7. OneBusy'
    BY <2>4, <2>5 DEF OneBusy
  <2> QED
    BY <1>1, <1>2, <2>5, <2>6, <2>7, WindowKeep DEF RoundInv, HashInv, Fit
<1> QED
  BY <1>3, <1>4

\* A draw that fails gives up the tag of the current period.
LEMMA RoundOfDrawFails ==
  ASSUME TypeInv, RoundInv, UNCHANGED betVars, NEW w \in Workers, DrawFails(w)
  PROVE  RoundInv'
<1> USE DEF TypeInv, TypeOK, StateTypeOK, DrawTypeOK
<1>1. Alone(w) /\ UNCHANGED <<clock, hash, lastPeriod>>
  BY WorkerAlone DEF DrawFails, stateVars
<1>2. Busy(w) /\ Holding(w) /\ WorkerInv(w) /\ HashInv
  BY DEF DrawFails, Drawing, Busy, Holding, RoundInv
<1>3. map[w].id = hash.id /\ tag' = [tag EXCEPT ![hash.id] = 0] /\ pc'[w] = "idle"
  BY <1>2 DEF WorkerInv, DrawFails, Stop
<1>4. \A v \in Workers \ {w} : ~Busy(v)
  BY <1>2 DEF RoundInv, OneBusy
<1>5. \A v \in Workers \ {w} : WorkerInv(v)' /\ (Busy(v)' <=> Busy(v))
  BY <1>1, <1>3, <1>4, OthersKeep DEF HashInv
<1>6. WorkerInv(w)' /\ OneBusy'
  BY <1>3, <1>4, <1>5 DEF WorkerInv, Busy, Holding, Creating, OneBusy
<1> QED
  BY <1>1, <1>2, <1>5, <1>6, WindowKeep DEF RoundInv, HashInv, Fit

\* The period created is a later one.
LEMMA RoundOfInsertPeriod ==
  ASSUME TypeInv, RoundInv, UNCHANGED betVars, NEW w \in Workers, InsertPeriod(w)
  PROVE  RoundInv'
<1> USE DEF TypeInv, TypeOK, StateTypeOK, DrawTypeOK
<1>1. Alone(w) /\ UNCHANGED <<clock, hash, tag, since>> /\ lastPeriod' = lastPeriod + 1
  BY WorkerAlone DEF WorkerStep, InsertPeriod
<1>2. pc[w] = "insert" /\ pc'[w] = "put" /\ WorkerInv(w) /\ HashInv
  BY DEF InsertPeriod, Goto, RoundInv
<1>3. map'[w].id = lastPeriod + 1 /\ map'[w].price = map[w].price
  BY DEF InsertPeriod, PeriodMap
<1>4. \A v \in Workers \ {w} : WorkerInv(v)' /\ (Busy(v)' <=> Busy(v))
  BY <1>1, OthersKeep
<1>5. WorkerInv(w)'
  <2>1. Due(hash)'
    BY <1>1, <1>2 DEF WorkerInv, Busy, Due, DrawStart
  <2> QED
    BY <1>1, <1>2, <1>3, <2>1 DEF WorkerInv, Busy, Holding, Creating, HashInv, Period
<1>6. OneBusy'
  BY <1>2, <1>4 DEF RoundInv, OneBusy, Busy
<1> QED
  BY <1>1, <1>2, <1>4, <1>5, <1>6, WindowKeep DEF RoundInv, HashInv, Fit, Period

\* When the next period takes over, whoever still holds the old one read it while
\* the tag had more than MaxJob seconds to live.
LEMMA RoundOfPutCurrent ==
  ASSUME TypeInv, LockInv, TagInv, RoundInv, UNCHANGED betVars, NEW w \in Workers,
         PutCurrent(w)
  PROVE  RoundInv'
<1> USE DEF TypeInv, TypeOK, StateTypeOK, DrawTypeOK
<1>1. Alone(w) /\ UNCHANGED <<clock, lastPeriod, tag>> /\ hash' = map[w]
  BY WorkerAlone DEF WorkerStep, PutCurrent
<1>2. pc[w] = "put" /\ pc'[w] \in {"idle", "payout"} /\ WorkerInv(w) /\ HashInv
  BY DEF PutCurrent, PayoutOrStop, Stop, Goto, RoundInv
<1>3. /\ hash.id < hash'.id /\ hash'.id <= lastPeriod /\ hash'.price = NoPrice
      /\ tag[hash.id] >= since[w] + TagTTL /\ Due(hash)
  BY <1>1, <1>2 DEF WorkerInv, Busy, Creating
<1>4. HashInv'
  BY <1>1, <1>2, <1>3 DEF HashInv, Fit, Period, PeriodMap
<1>5. \A v \in Workers \ {w} : ~Busy(v)
  BY <1>2 DEF RoundInv, OneBusy, Busy
<1>6. ASSUME NEW v \in Workers \ {w}
      PROVE  WorkerInv(v)' /\ ~Busy(v)'
  <2>1. pc'[v] = pc[v] /\ since'[v] = since[v] /\ map'[v] = map[v]
    BY <1>1 DEF Alone
  <2>2. WorkerInv(v) /\ ~Busy(v) /\ since[v] \in Nat /\ since[w] \in Nat
        /\ map[v].id \in Nat /\ tag \in [Period -> Nat]
    BY <1>5 DEF RoundInv, PeriodMap
  <2>3. CASE pc[v] = "tag"
    <3>1. map[v].id \in Period /\ map[v].id <= hash.id
      BY <2>2, <2>3 DEF WorkerInv, Holding
    <3>2. since[v] <= clock /\ clock <= since[w] + MaxJob
      BY <1>2, <2>3 DEF TagInv
    <3>3. tag[map[v].id] > since[v] + MaxJob
      BY <1>3, <2>2, <2>3, <3>1, <3>2, TagOutlivesTwoJobs DEF WorkerInv
    <3>4. map[v].id < hash'.id /\ hash'.id \in Nat
      BY <1>1, <1>3, <2>2, <3>1 DEF PeriodMap, Period
    <3>5. Fit(map[v]) /\ DrawStart(map[v]) <= since[v]
      BY <2>2, <2>3 DEF WorkerInv, Holding
    <3>6. UNCHANGED tag
      BY <1>1
    <3> QED
      BY <2>1, <2>2, <2>3, <3>1, <3>3, <3>4, <3>5, <3>6 DEF WorkerInv, Busy, Holding, Creating,
         Fit, DrawStart
  <2>4. CASE pc[v] # "tag"
    BY <2>1, <2>2, <2>4 DEF WorkerInv, Busy, Holding, Creating
  <2> QED
    BY <2>3, <2>4
<1>7. WorkerInv(w)' /\ ~Busy(w)'
  BY <1>2 DEF WorkerInv, Busy, Holding, Creating
<1>8. WindowInv'
  <2>1. \A r \in Requests : ~InWindow(r)
    BY <1>3, DueIsQuiet
  <2> QED
    BY <1>1, <2>1 DEF RoundInv, WindowInv, InWindow, Locked, betVars
<1> QED
  BY <1>4, <1>6, <1>7, <1>8 DEF RoundInv, OneBusy

\* The draw scheduler as a whole.
LEMMA RoundOfDraw ==
  ASSUME TypeInv, LockInv, TagInv, RoundInv, DrawNext, UNCHANGED betVars
  PROVE  RoundInv'
<1>1. CASE JobLockExpires \/ \E g \in SUBSET Bets : PayGroup(g) \/ DropGroup(g)
  <2>1. UNCHANGED <<clock, hash, lastPeriod, tag, pc, since, map>>
    BY <1>1 DEF JobLockExpires, PayGroup, DropGroup, stateVars
  <2> QED
    BY <2>1, WindowKeep DEF RoundInv, HashInv, Fit, OneBusy, WorkerInv, Busy, Holding, Creating,
       Due, DrawStart
<1> QED
  BY <1>1, RoundOfQuietSteps, RoundOfPoll, RoundOfAcquireTag, RoundOfDrawFails,
     RoundOfInsertPeriod, RoundOfPutCurrent DEF DrawNext, WorkerStep

\* Time.
LEMMA RoundOfTime ==
  ASSUME TypeInv, RoundInv, Tick \/ TagsLapse \/ UNCHANGED vars
  PROVE  RoundInv'
<1>1. UNCHANGED <<hash, lastPeriod, pc, since, map, rpc, asked, got>>
  BY DEF Tick, TagsLapse, vars, stateVars, betVars, drawVars
<1>2. clock' >= clock /\ clock \in Nat /\ clock' \in Nat
  BY DEF Tick, TagsLapse, vars, stateVars, TypeInv, TypeOK, StateTypeOK
<1>3. hash.start \in Nat /\ got \in [Requests -> Nat]
  BY DEF TypeInv, TypeOK, StateTypeOK, BetTypeOK, PeriodMap
<1>4. WindowInv'
  BY <1>1, <1>2, <1>3 DEF RoundInv, WindowInv, Locked, InWindow, BetLast
<1>5. HashInv' /\ OneBusy'
  BY <1>1 DEF RoundInv, HashInv, Fit, OneBusy, Busy
<1>6. ASSUME NEW w \in Workers PROVE WorkerInv(w)'
  <2>1. WorkerInv(w) /\ (Due(hash) => Due(hash)')
    BY <1>1, <1>2, <1>3 DEF RoundInv, Due, DrawStart
  <2>2. CASE pc[w] = "idle"
    BY <1>1, <2>2 DEF WorkerInv, Busy, Holding, Creating
  <2>3. CASE UNCHANGED tag
    BY <1>1, <2>1, <2>3 DEF WorkerInv, Busy, Holding, Creating, Fit, DrawStart
  <2> QED
    BY <2>2, <2>3 DEF Tick, TagsLapse, vars, drawVars
<1> QED
  BY <1>4, <1>5, <1>6 DEF RoundInv

\* A step of one request: it enters the window test with the clock it got the lock
\* at, and passes it in the window of the current period.
LEMMA WindowStay ==
  ASSUME TypeInv, RoundInv, NEW s \in Requests, UNCHANGED <<clock, hash>>,
         \A r \in Requests \ {s} : /\ rpc'[r] = rpc[r] /\ asked'[r] = asked[r]
                                   /\ got'[r] = got[r],
         Locked(s)' => got'[s] <= clock,
         InWindow(s)' => /\ InWindow(s) \/ (Locked(s) /\ InBetWindow(asked[s]))
                         /\ asked'[s] = asked[s] /\ got'[s] = got[s]
  PROVE  WindowInv'
<1>1. \A r \in Requests : Locked(r)' => got'[r] <= clock
  BY DEF RoundInv, WindowInv, Locked
<1>2. ASSUME NEW r \in Requests, InWindow(r)'
      PROVE  asked'[r] = hash.id /\ got'[r] <= BetLast(hash)
  <2>1. CASE InWindow(r)
    BY <1>2, <2>1 DEF RoundInv, WindowInv, InWindow
  <2>2. CASE ~InWindow(r)
    <3>1. r = s /\ Locked(s) /\ InBetWindow(asked[s])
      BY <1>2, <2>2 DEF InWindow
    <3>2. got[s] <= clock /\ clock <= BetLast(hash) /\ asked[s] = hash.id
      BY <3>1 DEF RoundInv, WindowInv, InBetWindow
    <3>3. got[s] \in Nat /\ clock \in Nat /\ hash.start \in Nat
      BY DEF TypeInv, TypeOK, BetTypeOK, StateTypeOK, PeriodMap
    <3> QED
      BY <1>2, <3>1, <3>2, <3>3 DEF BetLast
  <2> QED
    BY <2>1, <2>2
<1> QED
  BY <1>1, <1>2 DEF WindowInv, BetLast

\* Requests.
LEMMA RoundOfRequests ==
  ASSUME TypeInv, RoundInv, BetNext, UNCHANGED drawVars
  PROVE  RoundInv'
<1> USE DEF TypeInv, TypeOK, BetTypeOK
<1>1. UNCHANGED <<clock, hash, lastPeriod>>
  BY DEF BetNext, Submit, After, Cleanup, Dies, BetStep, BetWindow, BetOnce, BetPay, BetCommit,
         CancelStep, CancelWindow, CancelLoad, CancelRefund, CancelCommit, stateVars
<1>2. ASSUME NEW s \in Requests, Submit(s) PROVE WindowInv'
  <2>1. \A r \in Requests \ {s} : /\ rpc'[r] = rpc[r] /\ asked'[r] = asked[r]
                                  /\ got'[r] = got[r]
    BY <1>2 DEF Submit, Move, Keep
  <2>2. ~InWindow(s)' /\ (Locked(s)' => got'[s] = clock)
    BY <1>2 DEF Submit, Move, Keep, InWindow, Locked
  <2> QED
    BY <1>1, <2>1, <2>2, WindowStay DEF StateTypeOK
<1>3. ASSUME NEW s \in Requests, After(s) \/ Cleanup(s) \/ Dies(s) PROVE WindowInv'
  <2>1. \A r \in Requests \ {s} : /\ rpc'[r] = rpc[r] /\ asked'[r] = asked[r]
                                  /\ got'[r] = got[r]
    BY <1>3 DEF After, Cleanup, Dies, Move
  <2>2. ~InWindow(s)' /\ ~Locked(s)'
    BY <1>3 DEF After, Cleanup, Dies, Move, InWindow, Locked
  <2> QED
    BY <1>1, <2>1, <2>2, WindowStay
<1>4. ASSUME NEW s \in Bets, BetStep(s) PROVE WindowInv'
  <2>0. s \in Requests /\ Locked(s)
    BY <1>4 DEF Requests, BetStep, BetWindow, BetOnce, BetPay, BetCommit, Locked
  <2>1. \A r \in Requests \ {s} : /\ rpc'[r] = rpc[r] /\ asked'[r] = asked[r]
                                  /\ got'[r] = got[r]
    BY <1>4, <2>0 DEF BetStep, BetWindow, BetOnce, BetPay, BetCommit, Move, Keep, Release
  <2>2. InWindow(s)' => /\ InWindow(s) \/ InBetWindow(asked[s])
                        /\ asked'[s] = asked[s] /\ got'[s] = got[s]
    BY <1>4, <2>0 DEF BetStep, BetWindow, BetOnce, BetPay, BetCommit, Move, Keep, InWindow
  <2>3. Locked(s)' => got'[s] = got[s]
    BY <1>4, <2>0 DEF BetStep, BetWindow, BetOnce, BetPay, BetCommit, Move, Keep, Locked
  <2>4. Locked(s)' => got'[s] <= clock
    BY <2>0, <2>3 DEF RoundInv, WindowInv
  <2> QED
    BY <1>1, <2>0, <2>1, <2>2, <2>4, WindowStay
<1>5. ASSUME NEW s \in Cancels, CancelStep(s) PROVE WindowInv'
  <2>0. s \in Requests /\ Locked(s)
    BY <1>5 DEF Requests, CancelStep, CancelWindow, CancelLoad, CancelRefund, CancelCommit, Locked
  <2>1. \A r \in Requests \ {s} : /\ rpc'[r] = rpc[r] /\ asked'[r] = asked[r]
                                  /\ got'[r] = got[r]
    BY <1>5, <2>0 DEF CancelStep, CancelWindow, CancelLoad, CancelRefund, CancelCommit, Move,
       Keep, Release
  <2>2. InWindow(s)' => /\ InWindow(s) \/ InBetWindow(asked[s])
                        /\ asked'[s] = asked[s] /\ got'[s] = got[s]
    BY <1>5, <2>0 DEF CancelStep, CancelWindow, CancelLoad, CancelRefund, CancelCommit, Move,
       Keep, InWindow
  <2>3. Locked(s)' => got'[s] = got[s]
    BY <1>5, <2>0 DEF CancelStep, CancelWindow, CancelLoad, CancelRefund, CancelCommit, Move,
       Keep, Locked
  <2>4. Locked(s)' => got'[s] <= clock
    BY <2>0, <2>3 DEF RoundInv, WindowInv
  <2> QED
    BY <1>1, <2>0, <2>1, <2>2, <2>4, WindowStay
<1>6. WindowInv'
  BY <1>2, <1>3, <1>4, <1>5 DEF BetNext
<1>7. HashInv' /\ OneBusy' /\ \A w \in Workers : WorkerInv(w)'
  BY <1>1 DEF drawVars, RoundInv, HashInv, Fit, OneBusy, WorkerInv, Busy, Holding, Creating, Due,
     DrawStart
<1> QED
  BY <1>6, <1>7 DEF RoundInv

LEMMA RoundStep == GameInv /\ RoundInv /\ [Next]_vars => RoundInv'
  BY RoundOfRequests, RoundOfDraw, RoundOfTime DEF Next, GameInv, DrawInv

LEMMA RoundInvAlways == Spec => [](GameInv /\ RoundInv)
<1>1. Init => GameInv
  BY TypeInit, LockInit, DrawInit0 DEF AnyInit, GameInv
<1> QED
  BY <1>1, RoundInit, GameStep, RoundStep, PTL DEF Spec

\* Three statements of a task write the hash.
LEMMA HashWriters ==
  ASSUME [Next]_vars
  PROVE  \/ UNCHANGED hash
         \/ \E w \in Workers : FetchPrice(w) \/ UpdateCurrent(w) \/ PutCurrent(w)
<1>1. CASE BetNext
  BY <1>1 DEF BetNext, Submit, After, Cleanup, Dies, BetStep, BetWindow, BetOnce, BetPay,
     BetCommit, CancelStep, CancelWindow, CancelLoad, CancelRefund, CancelCommit, stateVars
<1>2. CASE DrawNext
  <2>1. ASSUME NEW w \in Workers,
               \/ Poll(w) \/ AcquireTag(w) \/ DrawFails(w) \/ SelectBets(w) \/ CommitDraw(w)
               \/ PublishHistory(w) \/ CheckCurrent(w) \/ InsertPeriod(w)
               \/ SubmitPayouts(w) \/ Crash(w)
        PROVE  UNCHANGED hash
    BY <2>1 DEF Poll, AcquireTag, DrawFails, SelectBets, CommitDraw, PublishHistory,
       CheckCurrent, InsertPeriod, SubmitPayouts, Crash, stateVars
  <2>2. JobLockExpires \/ (\E g \in SUBSET Bets : PayGroup(g) \/ DropGroup(g))
          => UNCHANGED hash
    BY DEF JobLockExpires, PayGroup, DropGroup, stateVars
  <2> QED
    BY <1>2, <2>1, <2>2 DEF DrawNext, WorkerStep
<1> QED
  BY <1>1, <1>2 DEF Next, Tick, TagsLapse, vars, stateVars

\* They change its id only to a later one.
LEMMA ForwardStep ==
  ASSUME GameInv, RoundInv, [Next]_vars
  PROVE  hash' = hash \/ hash'.id >= hash.id
<1>0. hash \in PeriodMap /\ hash.id \in Nat
  BY DEF GameInv, TypeInv, TypeOK, StateTypeOK, PeriodMap
<1>1. ASSUME NEW w \in Workers, FetchPrice(w) PROVE hash'.id = hash.id
  BY <1>0, <1>1 DEF FetchPrice, PeriodMap
<1>2. ASSUME NEW w \in Workers, UpdateCurrent(w) PROVE hash'.id = hash.id
  BY <1>2 DEF UpdateCurrent, RoundInv, WorkerInv, Busy, Holding
<1>3. ASSUME NEW w \in Workers, PutCurrent(w) PROVE hash'.id >= hash.id
  <2>1. map[w].id \in Nat
    BY DEF GameInv, TypeInv, TypeOK, DrawTypeOK, PeriodMap
  <2> QED
    BY <1>0, <1>3, <2>1 DEF PutCurrent, RoundInv, WorkerInv
<1> QED
  BY <1>0, <1>1, <1>2, <1>3, HashWriters

\* The current period never goes back, though updateCurrentPeriod writes a map read
\* before the draw: CoinDrawTask's tag keeps out a task that read the period just
\* before its successor was created, if a task takes less than half the tag's life.
THEOREM CurrentIsTheLatest == Spec => CurrentNeverGoesBack
<1>1. GameInv /\ RoundInv /\ [Next]_vars => [hash'.id >= hash.id]_hash
  BY ForwardStep
<1> QED
  BY <1>1, RoundInvAlways, PTL DEF Spec, CurrentNeverGoesBack

(***************************************************************************)
(* Bets.  A bet in play is in the current period, a draw takes all of them *)
(* at once, and a drawn period gets no more.                               *)
(***************************************************************************)

HasValue(p) == periods[p].value # NoPrice

\* From the commit of the draw until the next period is in the hash.
Drawn(w) == pc[w] \in {"history", "current", "check", "insert", "put"}

PlayInv ==
  /\ NoBetLeftBehind
  /\ \A w \in Workers : pc[w] = "commit" =>
       \A b \in Bets : b \in batch[w] <=> bet[b].status = "BET_DONE"
  /\ \A w \in Workers : Drawn(w) => HasValue(hash.id)
  /\ HasValue(hash.id) => Due(hash) /\ \A b \in Bets : bet[b].status # "BET_DONE"
  /\ \A p \in Period : p > hash.id => ~HasValue(p)
  /\ \A b \in Bets : settled[b] > 0 => bet[b].period \in Period /\ HasValue(bet[b].period)

\* A draw result is not the empty one.
LEMMA PriceIsReal == \A r \in Price : r # NoPrice
  BY DEF Price, NoPrice, Period

LEMMA PlayInit == Init => PlayInv
  BY DEF Init, StateInit, DrawInit, PlayInv, NoBetLeftBehind, NoBet, HasValue, NoRow, Drawn, Period

\* The two ways a request writes game_bet: its bet is committed, or a bet cancelled.
Placed(b) ==
  /\ rpc[b] \in {"paid", "declined"}
  /\ \E s \in {"BET_DONE", "BET_FAILED"} :
       bet' = [bet EXCEPT ![b] = [status |-> s, period |-> hash.id]]
TakenBack(c) ==
  /\ rpc[c] = "refunded"
  /\ bet' = [bet EXCEPT ![TargetOf[c]] = [bet[TargetOf[c]] EXCEPT !.status = "CANCEL"]]

\* Either happens before the period is due.
LEMMA BetWriters ==
  ASSUME GameInv, RoundInv, BetNext
  PROVE  \/ UNCHANGED bet
         \/ ~Due(hash) /\ \E b \in Bets : Placed(b)
         \/ ~Due(hash) /\ \E c \in Cancels : TakenBack(c)
<1>1. ASSUME NEW r \in Requests, Submit(r) \/ After(r) \/ Cleanup(r) \/ Dies(r)
      PROVE  UNCHANGED bet
  BY <1>1 DEF Submit, After, Cleanup, Dies, stateVars
<1>2. ASSUME NEW b \in Bets, BetStep(b), bet' # bet
      PROVE  ~Due(hash) /\ Placed(b)
  <2>1. BetCommit(b) /\ rpc[b] \in {"paid", "declined"}
    BY <1>2 DEF BetStep, BetWindow, BetOnce, BetPay, BetCommit, stateVars
  <2>2. b \in Requests /\ InWindow(b)
    BY <2>1 DEF Requests, InWindow
  <2>3. asked[b] = hash.id
    BY <2>2 DEF RoundInv, WindowInv
  <2>4. ~Due(hash)
    BY <2>2, DueIsQuiet DEF GameInv
  <2> QED
    BY <1>2, <2>1, <2>3, <2>4 DEF BetCommit, Placed
<1>3. ASSUME NEW c \in Cancels, CancelStep(c), bet' # bet
      PROVE  ~Due(hash) /\ TakenBack(c)
  <2>1. CancelCommit(c) /\ rpc[c] = "refunded"
    BY <1>3 DEF CancelStep, CancelWindow, CancelLoad, CancelRefund, CancelCommit, stateVars
  <2>2. c \in Requests /\ InWindow(c)
    BY <2>1 DEF Requests, InWindow
  <2>3. ~Due(hash)
    BY <2>2, DueIsQuiet DEF GameInv
  <2> QED
    BY <1>3, <2>1, <2>3 DEF CancelCommit, TakenBack
<1> QED
  BY <1>1, <1>2, <1>3 DEF BetNext

\* What they do to one row.
LEMMA BetOfRequests ==
  ASSUME GameInv, RoundInv, BetNext, NEW b \in Bets
  PROVE  \/ bet'[b] = bet[b]
         \/ /\ ~Due(hash) /\ Open(b) /\ rpc[b] \in {"paid", "declined"}
            /\ bet'[b].period = hash.id /\ bet'[b].status \in {"BET_DONE", "BET_FAILED"}
         \/ /\ ~Due(hash) /\ bet'[b].period = bet[b].period /\ bet'[b].status = "CANCEL"
            /\ \E c \in Cancels : rpc[c] = "refunded" /\ TargetOf[c] = b
<1>1. bet \in [Bets -> BetRow]
  BY DEF GameInv, TypeInv, TypeOK, StateTypeOK
<1>2. ASSUME ~Due(hash), NEW a \in Bets, Placed(a)
      PROVE  \/ bet'[b] = bet[b]
             \/ /\ ~Due(hash) /\ Open(b) /\ rpc[b] \in {"paid", "declined"}
                /\ bet'[b].period = hash.id /\ bet'[b].status \in {"BET_DONE", "BET_FAILED"}
  <2>1. PICK s \in {"BET_DONE", "BET_FAILED"} :
          bet' = [bet EXCEPT ![a] = [status |-> s, period |-> hash.id]]
    BY <1>2 DEF Placed
  <2> QED
    BY <1>1, <1>2, <2>1 DEF Placed, Open
<1>3. ASSUME ~Due(hash), NEW c \in Cancels, TakenBack(c)
      PROVE  \/ bet'[b] = bet[b]
             \/ /\ ~Due(hash) /\ bet'[b].period = bet[b].period /\ bet'[b].status = "CANCEL"
                /\ rpc[c] = "refunded" /\ TargetOf[c] = b
  <2>1. \A row \in BetRow : /\ [row EXCEPT !.status = "CANCEL"].period = row.period
                            /\ [row EXCEPT !.status = "CANCEL"].status = "CANCEL"
    BY DEF BetRow
  <2> QED
    BY <1>1, <1>3, <2>1 DEF TakenBack
<1> QED
  BY <1>2, <1>3, BetWriters

\* Requests place bets in the current period only, and none once it is due.
LEMMA PlayOfRequests ==
  ASSUME GameInv, RoundInv, PlayInv, BetNext, UNCHANGED drawVars
  PROVE  PlayInv'
<1>1. UNCHANGED <<clock, hash, periods, lastPeriod>>
  BY DEF BetNext, Submit, After, Cleanup, Dies, BetStep, BetWindow, BetOnce, BetPay, BetCommit,
         CancelStep, CancelWindow, CancelLoad, CancelRefund, CancelCommit, stateVars
<1>2. UNCHANGED <<pc, batch, settled>>
  BY DEF drawVars
<1>3. \A b \in Bets : settled[b] > 0 => ~Open(b)
  <2>1. \A b \in Bets : Open(b) => bet[b].period = 0
    BY DEF GameInv, DrawInv, RowInv
  <2> QED
    BY <2>1 DEF GameInv, DrawInv, RowInv
<1>4. \A b \in Bets : settled[b] > 0 => bet'[b].period = bet[b].period
  BY <1>3, BetOfRequests
<1>5. \A b \in Bets : bet'[b].status = "BET_DONE" =>
        bet'[b].period = hash.id /\ (Due(hash) => bet[b].status = "BET_DONE")
  BY BetOfRequests DEF PlayInv, NoBetLeftBehind
<1>6. Due(hash) => \A b \in Bets : bet'[b] = bet[b]
  BY BetOfRequests
<1>7. \A w \in Workers : pc[w] = "commit" => Due(hash)
  BY DEF RoundInv, WorkerInv, Busy
<1> QED
  BY <1>1, <1>2, <1>4, <1>5, <1>6, <1>7 DEF PlayInv, NoBetLeftBehind, Drawn, HasValue, Due,
     DrawStart

\* A step of a task that writes neither table, nor the id and start of the period.
LEMMA PlayKeep ==
  ASSUME PlayInv, NEW w \in Workers, Alone(w), UNCHANGED <<bet, periods, settled>>,
         hash'.id = hash.id, hash'.start = hash.start,
         pc'[w] = "commit" => \A b \in Bets : b \in batch'[w] <=> bet[b].status = "BET_DONE",
         Drawn(w)' => Drawn(w)
  PROVE  PlayInv'
<1>1. \A v \in Workers \ {w} : pc'[v] = pc[v] /\ batch'[v] = batch[v]
  BY DEF Alone
<1>2. \A v \in Workers : Drawn(v)' => Drawn(v)
  BY <1>1 DEF Drawn
<1> QED
  BY <1>1, <1>2 DEF PlayInv, NoBetLeftBehind, HasValue, Due, DrawStart, Alone

\* The steps that do so.
LEMMA PlayOfQuietSteps ==
  ASSUME GameInv, RoundInv, PlayInv, NEW w \in Workers,
         \/ Poll(w) \/ AcquireTag(w) \/ FetchPrice(w) \/ SelectBets(w) \/ DrawFails(w)
         \/ PublishHistory(w) \/ UpdateCurrent(w) \/ CheckCurrent(w) \/ InsertPeriod(w)
         \/ SubmitPayouts(w) \/ Crash(w)
  PROVE  PlayInv'
<1> USE DEF TypeOK, StateTypeOK, DrawTypeOK
<1>0. Alone(w) /\ TypeOK
  BY WorkerAlone DEF WorkerStep, GameInv, TypeInv
<1>1. UNCHANGED <<bet, periods, settled>>
  BY DEF Poll, AcquireTag, FetchPrice, SelectBets, DrawFails, PublishHistory, UpdateCurrent,
     CheckCurrent, InsertPeriod, SubmitPayouts, Crash, stateVars
<1>2. hash'.id = hash.id /\ hash'.start = hash.start
  <2>1. CASE FetchPrice(w)
    BY <1>0, <2>1 DEF FetchPrice, PeriodMap
  <2>2. CASE UpdateCurrent(w)
    BY <2>2 DEF UpdateCurrent, RoundInv, WorkerInv, Busy, Holding
  <2> QED
    BY <2>1, <2>2 DEF Poll, AcquireTag, SelectBets, DrawFails, PublishHistory, CheckCurrent,
       InsertPeriod, SubmitPayouts, Crash, stateVars
<1>3. CASE SelectBets(w)
  <2>1. pc[w] = "select" /\ pc'[w] = "commit"
    BY <1>0, <1>3 DEF SelectBets, Goto
  <2>2. map[w].id = hash.id
    BY <2>1 DEF RoundInv, WorkerInv, Busy, Holding
  <2>3. \A b \in Bets : b \in batch'[w] <=> bet[b].status = "BET_DONE"
    BY <1>0, <1>3, <2>2 DEF SelectBets, PlayInv, NoBetLeftBehind
  <2> QED
    BY <1>0, <1>1, <1>2, <2>1, <2>3, PlayKeep DEF Drawn
<1>4. CASE ~SelectBets(w)
  <2>1. pc'[w] # "commit"
    BY <1>0, <1>4 DEF Poll, AcquireTag, FetchPrice, DrawFails, PublishHistory, UpdateCurrent,
       CheckCurrent, InsertPeriod, SubmitPayouts, Crash, Goto, Stop, PayoutOrStop
  <2>2. ASSUME PublishHistory(w) \/ UpdateCurrent(w) \/ CheckCurrent(w) \/ InsertPeriod(w)
        PROVE  Drawn(w)
    BY <2>2 DEF PublishHistory, UpdateCurrent, CheckCurrent, InsertPeriod, Drawn
  <2>3. ASSUME \/ AcquireTag(w) \/ FetchPrice(w) \/ DrawFails(w) \/ SubmitPayouts(w)
               \/ Crash(w)
        PROVE  ~Drawn(w)'
    BY <1>0, <2>3 DEF AcquireTag, FetchPrice, DrawFails, SubmitPayouts, Crash, Goto, Stop, Drawn
  <2>4. ASSUME Poll(w) PROVE ~Drawn(w)'
    <3>1. hash # NoMap
      BY DEF RoundInv, HashInv, NoMap, Period
    <3> QED
      BY <1>0, <2>4, <3>1 DEF Poll, Goto, Drawn
  <2> QED
    BY <1>0, <1>1, <1>2, <1>4, <2>1, <2>2, <2>3, <2>4, PlayKeep
<1> QED
  BY <1>3, <1>4

\* What the commit of a draw does to a row: the bets in play win or lose.
LEMMA BetOfCommit ==
  ASSUME GameInv, RoundInv, PlayInv, NEW w \in Workers, CommitDraw(w), NEW b \in Bets
  PROVE  \/ /\ bet[b].status = "BET_DONE" /\ b \in batch[w]
            /\ bet[b].period = hash.id /\ bet'[b].period = hash.id
            /\ bet'[b].status = IF b \in batch'[w] THEN "PAY_ING" ELSE "BOMB"
            /\ settled[b] = 0 /\ settled'[b] = 1 /\ paidAt'[b] = price[w]
         \/ /\ bet[b].status # "BET_DONE" /\ b \notin batch[w] /\ b \notin batch'[w]
            /\ bet'[b] = bet[b] /\ settled'[b] = settled[b] /\ paidAt'[b] = paidAt[b]
<1>0. TypeOK /\ pc[w] = "commit"
  BY DEF GameInv, TypeInv, CommitDraw
<1> USE <1>0 DEF TypeOK, StateTypeOK, DrawTypeOK
<1>1. b \in batch[w] <=> bet[b].status = "BET_DONE"
  BY DEF PlayInv
<1>2. \A row \in BetRow : \A s \in BetStatus :
        [row EXCEPT !.status = s].period = row.period /\ [row EXCEPT !.status = s].status = s
  BY DEF BetRow
<1>3. CASE b \in batch[w]
  <2>1. bet[b].period = hash.id /\ settled[b] = 0
    BY <1>1, <1>3 DEF PlayInv, NoBetLeftBehind, GameInv, DrawInv, BatchInv
  <2>2. batch'[w] = Winners(batch[w], price[w])
    BY DEF CommitDraw
  <2>3. bet'[b] = [bet[b] EXCEPT !.status = IF b \in batch'[w] THEN "PAY_ING" ELSE "BOMB"]
    BY <1>3, <2>2 DEF CommitDraw
  <2>4. settled'[b] = 1 /\ paidAt'[b] = price[w]
    BY <1>3, <2>1 DEF CommitDraw
  <2> QED
    BY <1>1, <1>2, <1>3, <2>1, <2>3, <2>4 DEF BetStatus
<1>4. CASE b \notin batch[w]
  BY <1>1, <1>4 DEF CommitDraw, Winners
<1> QED
  BY <1>3, <1>4

\* The draw of the current period.
LEMMA PlayOfCommit ==
  ASSUME GameInv, RoundInv, PlayInv, NEW w \in Workers, CommitDraw(w)
  PROVE  PlayInv'
<1>0. TypeOK /\ WorkerHolds /\ Alone(w) /\ pc[w] = "commit" /\ UNCHANGED hash
  BY WorkerAlone DEF GameInv, TypeInv, CommitDraw, WorkerStep
<1> USE <1>0 DEF TypeOK, StateTypeOK, DrawTypeOK
<1>1. map[w].id = hash.id /\ hash.id \in Period /\ Due(hash) /\ pc'[w] = "history"
  BY DEF RoundInv, WorkerInv, HashInv, Busy, Holding, CommitDraw, Goto
<1>2. HasValue(hash.id)' /\ \A p \in Period \ {hash.id} : HasValue(p)' <=> HasValue(p)
  <2>1. price[w] # NoPrice
    BY PriceIsReal DEF WorkerHolds, HasPrice
  <2> QED
    BY <1>1, <2>1 DEF CommitDraw, HasValue
<1>3. \A b \in Bets : bet'[b].status # "BET_DONE"
  BY BetOfCommit
<1>4. \A v \in Workers \ {w} : pc'[v] = pc[v] /\ pc[v] # "commit"
  BY DEF Alone, RoundInv, OneBusy, Busy
<1>5. \A b \in Bets : settled'[b] > 0 =>
        bet'[b].period \in Period /\ periods'[bet'[b].period].value # NoPrice
  BY <1>1, <1>2, BetOfCommit DEF PlayInv, HasValue
<1>6. \A p \in Period : p > hash.id => ~HasValue(p)'
  BY <1>1, <1>2 DEF PlayInv, Period
<1>7. Due(hash)'
  BY <1>1 DEF Alone, Due, DrawStart
<1> QED
  BY <1>1, <1>2, <1>3, <1>4, <1>5, <1>6, <1>7 DEF PlayInv, NoBetLeftBehind, HasValue, Drawn

\* The next period takes over when no bet is in play.
LEMMA PlayOfPutCurrent ==
  ASSUME GameInv, RoundInv, PlayInv, NEW w \in Workers, PutCurrent(w)
  PROVE  PlayInv'
<1>0. TypeOK /\ WorkerHolds /\ Alone(w) /\ pc[w] = "put" /\ UNCHANGED <<bet, periods, settled>>
  BY WorkerAlone DEF GameInv, TypeInv, PutCurrent, WorkerStep
<1> USE <1>0 DEF TypeOK, StateTypeOK, DrawTypeOK
<1>1. hash.id < hash'.id /\ hash'.id \in Period /\ hash.id \in Nat
  BY DEF RoundInv, WorkerInv, PutCurrent, WorkerHolds, PeriodMap
<1>2. pc'[w] \in {"idle", "payout"}
  BY DEF PutCurrent, PayoutOrStop, Stop, Goto
<1>3. \A v \in Workers : pc'[v] # "commit" /\ ~Drawn(v)'
  BY <1>2 DEF Alone, RoundInv, OneBusy, Busy, Drawn
<1>4. \A b \in Bets : bet[b].status # "BET_DONE"
  BY DEF PlayInv, Drawn
<1>5. ~HasValue(hash'.id)
  BY <1>1 DEF PlayInv
<1>6. \A p \in Period : p > hash'.id => ~HasValue(p)
  BY <1>1 DEF PlayInv, Period
<1> QED
  BY <1>3, <1>4, <1>5, <1>6 DEF PlayInv, NoBetLeftBehind, HasValue

\* What payout tasks do to a row: a settled bet moves on.
LEMMA BetOfQueue ==
  ASSUME GameInv, JobLockExpires \/ \E g \in SUBSET Bets : PayGroup(g) \/ DropGroup(g),
         NEW b \in Bets
  PROVE  \/ bet'[b] = bet[b]
         \/ /\ settled[b] > 0 /\ bet'[b].period = bet[b].period
            /\ bet'[b].status \in {"WT_DONE", "WT_FAILED"}
            /\ \E g \in queue : PayGroup(g) /\ b \in g
<1>1. CASE UNCHANGED bet
  BY <1>1
<1>2. ASSUME NEW g \in SUBSET Bets, PayGroup(g)
      PROVE  \/ bet'[b] = bet[b]
             \/ /\ settled[b] > 0 /\ bet'[b].period = bet[b].period
                /\ bet'[b].status \in {"WT_DONE", "WT_FAILED"}
                /\ g \in queue /\ b \in g
  <2>1. PICK outcome \in [g -> {"WT_DONE", "WT_FAILED", "silent"}] :
          bet' = [a \in Bets |-> IF a \in g /\ outcome[a] # "silent"
                                 THEN [bet[a] EXCEPT !.status = outcome[a]]
                                 ELSE bet[a]]
    BY <1>2 DEF PayGroup
  <2>2. CASE b \in g /\ outcome[b] # "silent"
    <3>1. settled[b] > 0 /\ g \in queue
      BY <1>2, <2>2 DEF PayGroup, GameInv, DrawInv, RowInv
    <3>2. bet[b] \in BetRow /\ outcome[b] \in {"WT_DONE", "WT_FAILED"}
      BY <2>2 DEF GameInv, TypeInv, TypeOK, StateTypeOK
    <3>3. bet'[b] = [bet[b] EXCEPT !.status = outcome[b]]
      BY <2>1, <2>2
    <3> QED
      BY <2>2, <3>1, <3>2, <3>3 DEF BetRow
  <2>3. CASE ~(b \in g /\ outcome[b] # "silent")
    BY <2>1, <2>3
  <2> QED
    BY <2>2, <2>3
<1> QED
  BY <1>1, <1>2 DEF JobLockExpires, DropGroup, stateVars

\* Nothing of this puts a bet back into play.
LEMMA PlayOfQueue ==
  ASSUME GameInv, PlayInv, JobLockExpires \/ \E g \in SUBSET Bets : PayGroup(g) \/ DropGroup(g)
  PROVE  PlayInv'
<1>1. UNCHANGED <<clock, hash, periods, pc, batch, settled>>
  BY DEF JobLockExpires, PayGroup, DropGroup, stateVars
<1>2. ASSUME NEW b \in Bets
      PROVE  /\ bet'[b].period = bet[b].period
             /\ bet'[b].status = "BET_DONE" <=> bet[b].status = "BET_DONE"
  <2>1. settled[b] > 0 => bet[b].status # "BET_DONE"
    BY DEF GameInv, DrawInv, RowInv
  <2> QED
    BY <2>1, BetOfQueue
<1> QED
  BY <1>1, <1>2 DEF PlayInv, NoBetLeftBehind, HasValue, Due, DrawStart, Drawn

LEMMA PlayStep == GameInv /\ RoundInv /\ PlayInv /\ [Next]_vars => PlayInv'
<1> SUFFICES ASSUME GameInv, RoundInv, PlayInv, [Next]_vars PROVE PlayInv'
  OBVIOUS
<1>1. CASE Tick \/ TagsLapse \/ UNCHANGED vars
  <2>1. UNCHANGED <<hash, periods, bet, pc, batch, settled>>
    BY <1>1 DEF Tick, TagsLapse, vars, stateVars, drawVars
  <2>2. Due(hash) => Due(hash)'
    <3>1. clock' >= clock /\ clock \in Nat /\ clock' \in Nat /\ hash.start \in Nat
      BY <1>1 DEF Tick, TagsLapse, vars, stateVars, GameInv, TypeInv, TypeOK, StateTypeOK,
         PeriodMap
    <3> QED
      BY <2>1, <3>1 DEF Due, DrawStart
  <2> QED
    BY <2>1, <2>2 DEF PlayInv, NoBetLeftBehind, HasValue, Drawn
<1>2. CASE BetNext /\ UNCHANGED drawVars
  BY <1>2, PlayOfRequests
<1>3. CASE DrawNext /\ UNCHANGED betVars
  BY <1>3, PlayOfQuietSteps, PlayOfCommit, PlayOfPutCurrent, PlayOfQueue
     DEF DrawNext, WorkerStep
<1> QED
  BY <1>1, <1>2, <1>3 DEF Next

\* No bet is left behind: a bet in play is in the current period. The window test
\* of CoinBetServiceImpl.bet lets none in that could commit after the draw read the
\* bets, and no period is replaced before its draw took all bets in play.
THEOREM NoneLeftBehind == Spec => []NoBetLeftBehind
<1>1. PlayInv => NoBetLeftBehind
  BY DEF PlayInv
<1> QED
  BY <1>1, RoundInvAlways, PlayInit, PlayStep, PTL DEF Spec

(***************************************************************************)
(* A bet is cancelled or settled, refunded or paid out, never both: once   *)
(* it is settled no cancel of it is under way.                             *)
(***************************************************************************)

CancelInv ==
  /\ CancelOrSettle
  /\ \A c \in Cancels : rpc[c] \in {"refund", "refunded", "refused"}
       => /\ settled[TargetOf[c]] = 0
          /\ bet[TargetOf[c]].status \in {"BET_DONE", "CANCEL"}
  /\ \A b \in refunded \ lost :
       \/ bet[b].status = "CANCEL"
       \/ \E c \in Cancels : rpc[c] = "refunded" /\ TargetOf[c] = b
  /\ \A b \in credited : settled[b] > 0

LEMMA CancelInit == Init => CancelInv
  BY DEF Init, StateInit, BetInit, DrawInit, CancelInv, CancelOrSettle, NoBet, Requests

\* What CancelInv says of a bet survives a step that settles only bets in play
\* which nobody is cancelling.
LEMMA CancelOfDraw ==
  ASSUME GameInv, CancelInv, UNCHANGED <<rpc, refunded, lost>>,
         settled' \in [Bets -> Nat],
         \A b \in Bets :
           \/ bet'[b] = bet[b] /\ settled'[b] = settled[b]
           \/ /\ settled[b] > 0 /\ settled'[b] = settled[b]
              /\ bet'[b].status \in {"WT_DONE", "WT_FAILED"}
           \/ /\ bet[b].status = "BET_DONE" /\ bet'[b].status \in {"PAY_ING", "BOMB"}
              /\ settled'[b] > 0
              /\ \A c \in Cancels : rpc[c] \notin {"refund", "refunded", "refused"},
         \A b \in credited' : b \in Bets /\ (b \in credited \/ settled[b] > 0)
  PROVE  CancelInv'
<1>1. ASSUME NEW b \in Bets, bet'[b].status = "CANCEL" PROVE settled'[b] = 0
  BY <1>1 DEF CancelInv, CancelOrSettle
<1>2. ASSUME NEW c \in Cancels, rpc'[c] \in {"refund", "refunded", "refused"}
      PROVE  /\ settled'[TargetOf[c]] = 0
             /\ bet'[TargetOf[c]].status \in {"BET_DONE", "CANCEL"}
  BY <1>2 DEF CancelInv
<1>3. ASSUME NEW b \in Bets, bet[b].status = "CANCEL" PROVE bet'[b].status = "CANCEL"
  BY <1>3 DEF CancelInv, CancelOrSettle
<1>4. \A b \in refunded : b \in Bets
  BY DEF GameInv, TypeInv, TypeOK, BetTypeOK
<1>5. \A b \in credited' : settled'[b] > 0
  BY DEF CancelInv
<1> QED
  BY <1>1, <1>2, <1>3, <1>4, <1>5 DEF CancelInv, CancelOrSettle

\* The draw scheduler settles bets when no cancel is under way.
LEMMA CancelOfScheduler ==
  ASSUME GameInv, RoundInv, PlayInv, CancelInv, DrawNext, UNCHANGED betVars, GameInv'
  PROVE  CancelInv'
<1>1. UNCHANGED <<rpc, refunded, lost>>
  BY DEF betVars
<1>2. settled \in [Bets -> Nat] /\ settled' \in [Bets -> Nat]
      /\ credited \subseteq Bets /\ credited' \subseteq Bets
  BY DEF GameInv, TypeInv, TypeOK, DrawTypeOK
<1>3. ASSUME NEW w \in Workers, CommitDraw(w) PROVE CancelInv'
  <2>1. \A c \in Cancels : rpc[c] \notin {"refund", "refunded", "refused"}
    <3>1. Due(hash)
      BY <1>3 DEF CommitDraw, RoundInv, WorkerInv, Busy
    <3> QED
      BY <3>1, DueIsQuiet DEF GameInv, Requests, InWindow
  <2>2. \A b \in Bets :
           \/ bet'[b] = bet[b] /\ settled'[b] = settled[b]
           \/ /\ bet[b].status = "BET_DONE" /\ bet'[b].status \in {"PAY_ING", "BOMB"}
              /\ settled'[b] > 0
    BY <1>3, BetOfCommit
  <2>3. credited' = credited
    BY <1>3 DEF CommitDraw
  <2> QED
    BY <1>1, <1>2, <2>1, <2>2, <2>3, CancelOfDraw
<1>4. CASE JobLockExpires \/ \E g \in SUBSET Bets : PayGroup(g) \/ DropGroup(g)
  <2>1. settled' = settled
    BY <1>4 DEF JobLockExpires, PayGroup, DropGroup
  <2>2. \A b \in credited' : b \in credited \/ settled[b] > 0
    BY <1>4 DEF JobLockExpires, PayGroup, DropGroup, GameInv, DrawInv, RowInv
  <2> QED
    BY <1>1, <1>2, <1>4, <2>1, <2>2, BetOfQueue, CancelOfDraw
<1>5. ASSUME NEW w \in Workers, Poll(w) \/ WorkerStep(w) \/ DrawFails(w) \/ Crash(w),
             ~CommitDraw(w)
      PROVE  CancelInv'
  <2>1. UNCHANGED <<bet, settled, credited>>
    BY <1>5 DEF Poll, WorkerStep, AcquireTag, FetchPrice, SelectBets, DrawFails,
       PublishHistory, UpdateCurrent, CheckCurrent, InsertPeriod, PutCurrent, SubmitPayouts,
       Crash, stateVars
  <2> QED
    BY <1>1, <1>2, <2>1, CancelOfDraw
<1> QED
  BY <1>3, <1>4, <1>5 DEF DrawNext

\* What requests other than cancels do to a cancel under way: end it.
LEMMA CancelOfOthers ==
  ASSUME GameInv, CancelInv, UNCHANGED <<settled, credited, refunded>>, NEW r \in Requests,
         \A s \in Requests \ {r} : rpc'[s] = rpc[s],
         rpc'[r] \notin {"refund", "refunded", "refused"},
         r \in Cancels /\ rpc[r] = "refunded" =>
           TargetOf[r] \in lost' \/ bet'[TargetOf[r]].status = "CANCEL",
         lost \subseteq lost',
         \A b \in Bets :
           \/ bet'[b] = bet[b]
           \/ Open(b) /\ bet'[b].status \in {"BET_DONE", "BET_FAILED"}
           \/ settled[b] = 0 /\ bet'[b].status = "CANCEL"
  PROVE  CancelInv'
<1>0. Cancels \subseteq Requests /\ refunded \subseteq Bets
  BY DEF Requests, GameInv, TypeInv, TypeOK, BetTypeOK
<1>1. ASSUME NEW b \in Bets, bet'[b].status = "CANCEL" PROVE settled[b] = 0
  BY <1>1 DEF CancelInv, CancelOrSettle
<1>2. ASSUME NEW c \in Cancels, rpc'[c] \in {"refund", "refunded", "refused"}
      PROVE  /\ settled[TargetOf[c]] = 0
             /\ bet'[TargetOf[c]].status \in {"BET_DONE", "CANCEL"}
  <2>1. rpc[c] \in {"refund", "refunded", "refused"}
    BY <1>0, <1>2
  <2>2. ~Open(TargetOf[c])
    BY <2>1 DEF GameInv, DrawInv, RowInv
  <2> QED
    BY <2>1, <2>2 DEF CancelInv
<1>3. ASSUME NEW b \in refunded \ lost'
      PROVE  \/ bet'[b].status = "CANCEL"
             \/ \E c \in Cancels : rpc'[c] = "refunded" /\ TargetOf[c] = b
  <2>1. CASE bet[b].status = "CANCEL"
    <3>1. ~Open(b)
      BY <1>0, <2>1 DEF GameInv, DrawInv, RowInv
    <3> QED
      BY <1>0, <1>3, <2>1, <3>1
  <2>2. ASSUME NEW c \in Cancels, rpc[c] = "refunded", TargetOf[c] = b
        PROVE  \/ bet'[b].status = "CANCEL"
               \/ \E d \in Cancels : rpc'[d] = "refunded" /\ TargetOf[d] = b
    BY <1>0, <1>3, <2>2
  <2> QED
    BY <1>3, <2>1, <2>2 DEF CancelInv
<1> QED
  BY <1>1, <1>2, <1>3 DEF CancelInv, CancelOrSettle

\* Requests cancel what is in play.
LEMMA CancelOfRequests ==
  ASSUME GameInv, RoundInv, CancelInv, BetNext, UNCHANGED drawVars
  PROVE  CancelInv'
<1>0. /\ UNCHANGED <<settled, credited>> /\ rpc \in [Requests -> RPC]
      /\ Bets \subseteq Requests /\ Cancels \subseteq Requests /\ refunded \subseteq Bets
  BY DEF drawVars, GameInv, TypeInv, TypeOK, BetTypeOK, Requests
<1>1. \A b \in Bets :
        \/ bet'[b] = bet[b]
        \/ Open(b) /\ bet'[b].status \in {"BET_DONE", "BET_FAILED"}
        \/ settled[b] = 0 /\ bet'[b].status = "CANCEL"
  BY BetOfRequests DEF CancelInv
<1>2. ASSUME NEW r \in Requests, Submit(r) \/ After(r) \/ Cleanup(r) \/ Dies(r)
      PROVE  CancelInv'
  <2>1. /\ \A s \in Requests \ {r} : rpc'[s] = rpc[s]
        /\ rpc'[r] \notin {"refund", "refunded", "refused"}
        /\ rpc[r] = "refunded" => TargetOf[r] \in lost'
        /\ lost \subseteq lost' /\ UNCHANGED refunded
    BY <1>0, <1>2 DEF Submit, After, Cleanup, Dies, Move
  <2> QED
    BY <1>0, <1>1, <2>1, CancelOfOthers
<1>3. ASSUME NEW b \in Bets, BetStep(b) PROVE CancelInv'
  <2>1. /\ \A s \in Requests \ {b} : rpc'[s] = rpc[s]
        /\ rpc'[b] \notin {"refund", "refunded", "refused"} /\ b \notin Cancels
        /\ UNCHANGED <<lost, refunded>>
    BY <1>0, <1>3 DEF BetStep, BetWindow, BetOnce, BetPay, BetCommit, Move
  <2> QED
    BY <1>0, <1>1, <2>1, CancelOfOthers
<1>4. ASSUME NEW c \in Cancels, CancelWindow(c) \/ CancelCommit(c) PROVE CancelInv'
  <2>1. /\ \A s \in Requests \ {c} : rpc'[s] = rpc[s]
        /\ rpc'[c] \notin {"refund", "refunded", "refused"}
        /\ lost \subseteq lost' /\ UNCHANGED refunded
    BY <1>0, <1>4 DEF CancelWindow, CancelCommit, Move
  <2>2. rpc[c] = "refunded" =>
          TargetOf[c] \in lost' \/ bet'[TargetOf[c]].status = "CANCEL"
    <3>1. \A row \in BetRow : [row EXCEPT !.status = "CANCEL"].status = "CANCEL"
      BY DEF BetRow
    <3>2. bet \in [Bets -> BetRow]
      BY DEF GameInv, TypeInv, TypeOK, StateTypeOK
    <3>3. rpc[c] = "refunded" => TargetOf[c] \in lost' \/ TakenBack(c)
      BY <1>4 DEF CancelWindow, CancelCommit, TakenBack
    <3>4. TakenBack(c) =>
            bet'[TargetOf[c]] = [bet[TargetOf[c]] EXCEPT !.status = "CANCEL"]
      BY <3>2 DEF TakenBack
    <3>5. bet[TargetOf[c]] \in BetRow
      BY <3>2
    <3> QED
      BY <3>1, <3>3, <3>4, <3>5
  <2> QED
    BY <1>0, <1>1, <2>1, <2>2, CancelOfOthers
<1>5. ASSUME NEW c \in Cancels, CancelLoad(c) \/ CancelRefund(c) PROVE CancelInv'
  <2>1. UNCHANGED bet /\ \A s \in Requests \ {c} : rpc'[s] = rpc[s]
    BY <1>0, <1>5 DEF CancelLoad, CancelRefund, Move, stateVars
  <2>2. rpc'[c] \in {"refund", "refunded", "refused"} =>
          /\ settled[TargetOf[c]] = 0
          /\ bet[TargetOf[c]].status \in {"BET_DONE", "CANCEL"}
    <3>1. CASE rpc[c] = "refund"
      BY <3>1 DEF CancelInv
    <3>2. CASE rpc[c] # "refund" /\ rpc'[c] \in {"refund", "refunded", "refused"}
      <4>1. Cancellable(c)
        BY <1>0, <1>5, <3>2 DEF CancelLoad, CancelRefund, Move
      <4>2. settled[TargetOf[c]] \in Nat
        BY DEF GameInv, TypeInv, TypeOK, DrawTypeOK
      <4> QED
        BY <4>1, <4>2 DEF Cancellable, GameInv, DrawInv, RowInv
    <3> QED
      BY <3>1, <3>2
  <2>3. ASSUME NEW b \in refunded' \ lost'
        PROVE  b \in refunded \ lost \/ (rpc'[c] = "refunded" /\ TargetOf[c] = b)
    BY <1>0, <1>5, <2>3 DEF CancelLoad, CancelRefund, Move
  <2>4. rpc[c] # "refunded"
    BY <1>5 DEF CancelLoad, CancelRefund
  <2>5. \A b \in refunded \ lost :
          \/ bet[b].status = "CANCEL"
          \/ \E d \in Cancels : rpc'[d] = "refunded" /\ TargetOf[d] = b
    BY <1>0, <2>1, <2>4 DEF CancelInv
  <2>6. \A d \in Cancels : rpc'[d] \in {"refund", "refunded", "refused"}
          => /\ settled[TargetOf[d]] = 0
             /\ bet[TargetOf[d]].status \in {"BET_DONE", "CANCEL"}
    BY <1>0, <2>1, <2>2 DEF CancelInv
  <2> QED
    BY <1>0, <2>1, <2>3, <2>5, <2>6 DEF CancelInv, CancelOrSettle
<1> QED
  BY <1>2, <1>3, <1>4, <1>5 DEF BetNext, CancelStep

LEMMA CancelStepInv ==
  GameInv /\ RoundInv /\ PlayInv /\ CancelInv /\ [Next]_vars => CancelInv'
<1> SUFFICES ASSUME GameInv, RoundInv, PlayInv, CancelInv, [Next]_vars PROVE CancelInv'
  OBVIOUS
<1>1. CASE Tick \/ TagsLapse \/ UNCHANGED vars
  <2>1. UNCHANGED <<bet, rpc, settled, credited, refunded, lost>>
    BY <1>1 DEF Tick, TagsLapse, vars, stateVars, betVars, drawVars
  <2> QED
    BY <2>1 DEF CancelInv, CancelOrSettle
<1>2. CASE BetNext /\ UNCHANGED drawVars
  BY <1>2, CancelOfRequests
<1>3. CASE DrawNext /\ UNCHANGED betVars
  BY <1>3, GameStep, CancelOfScheduler
<1> QED
  BY <1>1, <1>2, <1>3 DEF Next

LEMMA CancelInvAlways == Spec => [](GameInv /\ RoundInv /\ PlayInv /\ CancelInv)
  BY RoundInvAlways, PlayInit, PlayStep, CancelInit, CancelStepInv, PTL DEF Spec

\* A cancelled bet was never settled: CoinBetServiceImpl.cancel writes CANCEL over a
\* status it read before it asked the merchant, but never after the draw.
THEOREM CancelledIsNotSettled == Spec => []CancelOrSettle
<1>1. CancelInv => CancelOrSettle
  BY DEF CancelInv
<1> QED
  BY <1>1, CancelInvAlways, PTL

\* A stake that was given back is not paid out as well, unless the answer to the
\* refund was lost: a recorded refund left the bet CANCEL, or is about to, and such
\* a bet is not settled.
THEOREM RefundOrPayoutHolds == Spec => []RefundOrPayout
<1>1. GameInv /\ CancelInv => RefundOrPayout
  <2> SUFFICES ASSUME GameInv, CancelInv, NEW b \in (refunded \cap credited) \ lost
               PROVE  FALSE
    BY DEF RefundOrPayout
  <2>1. b \in Bets /\ settled[b] > 0
    BY DEF CancelInv, GameInv, TypeInv, TypeOK, BetTypeOK
  <2> QED
    BY <2>1 DEF CancelInv, CancelOrSettle
<1> QED
  BY <1>1, CancelInvAlways, PTL

(***************************************************************************)
(* Payouts.  What waits for its payout is PAY_ING, and in one group only.  *)
(***************************************************************************)

QueueInv ==
  /\ \A w \in Workers : Paying(w) => \A b \in batch[w] : bet[b].status = "PAY_ING"
  /\ \A g \in queue : \A b \in g : bet[b].status = "PAY_ING" /\ sent[b] > 0
  /\ \A g, h \in queue : g # h => g \cap h = {}

LEMMA QueueInit == Init => QueueInv
  BY DEF Init, DrawInit, QueueInv, Paying

\* No request touches a settled bet.
LEMMA SettledStay ==
  ASSUME GameInv, RoundInv, CancelInv, BetNext, NEW b \in Bets, settled[b] > 0
  PROVE  bet'[b] = bet[b]
<1>1. ~Open(b)
  BY DEF GameInv, DrawInv, RowInv
<1>2. \A c \in Cancels : rpc[c] = "refunded" => TargetOf[c] # b
  BY DEF CancelInv
<1> QED
  BY <1>1, <1>2, BetOfRequests

\* The steps of a task that settle and send nothing.
LEMMA QueueOfQuietSteps ==
  ASSUME GameInv, QueueInv, NEW w \in Workers,
         \/ Poll(w) \/ AcquireTag(w) \/ FetchPrice(w) \/ SelectBets(w) \/ DrawFails(w)
         \/ PublishHistory(w) \/ UpdateCurrent(w) \/ CheckCurrent(w) \/ InsertPeriod(w)
         \/ PutCurrent(w) \/ Crash(w)
  PROVE  QueueInv'
<1>0. Alone(w) /\ TypeOK /\ BatchInv
  BY WorkerAlone DEF WorkerStep, GameInv, TypeInv, DrawInv
<1>1. UNCHANGED <<bet, queue, sent>>
  BY DEF Poll, AcquireTag, FetchPrice, SelectBets, DrawFails, PublishHistory, UpdateCurrent,
     CheckCurrent, InsertPeriod, PutCurrent, Crash, stateVars
<1>2. Paying(w)' => batch'[w] = {} \/ (Paying(w) /\ batch'[w] = batch[w])
  <2>1. CASE Poll(w) \/ AcquireTag(w) \/ FetchPrice(w) \/ DrawFails(w) \/ Crash(w)
    BY <1>0, <2>1 DEF Poll, AcquireTag, FetchPrice, DrawFails, Crash, Stop, BatchInv, TypeOK,
       DrawTypeOK
  <2>2. CASE SelectBets(w)
    BY <1>0, <2>2 DEF SelectBets, Goto, Paying, TypeOK, DrawTypeOK
  <2>3. CASE PublishHistory(w) \/ UpdateCurrent(w) \/ InsertPeriod(w)
    BY <2>3 DEF PublishHistory, UpdateCurrent, InsertPeriod, Paying
  <2>4. CASE CheckCurrent(w) \/ PutCurrent(w)
    BY <1>0, <2>4 DEF CheckCurrent, PutCurrent, PayoutOrStop, Stop, Paying, TypeOK, DrawTypeOK
  <2> QED
    BY <2>1, <2>2, <2>3, <2>4
<1> QED
  BY <1>0, <1>1, <1>2 DEF QueueInv, Alone, Paying

\* The commit of a draw.
LEMMA QueueOfCommit ==
  ASSUME GameInv, RoundInv, PlayInv, QueueInv, NEW w \in Workers, CommitDraw(w)
  PROVE  QueueInv'
<1>0. Alone(w) /\ TypeOK /\ BatchInv /\ UNCHANGED <<queue, sent>> /\ RowInv
  BY WorkerAlone DEF WorkerStep, GameInv, TypeInv, DrawInv, CommitDraw
<1>1. \A b \in Bets : settled[b] > 0 => bet'[b] = bet[b]
  BY BetOfCommit
<1>2. ASSUME NEW v \in Workers, Paying(v)', NEW b \in batch'[v]
      PROVE  bet'[b].status = "PAY_ING"
  <2>0. b \in Bets
    <3>1. batch'[w] \subseteq batch[w]
      BY <1>0 DEF CommitDraw, Winners, TypeOK, DrawTypeOK
    <3> QED
      BY <1>0, <1>2, <3>1 DEF Alone, TypeOK, DrawTypeOK
  <2>1. CASE v = w
    BY <1>2, <2>0, <2>1, BetOfCommit
  <2>2. CASE v # w
    <3>1. Paying(v) /\ b \in batch[v]
      BY <1>0, <1>2, <2>2 DEF Alone, Paying
    <3> QED
      BY <1>0, <1>1, <2>0, <3>1 DEF QueueInv, BatchInv
  <2> QED
    BY <2>1, <2>2
<1>3. \A g \in queue : \A b \in g : b \in Bets /\ settled[b] > 0
  BY <1>0 DEF RowInv, TypeOK, DrawTypeOK
<1> QED
  BY <1>0, <1>1, <1>2, <1>3 DEF QueueInv

\* Winners are cut into groups apart from each other and from those in the queue.
LEMMA QueueOfSubmit ==
  ASSUME GameInv, QueueInv, NEW w \in Workers, SubmitPayouts(w)
  PROVE  QueueInv'
<1>0. Alone(w) /\ TypeOK /\ BatchInv /\ UNCHANGED bet /\ Paying(w) /\ pc'[w] = "idle"
  BY WorkerAlone DEF WorkerStep, GameInv, TypeInv, DrawInv, SubmitPayouts, stateVars, Stop,
     Paying, TypeOK, DrawTypeOK
<1>1. PICK P \in Groupings(batch[w]) : queue' = queue \cup P
  BY DEF SubmitPayouts
<1>2. batch[w] \subseteq Bets /\ sent \in [Bets -> Nat]
  BY <1>0 DEF TypeOK, DrawTypeOK
<1>3. \A b \in batch[w] : sent[b] = 0 /\ sent'[b] > 0 /\ bet[b].status = "PAY_ING"
  BY <1>0, <1>2 DEF BatchInv, QueueInv, SubmitPayouts
<1>4. \A b \in Bets : sent'[b] >= sent[b] /\ sent'[b] \in Nat
  BY <1>2 DEF SubmitPayouts
<1>5. \A g \in P : g \subseteq batch[w]
  BY <1>1 DEF Groupings
<1>6. \A g \in queue : \A b \in g : b \in Bets /\ sent[b] > 0 /\ b \notin batch[w]
  BY <1>0, <1>3 DEF QueueInv, TypeOK, DrawTypeOK
<1>7. ASSUME NEW g \in queue', NEW h \in queue', g # h PROVE g \cap h = {}
  <2>1. CASE g \in queue /\ h \in queue
    BY <1>7, <2>1 DEF QueueInv
  <2>2. CASE g \in P /\ h \in P
    BY <1>1, <1>7, <2>2 DEF Groupings
  <2>3. CASE (g \in queue /\ h \in P) \/ (g \in P /\ h \in queue)
    BY <1>5, <1>6, <2>3
  <2> QED
    BY <1>1, <2>1, <2>2, <2>3
<1>8. ASSUME NEW g \in queue', NEW b \in g PROVE bet[b].status = "PAY_ING" /\ sent'[b] > 0
  <2>1. CASE g \in P
    BY <1>3, <1>5, <1>8, <2>1
  <2>2. CASE g \in queue
    BY <1>2, <1>4, <1>6, <1>8, <2>2 DEF QueueInv
  <2> QED
    BY <1>1, <2>1, <2>2
<1>9. \A v \in Workers : Paying(v)' => Paying(v) /\ batch'[v] = batch[v]
  BY <1>0 DEF Alone, Paying
<1> QED
  BY <1>0, <1>7, <1>8, <1>9 DEF QueueInv

\* A payout task takes its group out of the queue.
LEMMA QueueOfQueue ==
  ASSUME GameInv, QueueInv,
         JobLockExpires \/ \E g \in SUBSET Bets : PayGroup(g) \/ DropGroup(g)
  PROVE  QueueInv'
<1>0. /\ TypeOK /\ BatchInv /\ UNCHANGED <<pc, batch, sent>> /\ queue' \subseteq queue
      /\ batch \in [Workers -> SUBSET Bets] /\ queue \subseteq SUBSET Bets
  BY DEF GameInv, TypeInv, TypeOK, DrawTypeOK, DrawInv, JobLockExpires, PayGroup, DropGroup
<1>1. ASSUME NEW b \in Bets, bet'[b] # bet[b]
      PROVE  \E g \in queue : b \in g /\ queue' = queue \ {g}
  BY <1>1, BetOfQueue DEF PayGroup
<1>2. ASSUME NEW w \in Workers, Paying(w), NEW b \in batch[w] PROVE bet'[b] = bet[b]
  <2>1. b \in Bets /\ sent[b] = 0
    BY <1>0, <1>2 DEF BatchInv
  <2> QED
    BY <1>1, <2>1 DEF QueueInv
<1>3. ASSUME NEW g \in queue', NEW b \in g PROVE bet'[b] = bet[b]
  <2>1. b \in Bets /\ g \in queue
    BY <1>0, <1>3
  <2> QED
    BY <1>1, <1>3, <2>1 DEF QueueInv
<1> QED
  BY <1>0, <1>2, <1>3 DEF QueueInv, Paying

LEMMA QueueStep ==
  GameInv /\ RoundInv /\ PlayInv /\ CancelInv /\ QueueInv /\ [Next]_vars => QueueInv'
<1> SUFFICES ASSUME GameInv, RoundInv, PlayInv, CancelInv, QueueInv, [Next]_vars
             PROVE  QueueInv'
  OBVIOUS
<1>1. CASE Tick \/ TagsLapse \/ UNCHANGED vars
  <2>1. UNCHANGED <<bet, pc, batch, queue, sent>>
    BY <1>1 DEF Tick, TagsLapse, vars, stateVars, drawVars
  <2> QED
    BY <2>1 DEF QueueInv, Paying
<1>2. CASE BetNext /\ UNCHANGED drawVars
  <2>1. UNCHANGED <<pc, batch, queue, sent>>
    BY <1>2 DEF drawVars
  <2>2. \A b \in Bets : settled[b] > 0 => bet'[b] = bet[b]
    BY <1>2, SettledStay
  <2>3. \A w \in Workers : Paying(w) => \A b \in batch[w] : b \in Bets /\ settled[b] > 0
    BY DEF GameInv, DrawInv, BatchInv, TypeInv, TypeOK, DrawTypeOK
  <2>4. \A g \in queue : \A b \in g : b \in Bets /\ settled[b] > 0
    BY DEF GameInv, DrawInv, RowInv, TypeInv, TypeOK, DrawTypeOK
  <2> QED
    BY <2>1, <2>2, <2>3, <2>4 DEF QueueInv, Paying
<1>3. CASE DrawNext /\ UNCHANGED betVars
  BY <1>3, QueueOfQuietSteps, QueueOfCommit, QueueOfSubmit, QueueOfQueue
     DEF DrawNext, WorkerStep
<1> QED
  BY <1>1, <1>2, <1>3 DEF Next

(***************************************************************************)
(* The game implements BetLedger.                                          *)
(***************************************************************************)

LEMMA LedgerInit == Init => Ledger!Init
  BY DEF Init, StateInit, Ledger!Init, NoBet, NoRow, Period

\* The statuses in play and the rounds drawn, as the ledger sees them.
LEMMA LedgerStutter ==
  ASSUME \A b \in Bets : bet'[b].status = bet[b].status /\ bet'[b].period = bet[b].period,
         \A p \in Period : HasValue(p)' <=> HasValue(p)
  PROVE  UNCHANGED Ledger!ledger
  BY DEF Ledger!ledger, HasValue

\* A committed bet is placed, a cancel in time cancels.
LEMMA LedgerOfRequests ==
  ASSUME GameInv, RoundInv, PlayInv, CancelInv, BetNext
  PROVE  [Ledger!Next]_(Ledger!ledger)
<1>0. bet \in [Bets -> BetRow] /\ UNCHANGED periods
  BY DEF GameInv, TypeInv, TypeOK, StateTypeOK, BetNext, Submit, After, Cleanup, Dies, BetStep,
     BetWindow, BetOnce, BetPay, BetCommit, CancelStep, CancelWindow, CancelLoad, CancelRefund,
     CancelCommit, stateVars
<1>1. CASE UNCHANGED bet
  BY <1>0, <1>1, LedgerStutter DEF HasValue
<1>2. ASSUME ~Due(hash), NEW b \in Bets, Placed(b) PROVE Ledger!Next
  <2>1. PICK s \in {"BET_DONE", "BET_FAILED"} :
          bet' = [bet EXCEPT ![b] = [status |-> s, period |-> hash.id]]
    BY <1>2 DEF Placed
  <2>2. bet[b].status = "NONE"
    BY <1>2 DEF Placed, GameInv, DrawInv, RowInv, Open
  <2>3. PICK r \in Period : r = hash.id /\ ~HasValue(r)
    BY <1>2 DEF RoundInv, HashInv, PlayInv
  <2>4. Ledger!Place(b, r)
    <3>1. [a \in Bets |-> bet'[a].status] = [[a \in Bets |-> bet[a].status] EXCEPT ![b] = s]
      BY <1>0, <2>1
    <3>2. [a \in Bets |-> bet'[a].period]
            = [[a \in Bets |-> bet[a].period] EXCEPT ![b] = r]
      BY <1>0, <2>1, <2>3
    <3> QED
      BY <1>0, <2>2, <2>3, <3>1, <3>2 DEF Ledger!Place, HasValue
  <2> QED
    BY <2>3, <2>4 DEF Ledger!Next
<1>3. ASSUME ~Due(hash), NEW c \in Cancels, TakenBack(c) PROVE [Ledger!Next]_(Ledger!ledger)
  <2> DEFINE b == TargetOf[c]
  <2>1. b \in Bets /\ bet' = [bet EXCEPT ![b] = [bet[b] EXCEPT !.status = "CANCEL"]]
    BY <1>3 DEF TakenBack
  <2>2. bet[b].status \in {"BET_DONE", "CANCEL"}
    BY <1>3 DEF TakenBack, CancelInv
  <2>3. /\ [bet[b] EXCEPT !.status = "CANCEL"].status = "CANCEL"
        /\ [bet[b] EXCEPT !.status = "CANCEL"].period = bet[b].period
    BY <1>0, <2>1 DEF BetRow
  <2> HIDE DEF b
  <2>4. [a \in Bets |-> bet'[a].status]
          = [[a \in Bets |-> bet[a].status] EXCEPT ![b] = "CANCEL"]
    BY <1>0, <2>1, <2>3
  <2>5. \A a \in Bets : bet'[a].period = bet[a].period
    BY <1>0, <2>1, <2>3
  <2>6. CASE bet[b].status = "BET_DONE"
    <3>1. Ledger!Cancel(b)
      BY <1>0, <2>1, <2>4, <2>5, <2>6 DEF Ledger!Cancel
    <3> QED
      BY <2>1, <3>1 DEF Ledger!Next
  <2>7. CASE bet[b].status = "CANCEL"
    <3>1. \A a \in Bets : bet'[a].status = bet[a].status
      BY <1>0, <2>1, <2>3, <2>7
    <3> QED
      BY <1>0, <2>5, <3>1, LedgerStutter DEF HasValue
  <2> QED
    BY <2>2, <2>6, <2>7
<1> QED
  BY <1>1, <1>2, <1>3, BetWriters

\* The commit of a draw draws the period, or finds it drawn and no bet in play.
LEMMA LedgerOfCommit ==
  ASSUME GameInv, RoundInv, PlayInv, NEW w \in Workers, CommitDraw(w)
  PROVE  [Ledger!Next]_(Ledger!ledger)
<1>0. /\ bet \in [Bets -> BetRow] /\ periods \in [Period -> PeriodRow] /\ batch'[w] \subseteq Bets
      /\ batch'[w] \subseteq batch[w] /\ WorkerHolds
  BY DEF GameInv, TypeInv, TypeOK, StateTypeOK, DrawTypeOK, CommitDraw, Winners
<1>1. map[w].id = hash.id /\ hash.id \in Period /\ pc[w] = "commit"
  BY DEF RoundInv, WorkerInv, HashInv, Busy, Holding, CommitDraw
<1>2. HasValue(hash.id)' /\ \A p \in Period \ {hash.id} : HasValue(p)' <=> HasValue(p)
  <2>1. price[w] # NoPrice
    BY <1>0, <1>1, PriceIsReal DEF WorkerHolds, HasPrice
  <2>2. UNCHANGED hash
    BY DEF CommitDraw
  <2> QED
    BY <1>0, <1>1, <2>1, <2>2 DEF CommitDraw, HasValue
<1>3. \A b \in Bets : bet'[b].period = bet[b].period
  BY BetOfCommit
<1>4. UNCHANGED hash
  BY DEF CommitDraw
<1>5. CASE HasValue(hash.id)
  <2>1. \A b \in Bets : bet'[b].status = bet[b].status
    BY <1>5, BetOfCommit DEF PlayInv
  <2> QED
    BY <1>2, <1>3, <1>4, <1>5, <2>1, LedgerStutter
<1>6. CASE ~HasValue(hash.id)
  <2>0. PICK r \in Period : r = hash.id /\ ~HasValue(r)
    BY <1>1, <1>6
  <2> DEFINE st == [b \in Bets |-> bet[b].status]
             rd == [b \in Bets |-> bet[b].period]
             won == batch'[w]
             play == {b \in Bets : st[b] = "BET_DONE" /\ rd[b] = r}
  <2>1. won \subseteq play
    BY <1>0, <2>0, BetOfCommit
  <2>2. \A b \in Bets : bet'[b].status = IF b \in won THEN "PAY_ING"
                                          ELSE IF b \in play THEN "BOMB" ELSE st[b]
    BY <2>0, BetOfCommit
  <2>3. {p \in Period : periods'[p].value # NoPrice}
          = {p \in Period : periods[p].value # NoPrice} \cup {r}
    BY <1>1, <1>2, <1>4, <2>0 DEF HasValue
  <2>4. [b \in Bets |-> bet'[b].period] = [b \in Bets |-> bet[b].period]
    BY <1>3
  <2>5. [b \in Bets |-> bet'[b].status]
          = [b \in Bets |-> IF b \in won THEN "PAY_ING"
                            ELSE IF b \in play THEN "BOMB" ELSE st[b]]
    BY <2>2
  <2>6. Ledger!InPlay(r) = play
    BY DEF Ledger!InPlay
  <2> HIDE DEF play, won
  <2>7. Ledger!Draw(r)
    <3>1. won \in SUBSET Ledger!InPlay(r)
      BY <2>1, <2>6
    <3>2. [b \in Bets |-> bet'[b].status]
            = [b \in Bets |-> IF b \in won THEN "PAY_ING"
                              ELSE IF b \in Ledger!InPlay(r) THEN "BOMB"
                              ELSE [a \in Bets |-> bet[a].status][b]]
      BY <2>5, <2>6
    <3> QED
      BY <2>0, <2>3, <2>4, <3>1, <3>2 DEF Ledger!Draw, HasValue
  <2> QED
    BY <2>7 DEF Ledger!Next
<1> QED
  BY <1>5, <1>6

\* A payout task pays out those of its group the merchant reported on.
LEMMA LedgerOfPayGroup ==
  ASSUME GameInv, QueueInv, NEW g \in SUBSET Bets, PayGroup(g)
  PROVE  [Ledger!Next]_(Ledger!ledger)
<1>0. bet \in [Bets -> BetRow] /\ UNCHANGED periods
  BY DEF GameInv, TypeInv, TypeOK, StateTypeOK, PayGroup
<1>1. PICK outcome \in [g -> {"WT_DONE", "WT_FAILED", "silent"}] :
        bet' = [b \in Bets |-> IF b \in g /\ outcome[b] # "silent"
                               THEN [bet[b] EXCEPT !.status = outcome[b]]
                               ELSE bet[b]]
  BY DEF PayGroup
<1> DEFINE S == {b \in g : outcome[b] # "silent"}
           s == [b \in S |-> outcome[b]]
<1>2. S \in SUBSET Bets /\ s \in [S -> {"WT_DONE", "WT_FAILED"}]
  BY <1>1
<1>3. \A b \in S : bet[b].status = "PAY_ING"
  BY DEF PayGroup, QueueInv
<1>4. \A b \in Bets : /\ bet'[b].status = IF b \in S THEN s[b] ELSE bet[b].status
                      /\ bet'[b].period = bet[b].period
  <2>1. \A row \in BetRow : \A x \in {"WT_DONE", "WT_FAILED"} :
          [row EXCEPT !.status = x].status = x /\ [row EXCEPT !.status = x].period = row.period
    BY DEF BetRow
  <2> QED
    BY <1>0, <1>1, <1>2, <2>1
<1>5. [b \in Bets |-> bet'[b].status] = [b \in Bets |-> IF b \in S THEN s[b] ELSE bet[b].status]
  BY <1>4
<1>6. [b \in Bets |-> bet'[b].period] = [b \in Bets |-> bet[b].period]
  BY <1>4
<1> HIDE DEF S, s
<1>7. [b \in Bets |-> IF b \in S THEN s[b] ELSE bet[b].status]
        = [b \in Bets |-> IF b \in S THEN s[b] ELSE [a \in Bets |-> bet[a].status][b]]
  OBVIOUS
<1>8. Ledger!Payout(S)
  BY <1>0, <1>2, <1>3, <1>5, <1>6, <1>7 DEF Ledger!Payout
<1> QED
  BY <1>2, <1>8 DEF Ledger!Next

\* Every step of the game is a step of the ledger or leaves it alone.
LEMMA LedgerStep ==
  ASSUME GameInv, RoundInv, PlayInv, CancelInv, QueueInv, [Next]_vars
  PROVE  [Ledger!Next]_(Ledger!ledger)
<1>1. CASE UNCHANGED <<bet, periods>>
  BY <1>1, LedgerStutter DEF HasValue
<1>2. CASE BetNext
  BY <1>2, LedgerOfRequests
<1>3. CASE DrawNext
  <2>1. ASSUME NEW w \in Workers,
               \/ Poll(w) \/ AcquireTag(w) \/ FetchPrice(w) \/ SelectBets(w) \/ DrawFails(w)
               \/ PublishHistory(w) \/ UpdateCurrent(w) \/ CheckCurrent(w) \/ InsertPeriod(w)
               \/ PutCurrent(w) \/ SubmitPayouts(w) \/ Crash(w)
        PROVE  UNCHANGED <<bet, periods>>
    BY <2>1 DEF Poll, AcquireTag, FetchPrice, SelectBets, DrawFails, PublishHistory,
       UpdateCurrent, CheckCurrent, InsertPeriod, PutCurrent, SubmitPayouts, Crash, stateVars
  <2>2. JobLockExpires \/ (\E g \in SUBSET Bets : DropGroup(g)) => UNCHANGED <<bet, periods>>
    BY DEF JobLockExpires, DropGroup, stateVars
  <2> QED
    BY <1>1, <1>3, <2>1, <2>2, LedgerOfCommit, LedgerOfPayGroup DEF DrawNext, WorkerStep
<1>4. Tick \/ TagsLapse \/ UNCHANGED vars => UNCHANGED <<bet, periods>>
  BY DEF Tick, TagsLapse, vars, stateVars
<1> QED
  BY <1>1, <1>2, <1>3, <1>4 DEF Next

LEMMA QueueInvAlways == Spec => [](GameInv /\ RoundInv /\ PlayInv /\ CancelInv /\ QueueInv)
  BY CancelInvAlways, QueueInit, QueueStep, PTL DEF Spec

\* The game implements BetLedger: every period is drawn once, the draw settles all
\* bets in play at once, nothing is placed in a drawn period, nothing settled taken
\* back, and only winners are paid out, whatever tasks, requests and crashes do.
THEOREM ImplementsLedger == Spec => KeepsLedger
<1>1. GameInv /\ RoundInv /\ PlayInv /\ CancelInv /\ QueueInv /\ [Next]_vars
        => [Ledger!Next]_(Ledger!ledger)
  BY LedgerStep
<1> QED
  BY <1>1, LedgerInit, QueueInvAlways, PTL DEF Spec, KeepsLedger, Ledger!Spec

(***************************************************************************)
(* Prices.  The draw result a task works with is its own period's, and a   *)
(* period is settled at one price.                                         *)
(***************************************************************************)

PriceInv ==
  /\ \A w \in Workers : HasPrice(w) => price[w].for = map[w].id
  /\ SettledAtOwnPrice

LEMMA PriceInit == Init => PriceInv
  BY DEF Init, DrawInit, PriceInv, HasPrice, SettledAtOwnPrice

\* A step that settles nothing and moves no settled bet to another period.
LEMMA OwnPriceKeep ==
  ASSUME GameInv, PriceInv, UNCHANGED <<settled, paidAt>>,
         \A b \in Bets : settled[b] > 0 => bet'[b].period = bet[b].period
  PROVE  SettledAtOwnPrice'
  BY DEF PriceInv, SettledAtOwnPrice

\* The steps of a task that settle nothing.
LEMMA PriceOfQuietSteps ==
  ASSUME GameInv, RoundInv, PriceInv, NEW w \in Workers,
         \/ Poll(w) \/ AcquireTag(w) \/ FetchPrice(w) \/ SelectBets(w) \/ DrawFails(w)
         \/ PublishHistory(w) \/ UpdateCurrent(w) \/ CheckCurrent(w) \/ InsertPeriod(w)
         \/ PutCurrent(w) \/ SubmitPayouts(w) \/ Crash(w)
  PROVE  PriceInv'
<1>0. Alone(w) /\ TypeOK
  BY WorkerAlone DEF WorkerStep, GameInv, TypeInv
<1>1. UNCHANGED <<bet, settled, paidAt>>
  BY DEF Poll, AcquireTag, FetchPrice, SelectBets, DrawFails, PublishHistory, UpdateCurrent,
     CheckCurrent, InsertPeriod, PutCurrent, SubmitPayouts, Crash, stateVars
<1>2. SettledAtOwnPrice'
  BY <1>1, OwnPriceKeep
<1>3. \A v \in Workers \ {w} : price'[v] = price[v] /\ map'[v] = map[v] /\ pc'[v] = pc[v]
  <2>1. \A v \in Workers \ {w} : price'[v] = price[v]
    <3>1. CASE Poll(w) \/ AcquireTag(w) \/ FetchPrice(w) \/ DrawFails(w) \/ SubmitPayouts(w)
               \/ Crash(w)
      BY <1>0, <3>1 DEF Poll, AcquireTag, FetchPrice, DrawFails, SubmitPayouts, Crash, Stop,
         TypeOK, DrawTypeOK
    <3>2. CASE \/ SelectBets(w) \/ PublishHistory(w) \/ UpdateCurrent(w) \/ CheckCurrent(w)
               \/ InsertPeriod(w) \/ PutCurrent(w)
      BY <1>0, <3>2 DEF SelectBets, PublishHistory, UpdateCurrent, CheckCurrent, InsertPeriod,
         PutCurrent, PayoutOrStop, Stop, TypeOK, DrawTypeOK
    <3> QED
      BY <3>1, <3>2
  <2> QED
    BY <1>0, <2>1 DEF Alone
<1>4. HasPrice(w)' => price'[w].for = map'[w].id
  <2>1. CASE FetchPrice(w)
    <3>1. pc[w] = "price" /\ map' = map /\ Fit(map[w])
      BY <2>1 DEF FetchPrice, RoundInv, WorkerInv, Holding
    <3>2. \/ map[w].price # NoPrice /\ price'[w] = map[w].price
          \/ \E k \in Picks : price'[w] = [for |-> map[w].id, pick |-> k]
      BY <1>0, <2>1 DEF FetchPrice, TypeOK, DrawTypeOK
    <3>3. price'[w].for = map[w].id
      <4>1. CASE map[w].price # NoPrice /\ price'[w] = map[w].price
        BY <3>1, <4>1 DEF Fit
      <4>2. ASSUME NEW k \in Picks, price'[w] = [for |-> map[w].id, pick |-> k]
            PROVE  price'[w].for = map[w].id
        BY <4>2
      <4> QED
        BY <3>2, <4>1, <4>2
    <3> QED
      BY <3>1, <3>3
  <2>2. CASE SelectBets(w)
    BY <2>2 DEF SelectBets, PriceInv, HasPrice
  <2>3. CASE \/ PublishHistory(w) \/ UpdateCurrent(w) \/ CheckCurrent(w)
             \/ InsertPeriod(w) \/ PutCurrent(w)
    BY <1>0, <2>3 DEF PublishHistory, UpdateCurrent, CheckCurrent, InsertPeriod, PutCurrent,
       PayoutOrStop, Stop, Goto, HasPrice, TypeOK, DrawTypeOK
  <2>4. CASE \/ Poll(w) \/ AcquireTag(w) \/ DrawFails(w) \/ SubmitPayouts(w) \/ Crash(w)
    BY <1>0, <2>4 DEF Poll, AcquireTag, DrawFails, SubmitPayouts, Crash, Stop, Goto, HasPrice,
       TypeOK, DrawTypeOK
  <2> QED
    BY <2>1, <2>2, <2>3, <2>4
<1> QED
  BY <1>2, <1>3, <1>4 DEF PriceInv, HasPrice

\* A draw settles bets in a period none is settled in yet.
LEMMA PriceOfCommit ==
  ASSUME GameInv, RoundInv, PlayInv, PriceInv, NEW w \in Workers, CommitDraw(w)
  PROVE  PriceInv'
<1>0. Alone(w) /\ TypeOK /\ pc[w] = "commit" /\ UNCHANGED <<price, map>>
  BY WorkerAlone DEF WorkerStep, GameInv, TypeInv, CommitDraw
<1>1. price[w].for = hash.id
  BY <1>0 DEF PriceInv, HasPrice, RoundInv, WorkerInv, Busy, Holding
<1>2. \A v \in Workers : HasPrice(v)' => HasPrice(v)
  BY <1>0 DEF Alone, HasPrice
<1>3. ASSUME NEW b \in Bets, settled[b] = 0, settled'[b] > 0
      PROVE  /\ paidAt'[b] = price[w] /\ bet'[b].period = hash.id
             /\ \A c \in Bets : settled[c] > 0 => bet[c].period # hash.id
  <2>1. /\ bet[b].status = "BET_DONE" /\ bet'[b].period = hash.id
        /\ paidAt'[b] = price[w]
    BY <1>3, BetOfCommit
  <2>2. ~HasValue(hash.id)
    BY <2>1 DEF PlayInv
  <2> QED
    BY <2>1, <2>2 DEF PlayInv
<1>4. ASSUME NEW b \in Bets, settled[b] > 0
      PROVE  paidAt'[b] = paidAt[b] /\ bet'[b].period = bet[b].period
  BY <1>4, BetOfCommit
<1>5. \A b \in Bets : settled[b] > 0 \/ settled[b] = 0
  BY <1>0 DEF TypeOK, DrawTypeOK
<1>6. SettledAtOwnPrice'
  BY <1>1, <1>3, <1>4, <1>5 DEF PriceInv, SettledAtOwnPrice
<1> QED
  BY <1>0, <1>2, <1>6 DEF PriceInv

\* A settled bet stays in its period.
LEMMA SettledPeriod ==
  ASSUME GameInv, RoundInv, CancelInv,
         BetNext \/ JobLockExpires \/ \E g \in SUBSET Bets : PayGroup(g) \/ DropGroup(g),
         NEW b \in Bets, settled[b] > 0
  PROVE  bet'[b].period = bet[b].period
  BY SettledStay, BetOfQueue

LEMMA PriceStep ==
  GameInv /\ RoundInv /\ PlayInv /\ CancelInv /\ PriceInv /\ [Next]_vars => PriceInv'
<1> SUFFICES ASSUME GameInv, RoundInv, PlayInv, CancelInv, PriceInv, [Next]_vars
             PROVE  PriceInv'
  OBVIOUS
<1>1. CASE Tick \/ TagsLapse \/ UNCHANGED vars
  <2>1. UNCHANGED <<bet, pc, map, price, settled, paidAt>>
    BY <1>1 DEF Tick, TagsLapse, vars, stateVars, drawVars
  <2> QED
    BY <2>1 DEF PriceInv, HasPrice, SettledAtOwnPrice
<1>2. CASE \/ BetNext /\ UNCHANGED drawVars
           \/ JobLockExpires \/ \E g \in SUBSET Bets : PayGroup(g) \/ DropGroup(g)
  <2>1. UNCHANGED <<pc, map, price, settled, paidAt>>
    BY <1>2 DEF drawVars, JobLockExpires, PayGroup, DropGroup
  <2>2. SettledAtOwnPrice'
    BY <1>2, <2>1, SettledPeriod, OwnPriceKeep
  <2> QED
    BY <2>1, <2>2 DEF PriceInv, HasPrice
<1>3. ASSUME NEW w \in Workers, Poll(w) \/ WorkerStep(w) \/ DrawFails(w) \/ Crash(w)
      PROVE  PriceInv'
  BY <1>3, PriceOfQuietSteps, PriceOfCommit DEF WorkerStep
<1> QED
  BY <1>1, <1>2, <1>3 DEF Next, DrawNext

LEMMA PriceInvAlways == Spec => [](GameInv /\ RoundInv /\ PlayInv /\ CancelInv /\ PriceInv)
  BY CancelInvAlways, PriceInit, PriceStep, PTL DEF Spec

\* Every bet was settled at a price fetched for its own period, all bets of a period
\* at the same one, although drawResultTime is cached under the key of the coin.
THEOREM OwnPrice == Spec => []SettledAtOwnPrice
<1>1. PriceInv => SettledAtOwnPrice
  BY DEF PriceInv
<1> QED
  BY <1>1, PriceInvAlways, PTL

(***************************************************************************)
(* Results.  Unless a task died, a period is drawn once, and what is shown *)
(* and counted for it is what its bets were settled at.                    *)
(***************************************************************************)

ResultInv ==
  crashes = 0 =>
    /\ HasValue(hash.id) => \E w \in Workers : Drawn(w)
    /\ \A w \in Workers : pc[w] = "history" =>
         \A b \in Bets : settled[b] > 0 /\ bet[b].period = map[w].id => paidAt[b] = price[w]
    /\ \A e \in history :
         /\ HasValue(e.id)
         /\ \A b \in Bets : settled[b] > 0 /\ bet[b].period = e.id => paidAt[b] = e.value
    /\ \A b \in Bets : settled[b] > 0 => b \in periods[bet[b].period].orders

LEMMA ResultInit == Init => ResultInv
  BY DEF Init, StateInit, DrawInit, ResultInv, HasValue, NoRow, Period

\* The double check of createCoinPeriod stops no task that has drawn the period: it
\* holds the start of the current period and asks for a later one.
LEMMA CheckPasses ==
  ASSUME GameInv, RoundInv, NEW w \in Workers, CheckCurrent(w)
  PROVE  pc'[w] = "insert"
<1>0. TypeOK /\ pc[w] = "check"
  BY DEF GameInv, TypeInv, CheckCurrent
<1>1. map[w].id = hash.id /\ map[w].id \in Period /\ map[w].start = hash.start
  BY <1>0 DEF RoundInv, WorkerInv, Busy, Holding
<1>2. map[w] # NoMap
  BY <1>1 DEF NoMap, Period
<1>3. DrawEnd(map[w]) = DrawEnd(hash) /\ DrawEnd(hash) \in Nat
  BY <1>0, <1>1 DEF DrawEnd, BetEnd, TypeOK, StateTypeOK, PeriodMap
<1>4. NextStart(w) = Later(clock, DrawEnd(hash) + 1)
  BY <1>2, <1>3 DEF NextStart
<1>5. clock \in Nat
  BY <1>0 DEF TypeOK, StateTypeOK
<1>6. ~(NextStart(w) < DrawEnd(hash))
  BY <1>3, <1>4, <1>5 DEF Later
<1> QED
  BY <1>0, <1>6 DEF CheckCurrent, Goto, TypeOK, DrawTypeOK

\* A step of a task that writes neither the tables nor what is shown.
LEMMA ResultKeep ==
  ASSUME ResultInv, NEW w \in Workers, Alone(w), \A v \in Workers \ {w} : price'[v] = price[v],
         UNCHANGED <<bet, periods, settled, paidAt, history, crashes>>, hash'.id = hash.id,
         Drawn(w) => Drawn(w)', pc'[w] # "history"
  PROVE  ResultInv'
<1>1. \A v \in Workers : Drawn(v) => Drawn(v)'
  BY DEF Alone, Drawn
<1> QED
  BY <1>1 DEF ResultInv, HasValue, Alone

\* The steps that do so.
LEMMA ResultOfQuietSteps ==
  ASSUME GameInv, RoundInv, ResultInv, NEW w \in Workers,
         \/ Poll(w) \/ AcquireTag(w) \/ FetchPrice(w) \/ SelectBets(w) \/ DrawFails(w)
         \/ UpdateCurrent(w) \/ CheckCurrent(w) \/ InsertPeriod(w) \/ SubmitPayouts(w)
  PROVE  ResultInv'
<1>0. Alone(w) /\ TypeOK
  BY WorkerAlone DEF WorkerStep, GameInv, TypeInv
<1>1. UNCHANGED <<bet, periods, settled, paidAt, history, crashes>>
  BY DEF Poll, AcquireTag, FetchPrice, SelectBets, DrawFails, UpdateCurrent, CheckCurrent,
     InsertPeriod, SubmitPayouts, stateVars
<1>2. hash'.id = hash.id
  <2>1. CASE FetchPrice(w)
    BY <1>0, <2>1 DEF FetchPrice, PeriodMap, TypeOK, StateTypeOK
  <2>2. CASE UpdateCurrent(w)
    BY <2>2 DEF UpdateCurrent, RoundInv, WorkerInv, Busy, Holding
  <2> QED
    BY <2>1, <2>2 DEF Poll, AcquireTag, SelectBets, DrawFails, CheckCurrent, InsertPeriod,
       SubmitPayouts, stateVars
<1>3. \A v \in Workers \ {w} : price'[v] = price[v]
  BY <1>0 DEF Poll, AcquireTag, FetchPrice, SelectBets, DrawFails, UpdateCurrent, CheckCurrent,
     InsertPeriod, SubmitPayouts, PayoutOrStop, Stop, TypeOK, DrawTypeOK
<1>4. (Drawn(w) => Drawn(w)') /\ pc'[w] # "history"
  <2>1. CASE Poll(w) \/ AcquireTag(w) \/ FetchPrice(w) \/ SelectBets(w) \/ DrawFails(w)
             \/ SubmitPayouts(w)
    <3>1. pc[w] \in {"idle", "tag", "price", "select", "commit", "payout"}
      BY <2>1 DEF Poll, AcquireTag, FetchPrice, SelectBets, DrawFails, Drawing, SubmitPayouts
    <3>2. pc'[w] # "history"
      BY <1>0, <2>1, <3>1 DEF Poll, AcquireTag, FetchPrice, SelectBets, DrawFails, SubmitPayouts,
         Stop, Goto, TypeOK, DrawTypeOK
    <3> QED
      BY <3>1, <3>2 DEF Drawn
  <2>2. CASE UpdateCurrent(w) \/ InsertPeriod(w)
    BY <1>0, <2>2 DEF UpdateCurrent, InsertPeriod, Goto, Drawn, TypeOK, DrawTypeOK
  <2>3. CASE CheckCurrent(w)
    BY <2>3, CheckPasses DEF Drawn
  <2> QED
    BY <2>1, <2>2, <2>3
<1> QED
  BY <1>0, <1>1, <1>2, <1>3, <1>4, ResultKeep

\* Unless a task died, the draw of the current period is its first.
LEMMA ResultOfCommit ==
  ASSUME GameInv, RoundInv, PlayInv, ResultInv, NEW w \in Workers, CommitDraw(w)
  PROVE  ResultInv'
<1>0. Alone(w) /\ TypeOK /\ WorkerHolds /\ pc[w] = "commit" /\ pc'[w] = "history"
      /\ UNCHANGED <<hash, price, map, history, crashes>>
  BY WorkerAlone DEF WorkerStep, GameInv, TypeInv, CommitDraw, Goto, TypeOK, DrawTypeOK
<1> SUFFICES ASSUME crashes = 0
             PROVE  ResultInv'
  BY <1>0 DEF ResultInv
<1>1. map[w].id = hash.id /\ hash.id \in Period
  BY <1>0 DEF RoundInv, WorkerInv, HashInv, Busy, Holding
<1>2. ~HasValue(hash.id)
  <2>1. \A v \in Workers : ~Drawn(v)
    BY <1>0 DEF RoundInv, OneBusy, Busy, Drawn
  <2> QED
    BY <2>1 DEF ResultInv
<1>3. \A b \in Bets : settled[b] > 0 => bet[b].period # hash.id /\ bet[b].period \in Period
  BY <1>2 DEF PlayInv
<1>4. /\ periods'[hash.id].orders = batch[w] /\ HasValue(hash.id)'
      /\ \A p \in Period \ {hash.id} : periods'[p] = periods[p]
  <2>1. price[w] # NoPrice
    BY <1>0, PriceIsReal DEF WorkerHolds, HasPrice
  <2> QED
    BY <1>0, <1>1, <2>1 DEF CommitDraw, HasValue, TypeOK, StateTypeOK
<1>5. \A b \in Bets : settled[b] > 0 \/ settled[b] = 0
  BY <1>0 DEF TypeOK, DrawTypeOK
<1>6. ASSUME NEW b \in Bets, settled'[b] > 0, settled[b] = 0
      PROVE  b \in batch[w] /\ bet'[b].period = hash.id /\ paidAt'[b] = price[w]
  BY <1>6, BetOfCommit
<1>7. ASSUME NEW b \in Bets, settled[b] > 0
      PROVE  bet'[b] = bet[b] /\ paidAt'[b] = paidAt[b]
  BY <1>7, BetOfCommit
<1>8. ASSUME NEW v \in Workers, pc'[v] = "history" PROVE v = w
  BY <1>0, <1>8 DEF Alone, RoundInv, OneBusy, Busy
<1>9. \E v \in Workers : Drawn(v)'
  BY <1>0 DEF Drawn
<1>10. \A b \in Bets : settled'[b] > 0 /\ bet'[b].period = hash.id => paidAt'[b] = price[w]
  BY <1>3, <1>5, <1>6, <1>7
<1>11. ASSUME NEW e \in history
       PROVE  /\ periods'[e.id].value # NoPrice
              /\ \A b \in Bets :
                   settled'[b] > 0 /\ bet'[b].period = e.id => paidAt'[b] = e.value
  <2>1. e.id \in Period /\ HasValue(e.id) /\ e.id # hash.id
    BY <1>0, <1>2 DEF ResultInv, TypeOK, DrawTypeOK, HistoryEntry
  <2> QED
    BY <1>4, <1>5, <1>6, <1>7, <2>1 DEF ResultInv, HasValue
<1>12. \A b \in Bets : settled'[b] > 0 => b \in periods'[bet'[b].period].orders
  BY <1>3, <1>4, <1>5, <1>6, <1>7 DEF ResultInv
<1> QED
  BY <1>0, <1>1, <1>8, <1>9, <1>10, <1>11, <1>12 DEF ResultInv, HasValue

\* What is published is what was settled.
LEMMA ResultOfPublish ==
  ASSUME GameInv, RoundInv, PlayInv, ResultInv, NEW w \in Workers, PublishHistory(w)
  PROVE  ResultInv'
<1>0. Alone(w) /\ TypeOK /\ pc[w] = "history" /\ pc'[w] = "current"
      /\ UNCHANGED <<bet, periods, settled, paidAt, hash, price, map, crashes>>
      /\ history' = history \cup {[id |-> map[w].id, value |-> price[w]]}
  BY WorkerAlone DEF WorkerStep, GameInv, TypeInv, PublishHistory, Goto, TypeOK, DrawTypeOK,
     stateVars
<1>1. map[w].id = hash.id
  BY <1>0 DEF RoundInv, WorkerInv, Busy, Holding
<1>2. HasValue(hash.id)
  BY <1>0 DEF PlayInv, Drawn
<1>3. \A v \in Workers : Drawn(v) => Drawn(v)'
  BY <1>0 DEF Alone, Drawn
<1>4. \A v \in Workers : pc'[v] = "history" => pc[v] = "history"
  BY <1>0 DEF Alone
<1>5. ASSUME crashes = 0, NEW e \in history'
      PROVE  /\ HasValue(e.id)
             /\ \A b \in Bets : settled[b] > 0 /\ bet[b].period = e.id => paidAt[b] = e.value
  <2>1. CASE e \in history
    BY <1>5, <2>1 DEF ResultInv
  <2>2. CASE e = [id |-> map[w].id, value |-> price[w]]
    BY <1>0, <1>1, <1>2, <1>5, <2>2 DEF ResultInv
  <2> QED
    BY <1>0, <2>1, <2>2
<1> QED
  BY <1>0, <1>3, <1>4, <1>5 DEF ResultInv, HasValue

\* The period that takes over has no result yet.
LEMMA ResultOfPutCurrent ==
  ASSUME GameInv, RoundInv, PlayInv, ResultInv, NEW w \in Workers, PutCurrent(w)
  PROVE  ResultInv'
<1>0. Alone(w) /\ TypeOK /\ WorkerHolds /\ pc[w] = "put"
      /\ UNCHANGED <<bet, periods, settled, paidAt, history, crashes>>
  BY WorkerAlone DEF WorkerStep, GameInv, TypeInv, PutCurrent
<1>1. pc'[w] \in {"idle", "payout"}
  BY <1>0 DEF PutCurrent, PayoutOrStop, Stop, Goto, TypeOK, DrawTypeOK
<1>2. \A v \in Workers : pc'[v] # "history"
  BY <1>0, <1>1 DEF Alone, RoundInv, OneBusy, Busy
<1>3. ~HasValue(hash'.id)
  BY <1>0 DEF PutCurrent, RoundInv, WorkerInv, WorkerHolds, PlayInv
<1> QED
  BY <1>0, <1>2, <1>3 DEF ResultInv, HasValue

LEMMA ResultStep ==
  GameInv /\ RoundInv /\ PlayInv /\ CancelInv /\ ResultInv /\ [Next]_vars => ResultInv'
<1> SUFFICES ASSUME GameInv, RoundInv, PlayInv, CancelInv, ResultInv, [Next]_vars
             PROVE  ResultInv'
  OBVIOUS
<1>1. CASE Tick \/ TagsLapse \/ UNCHANGED vars
  <2>1. UNCHANGED <<hash, periods, bet, pc, map, price, history, crashes, settled, paidAt>>
    BY <1>1 DEF Tick, TagsLapse, vars, stateVars, drawVars
  <2> QED
    BY <2>1 DEF ResultInv, HasValue, Drawn
<1>2. CASE \/ BetNext /\ UNCHANGED drawVars
           \/ JobLockExpires \/ \E g \in SUBSET Bets : PayGroup(g)
  <2>1. /\ UNCHANGED <<pc, map, price, history, crashes, settled, paidAt>>
        /\ \A b \in Bets : settled[b] > 0 => bet'[b].period = bet[b].period
    BY <1>2, SettledPeriod DEF drawVars, JobLockExpires, PayGroup
  <2>2. UNCHANGED <<hash, periods>>
    BY <1>2 DEF JobLockExpires, PayGroup, BetNext, Submit, After, Cleanup, Dies, BetStep,
       BetWindow, BetOnce, BetPay, BetCommit, CancelStep, CancelWindow, CancelLoad,
       CancelRefund, CancelCommit, stateVars
  <2> QED
    BY <2>1, <2>2 DEF ResultInv, HasValue, Drawn
<1>3. ASSUME (\E w \in Workers : Crash(w)) \/ \E g \in SUBSET Bets : DropGroup(g)
      PROVE  ResultInv'
  <2>1. crashes' = crashes + 1 /\ crashes \in Nat
    BY <1>3 DEF Crash, DropGroup, GameInv, TypeInv, TypeOK, DrawTypeOK
  <2> QED
    BY <2>1 DEF ResultInv
<1>4. ASSUME NEW w \in Workers, Poll(w) \/ WorkerStep(w) \/ DrawFails(w)
      PROVE  ResultInv'
  BY <1>4, ResultOfQuietSteps, ResultOfCommit, ResultOfPublish, ResultOfPutCurrent
     DEF WorkerStep
<1> QED
  BY <1>1, <1>2, <1>3, <1>4 DEF Next, DrawNext

LEMMA ResultInvAlways == Spec => [](GameInv /\ RoundInv /\ PlayInv /\ CancelInv /\ ResultInv)
  BY CancelInvAlways, ResultInit, ResultStep, PTL DEF Spec

\* What players are shown as the result of a period is what its bets were settled
\* at, though the publishing follows the commit: only a task that died can have the
\* period drawn again, and published at another price.
THEOREM HistoryHolds == Spec => []HistoryIsTheDraw
<1>1. GameInv /\ ResultInv => HistoryIsTheDraw
  BY DEF GameInv, TypeInv, TypeOK, DrawTypeOK, ResultInv, HistoryIsTheDraw
<1> QED
  BY <1>1, ResultInvAlways, PTL

\* The order count of a period counts the bets settled in it, unless a task died.
THEOREM OrdersHold == Spec => []OrdersAreTheSettled
<1>1. GameInv /\ ResultInv => OrdersAreTheSettled
  BY DEF GameInv, TypeInv, TypeOK, DrawTypeOK, ResultInv, OrdersAreTheSettled
<1> QED
  BY <1>1, ResultInvAlways, PTL

(***************************************************************************)
(* One order per period.  A request past setIfAbsent has made its key; one *)
(* that finds it gone goes on only where it was deleted.                   *)
(***************************************************************************)

\* The bet is in play in p, or on its way there with its key made.
Ordered(b, p) ==
  \/ bet[b].status = "BET_DONE" /\ bet[b].period = p
  \/ rpc[b] \in {"pay", "paid"} /\ asked[b] = p

OrderInv ==
  \A b \in Bets, p \in 0 .. MaxPeriod : Ordered(b, p) =>
    /\ <<UserOf[b], p>> \in onceKey \cup cleared
    /\ \A c \in Bets \ {b} :
         Ordered(c, p) /\ UserOf[c] = UserOf[b] => <<UserOf[b], p>> \in cleared

LEMMA OrderInit == AnyInit => OrderInv
  BY DEF AnyInit, Init, Init0, StateInit, ColdInit, BetInit, OrderInv, Ordered, NoBet, Requests

\* A step that orders nothing and drops no key but those it counts as cleared.
LEMMA OrderKeep ==
  ASSUME OrderInv, \A b \in Bets, p \in 0 .. MaxPeriod : Ordered(b, p)' => Ordered(b, p),
         onceKey \cup cleared \subseteq onceKey' \cup cleared', cleared \subseteq cleared'
  PROVE  OrderInv'
  BY DEF OrderInv

\* What requests do.
LEMMA OrderOfRequests ==
  ASSUME TypeInv, OrderInv, BetNext
  PROVE  OrderInv'
<1>0. /\ bet \in [Bets -> BetRow] /\ rpc \in [Requests -> RPC] /\ Bets \subseteq Requests
      /\ asked \in [Requests -> 0 .. MaxPeriod] /\ Cancels \cap Bets = {}
  BY DEF TypeInv, TypeOK, StateTypeOK, BetTypeOK, Requests
<1>1. ASSUME NEW r \in Requests, Submit(r) \/ After(r) \/ Cleanup(r) \/ Dies(r)
      PROVE  OrderInv'
  <2>1. UNCHANGED bet /\ \A s \in Requests \ {r} : rpc'[s] = rpc[s] /\ asked'[s] = asked[s]
    BY <1>0, <1>1 DEF Submit, After, Cleanup, Dies, Move, stateVars
  <2>2. rpc'[r] \notin {"pay", "paid"}
    BY <1>0, <1>1 DEF Submit, After, Cleanup, Dies, Move
  <2>3. onceKey \cup cleared \subseteq onceKey' \cup cleared' /\ cleared \subseteq cleared'
    BY <1>1 DEF Submit, After, Cleanup, Dies
  <2> QED
    BY <1>0, <2>1, <2>2, <2>3, OrderKeep DEF Ordered
<1>2. ASSUME NEW c \in Cancels, CancelStep(c) PROVE OrderInv'
  <2>1. \A s \in Bets : rpc'[s] = rpc[s] /\ asked'[s] = asked[s]
    BY <1>0, <1>2 DEF CancelStep, CancelWindow, CancelLoad, CancelRefund, CancelCommit, Move
  <2>2. UNCHANGED bet \/ TakenBack(c)
    BY <1>2 DEF CancelStep, CancelWindow, CancelLoad, CancelRefund, CancelCommit, TakenBack,
       stateVars
  <2>3. UNCHANGED <<onceKey, cleared>>
    BY <1>2 DEF CancelStep, CancelWindow, CancelLoad, CancelRefund, CancelCommit
  <2>4. \A row \in BetRow : [row EXCEPT !.status = "CANCEL"].status = "CANCEL"
    BY DEF BetRow
  <2>5. \A b \in Bets : bet'[b] = bet[b] \/ bet'[b].status # "BET_DONE"
    BY <1>0, <2>2, <2>4 DEF TakenBack
  <2> QED
    BY <2>1, <2>3, <2>5, OrderKeep DEF Ordered
<1>3. ASSUME NEW b \in Bets, BetStep(b) PROVE OrderInv'
  <2>0. /\ \A s \in Requests \ {b} : rpc'[s] = rpc[s] /\ asked'[s] = asked[s]
        /\ UNCHANGED cleared
    BY <1>0, <1>3 DEF BetStep, BetWindow, BetOnce, BetPay, BetCommit, Move
  <2>1. CASE BetWindow(b)
    <3>1. UNCHANGED <<bet, onceKey>> /\ rpc'[b] \notin {"pay", "paid"}
      BY <1>0, <2>1 DEF BetWindow, Move, stateVars
    <3> QED
      BY <1>0, <2>0, <3>1, OrderKeep DEF Ordered
  <2>2. CASE BetPay(b)
    <3>1. /\ UNCHANGED <<bet, onceKey>> /\ rpc[b] = "pay"
          /\ rpc'[b] \in {"paid", "declined", "cleanup"} /\ asked'[b] = asked[b]
      BY <1>0, <2>2 DEF BetPay, Move, stateVars
    <3> QED
      BY <1>0, <2>0, <3>1, OrderKeep DEF Ordered
  <2>3. CASE BetCommit(b)
    <3>1. UNCHANGED onceKey /\ rpc'[b] \notin {"pay", "paid"}
      BY <1>0, <2>3 DEF BetCommit, Move
    <3>2. \A a \in Bets \ {b} : bet'[a] = bet[a]
      BY <1>0, <2>3 DEF BetCommit
    <3>3. \/ bet'[b] = bet[b]
          \/ bet'[b].status # "BET_DONE"
          \/ rpc[b] = "paid" /\ bet'[b].period = asked[b]
      BY <1>0, <2>3 DEF BetCommit
    <3> QED
      BY <1>0, <2>0, <3>1, <3>2, <3>3, OrderKeep DEF Ordered
  <2>4. CASE BetOnce(b)
    <3> DEFINE key == <<UserOf[b], asked[b]>>
    <3>1. UNCHANGED bet /\ rpc[b] = "once"
      BY <2>4 DEF BetOnce, stateVars
    <3>2. CASE ~FirstOrder(key)
      <4>1. UNCHANGED onceKey /\ rpc'[b] = "done"
        BY <1>0, <2>4, <3>2 DEF BetOnce, Move
      <4> QED
        BY <1>0, <2>0, <3>1, <4>1, OrderKeep DEF Ordered
    <3>3. CASE FirstOrder(key)
      <4>1. /\ onceKey' = onceKey \cup {key} /\ rpc'[b] = "pay" /\ asked'[b] = asked[b]
            /\ key \notin onceKey
        BY <1>0, <2>4, <3>3 DEF BetOnce, Move, FirstOrder
      <4>2. \A a \in Bets \ {b}, p \in 0 .. MaxPeriod : Ordered(a, p)' <=> Ordered(a, p)
        BY <1>0, <2>0, <3>1 DEF Ordered
      <4>3. \A p \in 0 .. MaxPeriod : Ordered(b, p)' => Ordered(b, p) \/ p = asked[b]
        BY <3>1, <4>1 DEF Ordered
      <4>4. ASSUME NEW a \in Bets \ {b}, NEW p \in 0 .. MaxPeriod, Ordered(a, p),
                   UserOf[a] = UserOf[b], p = asked[b]
            PROVE  key \in cleared
        BY <4>1, <4>4 DEF OrderInv
      <4>5. ASSUME NEW a \in Bets, NEW p \in 0 .. MaxPeriod, Ordered(a, p)'
            PROVE  <<UserOf[a], p>> \in onceKey' \cup cleared
        BY <4>1, <4>2, <4>3, <4>5 DEF OrderInv
      <4>6. ASSUME NEW a \in Bets, NEW p \in 0 .. MaxPeriod, Ordered(a, p)',
                   NEW c \in Bets \ {a}, Ordered(c, p)', UserOf[c] = UserOf[a]
            PROVE  <<UserOf[a], p>> \in cleared
        <5>1. CASE Ordered(a, p) /\ Ordered(c, p)
          BY <4>6, <5>1 DEF OrderInv
        <5>2. CASE a = b /\ p = asked[b]
          BY <4>2, <4>4, <4>6, <5>2
        <5>3. CASE c = b /\ p = asked[b]
          BY <4>2, <4>4, <4>6, <5>3
        <5> QED
          BY <4>2, <4>3, <4>6, <5>1, <5>2, <5>3
      <4> QED
        BY <2>0, <4>5, <4>6 DEF OrderInv
    <3> QED
      BY <3>2, <3>3
  <2> QED
    BY <1>3, <2>1, <2>2, <2>3, <2>4 DEF BetStep
<1> QED
  BY <1>1, <1>2, <1>3 DEF BetNext

\* Tasks put no bet into play.
LEMMA OrderOfDraw ==
  ASSUME TypeInv, OrderInv, DrawNext, UNCHANGED betVars
  PROVE  OrderInv'
<1>0. UNCHANGED <<rpc, asked, onceKey, cleared>> /\ bet \in [Bets -> BetRow]
  BY DEF betVars, TypeInv, TypeOK, StateTypeOK
<1>1. \A row \in BetRow : \A s \in {"PAY_ING", "BOMB", "WT_DONE", "WT_FAILED"} :
        [row EXCEPT !.status = s].status # "BET_DONE"
  BY DEF BetRow
<1>2. ASSUME NEW w \in Workers, CommitDraw(w), NEW b \in Bets
      PROVE  bet'[b] = bet[b] \/ bet'[b].status # "BET_DONE"
  <2>1. \/ bet'[b] = bet[b]
        \/ \E s \in {"PAY_ING", "BOMB"} : bet'[b] = [bet[b] EXCEPT !.status = s]
    BY <1>2 DEF CommitDraw
  <2> QED
    BY <1>0, <1>1, <2>1
<1>3. ASSUME NEW g \in SUBSET Bets, PayGroup(g), NEW b \in Bets
      PROVE  bet'[b] = bet[b] \/ bet'[b].status # "BET_DONE"
  <2>1. PICK outcome \in [g -> {"WT_DONE", "WT_FAILED", "silent"}] :
          bet' = [a \in Bets |-> IF a \in g /\ outcome[a] # "silent"
                                 THEN [bet[a] EXCEPT !.status = outcome[a]]
                                 ELSE bet[a]]
    BY <1>3 DEF PayGroup
  <2>2. \/ bet'[b] = bet[b]
        \/ \E s \in {"WT_DONE", "WT_FAILED"} : bet'[b] = [bet[b] EXCEPT !.status = s]
    BY <2>1
  <2> QED
    BY <1>0, <1>1, <2>2
<1>4. ASSUME NEW w \in Workers, ~CommitDraw(w),
             Poll(w) \/ WorkerStep(w) \/ DrawFails(w) \/ Crash(w)
      PROVE  UNCHANGED bet
  BY <1>4 DEF Poll, WorkerStep, AcquireTag, FetchPrice, SelectBets, DrawFails,
     PublishHistory, UpdateCurrent, CheckCurrent, InsertPeriod, PutCurrent, SubmitPayouts,
     Crash, stateVars
<1>5. JobLockExpires \/ (\E g \in SUBSET Bets : DropGroup(g)) => UNCHANGED bet
  BY DEF JobLockExpires, DropGroup, stateVars
<1>6. \A b \in Bets : bet'[b] = bet[b] \/ bet'[b].status # "BET_DONE"
  BY <1>2, <1>3, <1>4, <1>5 DEF DrawNext
<1> QED
  BY <1>0, <1>6, OrderKeep DEF Ordered

LEMMA OrderStep == TypeInv /\ OrderInv /\ [Next]_vars => OrderInv'
<1> SUFFICES ASSUME TypeInv, OrderInv, [Next]_vars PROVE OrderInv'
  OBVIOUS
<1>1. CASE Tick \/ TagsLapse \/ UNCHANGED vars
  <2>1. UNCHANGED <<bet, rpc, asked, onceKey, cleared>>
    BY <1>1 DEF Tick, TagsLapse, vars, stateVars, betVars
  <2> QED
    BY <2>1, OrderKeep DEF Ordered
<1> QED
  BY <1>1, OrderOfRequests, OrderOfDraw DEF Next

\* A player has two bets in play in a period only where the once-limit key of the
\* period was deleted, by a failed bet or a cancel: CoinBetServiceImpl.bet. This
\* holds from an empty deployment too.
THEOREM SecondOrder == Spec \/ ColdSpec => []SecondOrderNeedsCleanup
<1>1. TypeInv /\ OrderInv => SecondOrderNeedsCleanup
  <2> SUFFICES ASSUME TypeInv, OrderInv, NEW b \in Bets, NEW c \in Bets,
                      b # c, UserOf[b] = UserOf[c], bet[b].status = "BET_DONE",
                      bet[c].status = "BET_DONE", bet[b].period = bet[c].period
               PROVE  <<UserOf[b], bet[b].period>> \in cleared
    BY DEF SecondOrderNeedsCleanup
  <2>1. bet[b].period \in 0 .. MaxPeriod
    BY DEF TypeInv, TypeOK, StateTypeOK, BetRow
  <2> QED
    BY <2>1 DEF OrderInv, Ordered
<1>2. Spec \/ ColdSpec => AnyInit /\ [][Next]_vars
  BY DEF Spec, ColdSpec, AnyInit
<1> QED
  BY TypeInit, TypeStep, OrderInit, OrderStep, <1>1, <1>2, PTL
=============================================================================
