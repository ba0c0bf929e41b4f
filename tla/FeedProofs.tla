----------------------------- MODULE FeedProofs -----------------------------
(***************************************************************************)
(* Proofs about Feed, for every number of nodes, draws, seconds, prices,   *)
(* retries, looks and restarts: types, that a node without a connection    *)
(* has used up its retries, that the price a draw took for a second stays  *)
(* the only one of that second, and that no second a node has is forgotten *)
(* unless a restart or a failed call loses it.                             *)
(***************************************************************************)
EXTENDS Feed, TLAPS

USE FeedAssumption DEF FeedAssumption

(***************************************************************************)
(* The connection.                                                         *)
(***************************************************************************)

\* A node still has an attempt left as long as it has or makes a connection.
\* The count of failures is bounded only together with this.
AttemptsLeft ==
  \A n \in Nodes : IF socket[n] = "none" THEN retry[n] = MaxRetry ELSE retry[n] < MaxRetry

ConnTypeOK ==
  /\ socket \in [Nodes -> SocketAt]
  /\ state \in [Nodes -> BOOLEAN]
  /\ retry \in [Nodes -> 0 .. MaxRetry]

ConnInv == ConnTypeOK /\ AttemptsLeft

\* Steps that have nothing to do with connections.
Elsewhere ==
  \/ Tick
  \/ \E n \in Nodes : Pool(n)
  \/ \E s \in Secs : TagExpires(s)
  \/ \E d \in Draws : StartDraw(d) \/ Look(d)
  \/ UNCHANGED vars

\* They leave the connections alone.
LEMMA ConnFrame == Elsewhere => UNCHANGED conn
  BY DEF Elsewhere, Tick, Pool, AddTag, TagFails, AddWrite, AddFails, TagExpires, StartDraw,
         Look, vars, conn

\* A step of a connection keeps its types, and an attempt left or none.
LEMMA ConnStep ==
  ASSUME ConnInv, NEW n \in Nodes, Opens(n) \/ Breaks(n) \/ FallsSilent(n) \/ Crash(n)
  PROVE  ConnInv'
<1> USE DEF ConnInv, ConnTypeOK, AttemptsLeft, SocketAt
<1>1. CASE Opens(n)
  BY <1>1 DEF Opens
<1>2. CASE Breaks(n)
  <2>1. retry[n] < MaxRetry /\ retry[n] \in Nat
    BY <1>2 DEF Breaks
  <2>2. /\ retry' = [retry EXCEPT ![n] = @ + 1]
        /\ socket' = [socket EXCEPT ![n] =
                        IF retry[n] + 1 < MaxRetry THEN "connecting" ELSE "none"]
    BY <1>2 DEF Breaks, Restarts
  <2>3. ConnTypeOK'
    BY <1>2, <2>1, <2>2 DEF Breaks
  <2> QED
    BY <2>1, <2>2, <2>3
<1>3. CASE FallsSilent(n)
  BY <1>3 DEF FallsSilent
<1>4. CASE Crash(n)
  BY <1>4 DEF Crash
<1> QED
  BY <1>1, <1>2, <1>3, <1>4

\* Every step is one of a connection or one elsewhere.
LEMMA FeedSteps ==
  ASSUME [Next]_vars
  PROVE  \/ \E n \in Nodes : Opens(n) \/ Breaks(n) \/ FallsSilent(n) \/ Crash(n)
         \/ Elsewhere
  BY DEF Next, Elsewhere

\* Every step keeps it.
LEMMA ConnNext == ConnInv /\ [Next]_vars => ConnInv'
<1> SUFFICES ASSUME ConnInv, [Next]_vars PROVE ConnInv'
  OBVIOUS
<1>1. CASE \E n \in Nodes : Opens(n) \/ Breaks(n) \/ FallsSilent(n) \/ Crash(n)
  BY <1>1, ConnStep
<1>2. CASE Elsewhere
  <2>1. UNCHANGED conn
    BY <1>2, ConnFrame
  <2> QED
    BY <2>1 DEF conn, ConnInv, ConnTypeOK, AttemptsLeft
<1> QED
  BY <1>1, <1>2, FeedSteps

\* It holds at the start: every node is connecting for the first time.
LEMMA ConnStart == Init => ConnInv
  BY DEF Init, ConnInv, ConnTypeOK, AttemptsLeft, SocketAt

\* A node is left without a connection only after MaxRetry failures in a row:
\* the state startConnection looks at never stands in the way of the next one.
THEOREM GivesUpAfterRetries == Spec => []DeadOfRetriesOnly
<1>1. ConnInv => DeadOfRetriesOnly
  BY DEF ConnInv, AttemptsLeft, DeadOfRetriesOnly
<1> QED
  BY <1>1, ConnStart, ConnNext, PTL DEF Spec

(***************************************************************************)
(* The tickers and the draws.                                              *)
(***************************************************************************)

StoreTypeOK ==
  /\ inbox \in [Nodes -> SUBSET Secs]
  /\ adding \in [Nodes -> SUBSET Ticker]
  /\ tag \subseteq Secs
  /\ ticker \subseteq Ticker

DrawTypeOK ==
  draw \in [Draws -> [at : DrawAt, looks : 0 .. Looks, took : SUBSET Ticker]]

RestTypeOK ==
  /\ now \in 0 .. LastSec
  /\ crashes \in 0 .. MaxCrash
  /\ missed \subseteq Secs /\ stale \subseteq Secs

\* A draw that is not over has a look left: without it the count of looks would
\* have no bound.
LooksLeft == \A d \in Draws : draw[d].at \in {"idle", "looking"} => draw[d].looks < Looks

FeedInv == ConnInv /\ StoreTypeOK /\ DrawTypeOK /\ RestTypeOK /\ LooksLeft

\* It is the type invariant, and more.
LEMMA FeedInvTypes == FeedInv => TypeOK
  BY DEF FeedInv, ConnInv, ConnTypeOK, StoreTypeOK, DrawTypeOK, RestTypeOK, TypeOK

\* A ticker is of a second.
LEMMA TickerTime == \A t \in Ticker : t.time \in Secs
  BY DEF Ticker

\* A new ticker is one.
LEMMA NewTicker ==
  ASSUME NEW s \in Secs, NEW p \in Prices
  PROVE  [time |-> s, price |-> p] \in Ticker /\ [time |-> s, price |-> p].time = s
  BY DEF Ticker

\* What one look of a draw can do.
Looked(d) ==
  \/ draw[d].looks + 1 # Looks /\ draw' = [draw EXCEPT ![d].looks = @ + 1]
  \/ \E T \in SUBSET ticker : Finish(d, T)

LEMMA LookCases ==
  ASSUME NEW d \in Draws, Look(d)
  PROVE  draw[d].at = "looking" /\ Looked(d)
<1>1. draw[d].at = "looking"
  BY DEF Look
<1>2. Upto \subseteq ticker /\ Latest(Upto) \subseteq ticker
  BY DEF Upto, Latest
<1>3. \A t : Earlier(t) \subseteq ticker
  BY DEF Upto, Latest, Earlier
<1>4. CASE Finish(d, {})
  BY <1>1, <1>4 DEF Looked
<1>5. ASSUME NEW t \in Latest(Upto),
             IF t.time = DrawSec \/ draw[d].looks + 1 = Looks
               THEN \/ \E u \in Earlier(t) : Finish(d, {t, u})
                    \/ Earlier(t) = {} /\ Finish(d, {t})
               ELSE draw' = [draw EXCEPT ![d].looks = @ + 1]
      PROVE  Looked(d)
  <2>1. ASSUME NEW u \in Earlier(t), Finish(d, {t, u}) PROVE Looked(d)
    <3>1. {t, u} \in SUBSET ticker
      BY <1>2, <1>3
    <3> QED
      BY <2>1, <3>1 DEF Looked
  <2>2. ASSUME Finish(d, {t}) PROVE Looked(d)
    <3>1. {t} \in SUBSET ticker
      BY <1>2
    <3> QED
      BY <2>2, <3>1 DEF Looked
  <2>3. ASSUME draw[d].looks + 1 # Looks, draw' = [draw EXCEPT ![d].looks = @ + 1]
        PROVE  Looked(d)
    BY <2>3 DEF Looked
  <2> QED
    BY <1>5, <2>1, <2>2, <2>3
<1> QED
  BY <1>1, <1>4, <1>5 DEF Look

\* A row of a draw with another state, number of looks or tickers.
LEMMA RowTypes ==
  ASSUME NEW row \in [at : DrawAt, looks : 0 .. Looks, took : SUBSET Ticker],
         NEW a \in DrawAt, NEW T \in SUBSET Ticker
  PROVE  /\ [row EXCEPT !.at = a] = [at |-> a, looks |-> row.looks, took |-> row.took]
         /\ [row EXCEPT !.looks = @ + 1]
               = [at |-> row.at, looks |-> row.looks + 1, took |-> row.took]
         /\ [row EXCEPT !.at = a, !.took = T]
               = [at |-> a, looks |-> row.looks, took |-> T]
<1>1. [row EXCEPT !.at = a] = [at |-> a, looks |-> row.looks, took |-> row.took]
  OBVIOUS
<1>2. [row EXCEPT !.looks = @ + 1]
        = [at |-> row.at, looks |-> row.looks + 1, took |-> row.took]
  OBVIOUS
<1>3. [row EXCEPT !.at = a, !.took = T]
        = [at |-> a, looks |-> row.looks, took |-> T]
  <2>1. row = [at |-> row.at, looks |-> row.looks, took |-> row.took]
    OBVIOUS
  <2> DEFINE new == [row EXCEPT !.at = a, !.took = T]
  <2>2. new \in [at : DrawAt, looks : 0 .. Looks, took : SUBSET Ticker]
    OBVIOUS
  <2>3. new.at = a /\ new.looks = row.looks /\ new.took = T
    OBVIOUS
  <2> HIDE DEF new
  <2>4. new = [at |-> new.at, looks |-> new.looks, took |-> new.took]
    BY <2>2
  <2> QED
    BY <2>3, <2>4 DEF new
<1> QED
  BY <1>1, <1>2, <1>3

\* A look of a draw, one of its tickers: what becomes of the draw.
LEMMA LookRow ==
  ASSUME StoreTypeOK, DrawTypeOK, NEW d \in Draws, Look(d)
  PROVE  \E row : /\ draw' = [draw EXCEPT ![d] = row]
                  /\ \/ /\ draw[d].looks + 1 # Looks
                        /\ row = [at |-> "looking", looks |-> draw[d].looks + 1,
                                  took |-> draw[d].took]
                     \/ \E T \in SUBSET ticker, a \in {"drawn", "failed"} :
                          row = [at |-> a, looks |-> draw[d].looks, took |-> T]
<1>1. draw[d] \in [at : DrawAt, looks : 0 .. Looks, took : SUBSET Ticker]
  BY DEF DrawTypeOK
<1>2. draw[d].at = "looking" /\ Looked(d)
  BY LookCases
<1>3. ASSUME draw[d].looks + 1 # Looks, draw' = [draw EXCEPT ![d].looks = @ + 1]
      PROVE  /\ draw' = [draw EXCEPT ![d] = [draw[d] EXCEPT !.looks = @ + 1]]
             /\ [draw[d] EXCEPT !.looks = @ + 1]
                  = [at |-> "looking", looks |-> draw[d].looks + 1, took |-> draw[d].took]
  BY <1>1, <1>2, <1>3, RowTypes
<1>4. ASSUME NEW T \in SUBSET ticker, Finish(d, T)
      PROVE  \E U \in SUBSET ticker, a \in {"drawn", "failed"} :
               draw' = [draw EXCEPT ![d] = [at |-> a, looks |-> draw[d].looks, took |-> U]]
  <2> DEFINE a == IF Cardinality(T) = 2 THEN "drawn" ELSE "failed"
             U == IF Cardinality(T) = 2 THEN T ELSE {}
  <2>1. a \in {"drawn", "failed"} /\ U \in SUBSET ticker
    OBVIOUS
  <2>4. a \in DrawAt /\ U \in SUBSET Ticker
    BY DEF DrawAt, StoreTypeOK
  <2>2. draw' = [draw EXCEPT ![d] = [draw[d] EXCEPT !.at = a, !.took = U]]
    BY <1>4 DEF Finish, DrawTypeOK
  <2> HIDE DEF a, U
  <2>3. [draw[d] EXCEPT !.at = a, !.took = U]
          = [at |-> a, looks |-> draw[d].looks, took |-> U]
    BY <1>1, <2>4, RowTypes
  <2> QED
    BY <2>1, <2>2, <2>3
<1> QED
  BY <1>2, <1>3, <1>4 DEF Looked

\* The store keeps its types.
LEMMA StoreNext == FeedInv /\ [Next]_vars => StoreTypeOK'
<1> SUFFICES ASSUME FeedInv, [Next]_vars PROVE StoreTypeOK'
  OBVIOUS
<1>0. StoreTypeOK /\ now \in 0 .. LastSec
  BY DEF FeedInv, RestTypeOK
<1>1. ASSUME UNCHANGED store PROVE StoreTypeOK'
  BY <1>0, <1>1 DEF store, StoreTypeOK
<1>2. ASSUME NEW n \in Nodes, Opens(n) \/ Breaks(n) \/ FallsSilent(n) PROVE StoreTypeOK'
  <2>1. UNCHANGED store
    BY <1>2 DEF Opens, Breaks, FallsSilent
  <2> QED
    BY <1>1, <2>1
<1>3. ASSUME NEW n \in Nodes, Crash(n) PROVE StoreTypeOK'
  BY <1>0, <1>3 DEF Crash, StoreTypeOK
<1>4. ASSUME NEW n \in Nodes, NEW s \in Secs, AddTag(n, s) PROVE StoreTypeOK'
  <2>1. inbox' \in [Nodes -> SUBSET Secs] /\ tag' \subseteq Secs /\ ticker' \subseteq Ticker
    BY <1>0, <1>4 DEF AddTag, StoreTypeOK
  <2>2. CASE UNCHANGED adding
    BY <1>0, <2>1, <2>2 DEF StoreTypeOK
  <2>3. ASSUME NEW p \in Prices,
               adding' = [adding EXCEPT ![n] = @ \cup {[time |-> s, price |-> p]}]
        PROVE  StoreTypeOK'
    BY <1>0, <2>1, <2>3, NewTicker DEF StoreTypeOK
  <2> QED
    BY <1>4, <2>2, <2>3 DEF AddTag
<1>5. ASSUME NEW n \in Nodes, NEW t, AddWrite(n, t) \/ AddFails(n, t) PROVE StoreTypeOK'
  BY <1>0, <1>5 DEF AddWrite, AddFails, StoreTypeOK
<1>6. CASE Tick
  BY <1>0, <1>6 DEF Tick, Secs, StoreTypeOK
<1>7. ASSUME NEW s \in Secs, TagExpires(s) PROVE StoreTypeOK'
  BY <1>0, <1>7 DEF TagExpires, StoreTypeOK
<1>8. ASSUME NEW d \in Draws, StartDraw(d) \/ Look(d) PROVE StoreTypeOK'
  <2>1. UNCHANGED store
    BY <1>8 DEF StartDraw, Look
  <2> QED
    BY <1>1, <2>1
<1>9. CASE UNCHANGED vars
  BY <1>1, <1>9 DEF vars, store
<1>10. ASSUME NEW n \in Nodes, NEW s \in Secs, TagFails(n, s) PROVE StoreTypeOK'
  BY <1>0, <1>10 DEF TagFails, StoreTypeOK
<1>11. ASSUME NEW n \in Nodes, Pool(n) PROVE StoreTypeOK'
  BY <1>4, <1>5, <1>10, <1>11 DEF Pool
<1> QED
  BY <1>2, <1>3, <1>6, <1>7, <1>8, <1>9, <1>11 DEF Next

\* The draws keep their types, and a draw that is not over a look.
LEMMA DrawNext == FeedInv /\ [Next]_vars => DrawTypeOK' /\ LooksLeft'
<1> SUFFICES ASSUME FeedInv, [Next]_vars PROVE DrawTypeOK' /\ LooksLeft'
  OBVIOUS
<1>0. StoreTypeOK /\ DrawTypeOK /\ LooksLeft
  BY DEF FeedInv
<1>1. ASSUME UNCHANGED draw PROVE DrawTypeOK' /\ LooksLeft'
  BY <1>0, <1>1 DEF DrawTypeOK, LooksLeft
<1>2. ASSUME NEW d \in Draws, StartDraw(d) PROVE DrawTypeOK' /\ LooksLeft'
  <2>1. draw[d] \in [at : DrawAt, looks : 0 .. Looks, took : SUBSET Ticker]
    BY <1>0 DEF DrawTypeOK
  <2>2. draw' = [draw EXCEPT ![d] = [draw[d] EXCEPT !.at = "looking"]]
    BY <1>2 DEF StartDraw
  <2>3. [draw[d] EXCEPT !.at = "looking"]
          = [at |-> "looking", looks |-> draw[d].looks, took |-> draw[d].took]
    BY <2>1, RowTypes DEF DrawAt
  <2>4. draw[d].looks < Looks
    BY <1>0, <1>2 DEF LooksLeft, StartDraw
  <2> QED
    BY <1>0, <2>1, <2>2, <2>3, <2>4 DEF DrawTypeOK, LooksLeft, DrawAt
<1>3. ASSUME NEW d \in Draws, Look(d) PROVE DrawTypeOK' /\ LooksLeft'
  <2>1. draw[d] \in [at : DrawAt, looks : 0 .. Looks, took : SUBSET Ticker]
    BY <1>0 DEF DrawTypeOK
  <2>2. draw[d].looks < Looks
    BY <1>0, <1>3, LookCases DEF LooksLeft
  <2>3. PICK row : /\ draw' = [draw EXCEPT ![d] = row]
                   /\ \/ /\ draw[d].looks + 1 # Looks
                         /\ row = [at |-> "looking", looks |-> draw[d].looks + 1,
                                   took |-> draw[d].took]
                      \/ \E T \in SUBSET ticker, a \in {"drawn", "failed"} :
                           row = [at |-> a, looks |-> draw[d].looks, took |-> T]
    BY <1>0, <1>3, LookRow
  <2>4. row \in [at : DrawAt, looks : 0 .. Looks, took : SUBSET Ticker]
    BY <1>0, <2>1, <2>2, <2>3 DEF StoreTypeOK, DrawAt
  <2>5. row.at \in {"idle", "looking"} => row.looks < Looks
    BY <2>1, <2>2, <2>3
  <2>6. draw' = [draw EXCEPT ![d] = row]
    BY <2>3
  <2> QED
    BY <1>0, <2>4, <2>5, <2>6 DEF DrawTypeOK, LooksLeft
<1>4. CASE (\E n \in Nodes : Opens(n) \/ Breaks(n) \/ FallsSilent(n) \/ Crash(n) \/ Pool(n))
           \/ Tick \/ (\E s \in Secs : TagExpires(s)) \/ UNCHANGED vars
  <2>1. UNCHANGED draw
    BY <1>4 DEF Opens, Breaks, FallsSilent, Crash, Pool, AddTag, TagFails, AddWrite,
                AddFails, Tick, TagExpires, vars
  <2> QED
    BY <1>1, <2>1
<1> QED
  BY <1>2, <1>3, <1>4 DEF Next

\* The clock, the restarts and the history keep their types.
LEMMA RestNext == FeedInv /\ [Next]_vars => RestTypeOK'
<1> SUFFICES ASSUME FeedInv, [Next]_vars PROVE RestTypeOK'
  OBVIOUS
<1> USE DEF RestTypeOK
<1>0. RestTypeOK /\ StoreTypeOK
  BY DEF FeedInv
<1>1. ASSUME UNCHANGED <<now, crashes, missed, stale>> PROVE RestTypeOK'
  BY <1>0, <1>1
<1>2. ASSUME NEW n \in Nodes, Crash(n) PROVE RestTypeOK'
  <2>1. OnlyAt(n, inbox[n]) \subseteq Secs /\ {t.time : t \in adding[n]} \subseteq Secs
    BY <1>0, TickerTime DEF StoreTypeOK, OnlyAt
  <2>2. missed' \subseteq Secs /\ stale' \subseteq Secs /\ now' \in 0 .. LastSec
    BY <1>0, <1>2, <2>1 DEF Crash
  <2>3. crashes' \in 0 .. MaxCrash
    BY <1>0, <1>2 DEF Crash
  <2> QED
    BY <2>2, <2>3
<1>3. CASE Tick
  BY <1>0, <1>3 DEF Tick
<1>4. ASSUME NEW s \in Secs, TagExpires(s) PROVE RestTypeOK'
  BY <1>0, <1>4 DEF TagExpires
<1>5. ASSUME NEW n \in Nodes, Pool(n) PROVE RestTypeOK'
  <2>1. ASSUME NEW s \in Secs, AddTag(n, s) PROVE RestTypeOK'
    BY <1>1, <2>1 DEF AddTag
  <2>2. ASSUME NEW s \in Secs, TagFails(n, s) PROVE RestTypeOK'
    BY <1>0, <2>2 DEF TagFails, OnlyAt
  <2>3. ASSUME NEW t, AddWrite(n, t) PROVE RestTypeOK'
    BY <1>1, <2>3 DEF AddWrite
  <2>4. ASSUME NEW t, AddFails(n, t) PROVE RestTypeOK'
    <3>1. t.time \in Secs
      BY <1>0, <2>4, TickerTime DEF AddFails, StoreTypeOK
    <3> QED
      BY <1>0, <2>4, <3>1 DEF AddFails
  <2> QED
    BY <1>5, <2>1, <2>2, <2>3, <2>4 DEF Pool
<1>6. CASE \/ \E n \in Nodes : Opens(n) \/ Breaks(n) \/ FallsSilent(n)
           \/ \E d \in Draws : StartDraw(d) \/ Look(d)
           \/ UNCHANGED vars
  <2>1. UNCHANGED <<now, crashes, missed, stale>>
    BY <1>6 DEF Opens, Breaks, FallsSilent, StartDraw, Look, vars
  <2> QED
    BY <1>1, <2>1
<1> QED
  BY <1>2, <1>3, <1>4, <1>5, <1>6 DEF Next

\* The invariant of the types is inductive.
LEMMA FeedNext == FeedInv /\ [Next]_vars => FeedInv'
  BY ConnNext, StoreNext, DrawNext, RestNext DEF FeedInv

\* It holds at the start.
LEMMA FeedStart == Init => FeedInv
<1> SUFFICES ASSUME Init PROVE FeedInv
  OBVIOUS
<1>1. StoreTypeOK /\ RestTypeOK
  BY DEF Init, StoreTypeOK, RestTypeOK
<1>2. NoDraw \in [at : DrawAt, looks : 0 .. Looks, took : SUBSET Ticker]
  BY DEF NoDraw, DrawAt
<1>3. DrawTypeOK /\ LooksLeft
  BY <1>2 DEF Init, DrawTypeOK, LooksLeft, NoDraw
<1> QED
  BY <1>1, <1>3, ConnStart DEF FeedInv

\* The types of the feed: no node counts more failures than MaxRetry and no draw
\* looks more than Looks times, whatever the exchange and the nodes do.
THEOREM FeedTypes == Spec => []TypeOK
<1>1. Spec => []FeedInv
  BY FeedStart, FeedNext, PTL DEF Spec
<1> QED
  BY <1>1, FeedInvTypes, PTL

(***************************************************************************)
(* The price of a second.                                                  *)
(***************************************************************************)

\* The tickers that are written, or will be by a thread that set the tag.
Written == ticker \cup UNION {adding[n] : n \in Nodes}

\* Tickers that wait, are being written or are stored are of seconds that have been.
PastOnly ==
  /\ \A n \in Nodes : \A s \in inbox[n] : s <= now
  /\ \A t \in Written : t.time <= now

\* A ticker of the second waits in a pool.
Waits(s) == \E n \in Nodes : s \in inbox[n]

\* A second has at most one of them as long as its tag stands, which keeps out
\* every other: the tag is set in one step with the look at it.  It may go when no
\* ticker of the second waits any more.
OneOfTheSecond ==
  \A t \in Written :
    t.time \in stale \/ ( /\ t.time \in tag \/ ~Waits(t.time)
                          /\ \A u \in Written : u.time = t.time => u = t )

\* A ticker once written stays, so what a draw took is there.
TookIsWritten == \A d \in Draws : draw[d].took \subseteq ticker

PriceInv == FeedInv /\ PastOnly /\ OneOfTheSecond /\ TookIsWritten

\* A step that lets no ticker in and takes no tag away keeps it.
LEMMA OneKept ==
  ASSUME OneOfTheSecond, Written' \subseteq Written, tag \subseteq tag', stale' = stale,
         \A s : Waits(s)' => Waits(s)
  PROVE  OneOfTheSecond'
  BY DEF OneOfTheSecond

\* What a step lets in: nothing new but a ticker of the pool that set its tag, and
\* the tickers of the second that begins.
LEMMA PoolIn ==
  ASSUME StoreTypeOK, NEW n \in Nodes, NEW s \in Secs, inbox' = [inbox EXCEPT ![n] = @ \ {s}]
  PROVE  \A r : Waits(r)' => Waits(r)
  BY DEF StoreTypeOK, Waits

\* Every step keeps tickers in the past.
LEMMA PastNext == PriceInv /\ [Next]_vars => PastOnly'
<1> SUFFICES ASSUME PriceInv, [Next]_vars PROVE PastOnly'
  OBVIOUS
<1>0. PastOnly /\ StoreTypeOK /\ now \in 0 .. LastSec
  BY DEF PriceInv, FeedInv, RestTypeOK
<1>1. ASSUME UNCHANGED <<now, inbox, adding, ticker>> PROVE PastOnly'
  BY <1>0, <1>1 DEF PastOnly, Written
<1>2. ASSUME \A n \in Nodes : inbox'[n] \subseteq inbox[n], Written' \subseteq Written,
             now' = now
      PROVE  PastOnly'
  BY <1>0, <1>2 DEF PastOnly
<1>3. ASSUME NEW n \in Nodes, Crash(n) PROVE PastOnly'
  BY <1>0, <1>2, <1>3 DEF Crash, Written, StoreTypeOK
<1>4. ASSUME NEW n \in Nodes, NEW s \in Secs, TagFails(n, s) PROVE PastOnly'
  BY <1>0, <1>2, <1>4 DEF TagFails, Written, StoreTypeOK
<1>5. ASSUME NEW n \in Nodes, NEW t, AddWrite(n, t) \/ AddFails(n, t) PROVE PastOnly'
  BY <1>0, <1>2, <1>5 DEF AddWrite, AddFails, Written, StoreTypeOK
<1>6. ASSUME NEW n \in Nodes, NEW s \in Secs, AddTag(n, s) PROVE PastOnly'
  <2>1. s <= now
    BY <1>0, <1>6 DEF AddTag, PastOnly
  <2>2. now' = now /\ \A m \in Nodes : inbox'[m] \subseteq inbox[m]
    BY <1>0, <1>6 DEF AddTag, StoreTypeOK
  <2>3. CASE UNCHANGED adding
    BY <1>2, <1>6, <2>2, <2>3 DEF AddTag, Written
  <2>4. ASSUME NEW p \in Prices,
               adding' = [adding EXCEPT ![n] = @ \cup {[time |-> s, price |-> p]}]
        PROVE  PastOnly'
    <3>1. Written' \subseteq Written \cup {[time |-> s, price |-> p]}
      BY <1>0, <1>6, <2>4 DEF AddTag, Written, StoreTypeOK
    <3>2. \A t \in Written' : t.time <= now'
      BY <1>0, <2>1, <2>2, <3>1 DEF PastOnly
    <3> QED
      BY <1>0, <2>2, <3>2 DEF PastOnly
  <2> QED
    BY <1>6, <2>3, <2>4 DEF AddTag
<1>7. CASE Tick
  <2>1. now' = now + 1 /\ Written' = Written
    BY <1>7 DEF Tick, Written
  <2>2. \A n \in Nodes : \A s \in inbox'[n] : s \in inbox[n] \/ s = now + 1
    BY <1>7 DEF Tick
  <2>3. \A n \in Nodes : \A s \in inbox[n] : s \in Nat
    BY <1>0 DEF StoreTypeOK, Secs
  <2>4. \A t \in Written : t.time \in Nat
    BY <1>0, TickerTime DEF Written, StoreTypeOK, Secs
  <2>5. \A n \in Nodes : \A s \in inbox'[n] : s <= now'
    BY <1>0, <2>1, <2>2, <2>3 DEF PastOnly
  <2>6. \A t \in Written' : t.time <= now'
    BY <1>0, <2>1, <2>4 DEF PastOnly
  <2> QED
    BY <2>5, <2>6 DEF PastOnly
<1>8. CASE \/ \E n \in Nodes : Opens(n) \/ Breaks(n) \/ FallsSilent(n)
           \/ \E s \in Secs : TagExpires(s)
           \/ \E d \in Draws : StartDraw(d) \/ Look(d)
           \/ UNCHANGED vars
  <2>1. UNCHANGED <<now, inbox, adding, ticker>>
    BY <1>8 DEF Opens, Breaks, FallsSilent, TagExpires, StartDraw, Look, vars, store
  <2> QED
    BY <1>1, <2>1
<1> QED
  BY <1>3, <1>4, <1>5, <1>6, <1>7, <1>8 DEF Next, Pool

\* Every step keeps one ticker of a second.
LEMMA OneNext == PriceInv /\ [Next]_vars => OneOfTheSecond'
<1> SUFFICES ASSUME PriceInv, [Next]_vars PROVE OneOfTheSecond'
  OBVIOUS
<1>0. OneOfTheSecond /\ StoreTypeOK /\ PastOnly /\ now \in 0 .. LastSec
  BY DEF PriceInv, FeedInv, RestTypeOK
<1>1. ASSUME UNCHANGED <<inbox, adding, ticker, tag, stale>> PROVE OneOfTheSecond'
  BY <1>0, <1>1 DEF OneOfTheSecond, Written, Waits
<1>2. ASSUME NEW n \in Nodes, Crash(n) PROVE OneOfTheSecond'
  <2>1. Written' \subseteq Written /\ tag' = tag /\ stale' = stale
    BY <1>0, <1>2 DEF Crash, Written, StoreTypeOK
  <2>2. \A s : Waits(s)' => Waits(s)
    BY <1>0, <1>2 DEF Crash, Waits, StoreTypeOK
  <2> QED
    BY <1>0, <2>1, <2>2, OneKept
<1>3. ASSUME NEW n \in Nodes, NEW s \in Secs, AddTag(n, s) PROVE OneOfTheSecond'
  <2>1. tag' = tag \cup {s} /\ stale' = stale /\ ticker' = ticker
    BY <1>3 DEF AddTag
  <2>2. \A r : Waits(r)' => Waits(r)
    BY <1>0, <1>3, PoolIn DEF AddTag
  <2>3. CASE s \in tag
    <3>1. Written' = Written
      BY <1>3, <2>1, <2>3 DEF AddTag, Written
    <3> QED
      BY <1>0, <2>1, <2>2, <3>1, OneKept
  <2>4. CASE s \notin tag
    <3>1. PICK p \in Prices : adding' = [adding EXCEPT ![n] = @ \cup {[time |-> s, price |-> p]}]
      BY <1>3, <2>4 DEF AddTag
    <3> DEFINE new == [time |-> s, price |-> p]
    <3>2. new.time = s
      OBVIOUS
    <3> HIDE DEF new
    <3>3. Written' \subseteq Written \cup {new}
      BY <1>0, <2>1, <3>1 DEF Written, StoreTypeOK, new
    <3>4. Waits(s)
      BY <1>3 DEF AddTag, Waits
    <3>5. s \in stale \/ \A t \in Written : t.time # s
      BY <1>0, <2>4, <3>4 DEF OneOfTheSecond
    <3> QED
      BY <1>0, <2>1, <2>2, <3>2, <3>3, <3>5 DEF OneOfTheSecond
  <2> QED
    BY <2>3, <2>4
<1>4. ASSUME NEW n \in Nodes, NEW s \in Secs, TagFails(n, s) PROVE OneOfTheSecond'
  <2>1. \A r : Waits(r)' => Waits(r)
    BY <1>0, <1>4, PoolIn DEF TagFails
  <2>2. Written' = Written /\ tag \subseteq tag' /\ stale' = stale
    BY <1>4 DEF TagFails, Written
  <2> QED
    BY <1>0, <2>1, <2>2, OneKept
<1>5. ASSUME NEW n \in Nodes, NEW t, AddWrite(n, t) \/ AddFails(n, t) PROVE OneOfTheSecond'
  <2>1. Written' \subseteq Written /\ tag' = tag /\ stale' = stale
    BY <1>0, <1>5 DEF AddWrite, AddFails, Written, StoreTypeOK
  <2>2. \A s : Waits(s)' => Waits(s)
    BY <1>5 DEF AddWrite, AddFails, Waits
  <2> QED
    BY <1>0, <2>1, <2>2, OneKept
<1>6. ASSUME NEW s \in Secs, TagExpires(s) PROVE OneOfTheSecond'
  <2>1. Written' = Written /\ tag' = tag \ {s} /\ inbox' = inbox
    BY <1>6 DEF TagExpires, Written
  <2>2. stale' = IF Waits(s) THEN stale \cup {s} ELSE stale
    BY <1>6 DEF TagExpires, Waits
  <2>3. \A r : Waits(r)' <=> Waits(r)
    BY <2>1 DEF Waits
  <2>4. CASE Waits(s)
    BY <1>0, <2>1, <2>2, <2>3, <2>4 DEF OneOfTheSecond
  <2>5. CASE ~Waits(s)
    BY <1>0, <2>1, <2>2, <2>3, <2>5 DEF OneOfTheSecond
  <2> QED
    BY <2>4, <2>5
<1>7. CASE Tick
  <2>1. Written' = Written /\ tag' = tag /\ stale' = stale
    BY <1>7 DEF Tick, Written
  <2>2. \A s : Waits(s)' => Waits(s) \/ s = now + 1
    BY <1>7 DEF Tick, Waits
  <2>3. \A t \in Written : t.time # now + 1
    <3> SUFFICES ASSUME NEW t \in Written PROVE t.time # now + 1
      OBVIOUS
    <3>1. t.time \in Nat
      BY <1>0, TickerTime DEF Written, StoreTypeOK, Secs
    <3> QED
      BY <1>0, <3>1 DEF PastOnly
  <2> QED
    BY <1>0, <2>1, <2>2, <2>3 DEF OneOfTheSecond
<1>8. CASE \/ \E n \in Nodes : Opens(n) \/ Breaks(n) \/ FallsSilent(n)
           \/ \E d \in Draws : StartDraw(d) \/ Look(d)
           \/ UNCHANGED vars
  <2>1. UNCHANGED <<inbox, adding, ticker, tag, stale>>
    BY <1>8 DEF Opens, Breaks, FallsSilent, StartDraw, Look, vars, store
  <2> QED
    BY <1>1, <2>1
<1> QED
  BY <1>2, <1>3, <1>4, <1>5, <1>6, <1>7, <1>8 DEF Next, Pool

\* Every step keeps what a draw took.
LEMMA TookNext == PriceInv /\ [Next]_vars => TookIsWritten'
<1> SUFFICES ASSUME PriceInv, [Next]_vars PROVE TookIsWritten'
  OBVIOUS
<1>0. TookIsWritten /\ StoreTypeOK /\ DrawTypeOK
  BY DEF PriceInv, FeedInv
<1>1. ticker \subseteq ticker'
  BY DEF Next, Opens, Breaks, FallsSilent, Crash, Pool, AddTag, TagFails, AddWrite, AddFails,
         Tick, TagExpires, StartDraw, Look, vars, store
<1>2. ASSUME UNCHANGED draw PROVE TookIsWritten'
  BY <1>0, <1>1, <1>2 DEF TookIsWritten
<1>3. ASSUME NEW d \in Draws, StartDraw(d) PROVE TookIsWritten'
  <2>1. draw' = [draw EXCEPT ![d].at = "looking"]
    BY <1>3 DEF StartDraw
  <2>2. \A e \in Draws : draw'[e].took = draw[e].took
    BY <1>0, <2>1 DEF DrawTypeOK
  <2> QED
    BY <1>0, <1>1, <2>2 DEF TookIsWritten
<1>4. ASSUME NEW d \in Draws, Look(d) PROVE TookIsWritten'
  <2>1. PICK row : /\ draw' = [draw EXCEPT ![d] = row]
                   /\ \/ /\ draw[d].looks + 1 # Looks
                         /\ row = [at |-> "looking", looks |-> draw[d].looks + 1,
                                   took |-> draw[d].took]
                      \/ \E T \in SUBSET ticker, a \in {"drawn", "failed"} :
                           row = [at |-> a, looks |-> draw[d].looks, took |-> T]
    BY <1>0, <1>4, LookRow
  <2>2. row.took \subseteq ticker
    BY <1>0, <2>1 DEF TookIsWritten
  <2>3. draw' = [draw EXCEPT ![d] = row]
    BY <2>1
  <2> QED
    BY <1>0, <1>1, <2>2, <2>3 DEF TookIsWritten, DrawTypeOK
<1>5. CASE \/ \E n \in Nodes : Opens(n) \/ Breaks(n) \/ FallsSilent(n) \/ Crash(n) \/ Pool(n)
           \/ Tick \/ (\E s \in Secs : TagExpires(s)) \/ UNCHANGED vars
  <2>1. UNCHANGED draw
    BY <1>5 DEF Opens, Breaks, FallsSilent, Crash, Pool, AddTag, TagFails, AddWrite,
                AddFails, Tick, TagExpires, vars
  <2> QED
    BY <1>2, <2>1
<1> QED
  BY <1>3, <1>4, <1>5 DEF Next

\* The invariant of the price is inductive.
LEMMA PriceNext == PriceInv /\ [Next]_vars => PriceInv'
  BY FeedNext, PastNext, OneNext, TookNext DEF PriceInv

\* It holds at the start.
LEMMA PriceStart == Init => PriceInv
<1> SUFFICES ASSUME Init PROVE PriceInv
  OBVIOUS
<1>1. Written = {}
  BY DEF Init, Written
<1>2. TookIsWritten
  BY DEF Init, TookIsWritten, NoDraw
<1>3. PastOnly
  BY <1>1 DEF Init, PastOnly
<1> QED
  BY <1>1, <1>2, <1>3, FeedStart DEF PriceInv, OneOfTheSecond

\* What a draw took for a second is the one ticker of that second and stays it,
\* whichever node wrote it, unless the tag ran out while a ticker waited.
THEOREM PriceStands == Spec => []DrawPriceStands
<1>1. PriceInv => DrawPriceStands
  <2> SUFFICES ASSUME PriceInv, NEW d \in Draws, NEW t \in draw[d].took, t.time \notin stale
               PROVE  {u \in ticker : u.time = t.time} = {t}
    BY DEF DrawPriceStands
  <2>1. t \in ticker /\ ticker \subseteq Written
    BY DEF PriceInv, TookIsWritten, Written
  <2> QED
    BY <2>1 DEF PriceInv, OneOfTheSecond
<1> QED
  BY <1>1, PriceStart, PriceNext, PTL DEF Spec

(***************************************************************************)
(* No second is forgotten.                                                 *)
(***************************************************************************)

\* A node of the second's ticker has it yet, is writing it, has written it, or the
\* second is lost for all with a named cause.
Kept(s) ==
  \/ Waits(s)
  \/ \E t \in Written : t.time = s
  \/ s \in missed

\* A tag keeps other nodes from writing a second only on behalf of a node that
\* writes it or wrote it; else the second is in missed.
TagIsMeant == \A s \in tag : s \in missed \/ \E t \in Written : t.time = s

\* A second that is kept stays so.
KeptStays == \A s \in Secs : Kept(s) => Kept(s)'

KeptInv == FeedInv /\ TagIsMeant

\* Nothing of it is lost where no ticker goes and no tag comes.
LEMMA KeptFrame ==
  ASSUME TagIsMeant, tag' \subseteq tag, Written \subseteq Written', missed \subseteq missed',
         \A s : Waits(s) => Waits(s)'
  PROVE  TagIsMeant' /\ KeptStays
<1>1. TagIsMeant'
  BY DEF TagIsMeant
<1>2. KeptStays
  BY DEF KeptStays, Kept
<1> QED
  BY <1>1, <1>2

\* What of a pool's tickers is dropped waits at another node, is taken, or is lost.
LEMMA DropKept ==
  ASSUME TagIsMeant, NEW n \in Nodes, NEW S, NEW s \in Secs, s \in inbox[n] => s \in S \/ Waits(s)',
         \A m \in Nodes \ {n} : inbox'[m] = inbox[m], Kept(s),
         \A r \in Secs : (\E t \in Written : t.time = r)
                          => r \in missed' \/ \E t \in Written' : t.time = r,
         missed \cup OnlyAt(n, S) \subseteq missed'
  PROVE  Kept(s)'
<1>1. CASE \E m \in Nodes \ {n} : s \in inbox[m]
  BY <1>1 DEF Kept, Waits
<1>2. CASE s \in inbox[n] /\ s \in S /\ \A m \in Nodes \ {n} : s \notin inbox[m]
  <2>1. CASE s \in tag
    BY <2>1 DEF Kept, TagIsMeant
  <2>2. CASE s \notin tag
    BY <1>2, <2>2 DEF Kept, OnlyAt
  <2> QED
    BY <2>1, <2>2
<1>3. CASE ~Waits(s)
  BY <1>3 DEF Kept
<1> QED
  BY <1>1, <1>2, <1>3 DEF Waits, Kept

\* Every step keeps both.
LEMMA KeptNext == KeptInv /\ [Next]_vars => TagIsMeant' /\ KeptStays
<1> SUFFICES ASSUME KeptInv, [Next]_vars PROVE TagIsMeant' /\ KeptStays
  OBVIOUS
<1>0. TagIsMeant /\ StoreTypeOK
  BY DEF KeptInv, FeedInv
<1>1. ASSUME NEW n \in Nodes, Crash(n) PROVE TagIsMeant' /\ KeptStays
  <2>1. /\ \A m \in Nodes \ {n} : inbox'[m] = inbox[m] /\ adding'[m] = adding[m]
        /\ adding'[n] = {} /\ ticker' = ticker /\ tag' = tag
        /\ missed' = missed \cup OnlyAt(n, inbox[n]) \cup {t.time : t \in adding[n]}
    BY <1>0, <1>1 DEF Crash, StoreTypeOK
  <2>2. \A t \in Written : t.time \in missed' \/ t \in Written'
    BY <2>1 DEF Written
  <2>3. TagIsMeant'
    BY <1>0, <2>1, <2>2 DEF TagIsMeant
  <2>4. ASSUME NEW s \in Secs, Kept(s) PROVE Kept(s)'
    BY <1>0, <2>1, <2>2, <2>4, DropKept
  <2> QED
    BY <2>3, <2>4 DEF KeptStays
<1>2. ASSUME NEW n \in Nodes, NEW s \in Secs, AddTag(n, s) PROVE TagIsMeant' /\ KeptStays
  <2>1. /\ tag' = tag \cup {s} /\ ticker' = ticker /\ missed' = missed
        /\ inbox' = [inbox EXCEPT ![n] = @ \ {s}]
    BY <1>2 DEF AddTag
  <2>2. Written \subseteq Written'
    BY <1>0, <1>2 DEF AddTag, Written, StoreTypeOK
  <2>3. s \in missed \/ \E t \in Written' : t.time = s
    <3>1. CASE s \in tag
      BY <1>0, <2>2, <3>1 DEF TagIsMeant
    <3>2. CASE s \notin tag
      <4>1. PICK p \in Prices : adding' = [adding EXCEPT ![n] = @ \cup {[time |-> s, price |-> p]}]
        BY <1>2, <3>2 DEF AddTag
      <4>2. [time |-> s, price |-> p] \in adding'[n]
        BY <1>0, <4>1 DEF StoreTypeOK
      <4> QED
        BY <4>2 DEF Written
    <3> QED
      BY <3>1, <3>2
  <2>4. \A r : r # s /\ Waits(r) => Waits(r)'
    BY <1>0, <2>1 DEF Waits, StoreTypeOK
  <2>5. TagIsMeant'
    BY <1>0, <2>1, <2>2, <2>3 DEF TagIsMeant
  <2>6. ASSUME NEW r \in Secs, Kept(r) PROVE Kept(r)'
    BY <2>1, <2>2, <2>3, <2>4, <2>6 DEF Kept
  <2> QED
    BY <2>5, <2>6 DEF KeptStays
<1>3. ASSUME NEW n \in Nodes, NEW s \in Secs, TagFails(n, s) PROVE TagIsMeant' /\ KeptStays
  <2>1. /\ inbox' = [inbox EXCEPT ![n] = @ \ {s}] /\ Written' = Written
        /\ \/ tag' = tag /\ missed' = missed \cup OnlyAt(n, {s})
           \/ tag' = tag \cup {s} /\ missed' = missed \cup {s}
    BY <1>3 DEF TagFails, Written
  <2>2. TagIsMeant'
    BY <1>0, <2>1 DEF TagIsMeant
  <2>3. missed \cup OnlyAt(n, {s}) \subseteq missed'
    BY <2>1 DEF OnlyAt
  <2>4. ASSUME NEW r \in Secs, Kept(r) PROVE Kept(r)'
    <3>1. r \in inbox[n] => r \in {s} \/ Waits(r)'
      BY <1>0, <2>1 DEF Waits, StoreTypeOK
    <3>2. \A m \in Nodes \ {n} : inbox'[m] = inbox[m]
      BY <1>0, <2>1 DEF StoreTypeOK
    <3> QED
      BY <1>0, <2>1, <2>3, <2>4, <3>1, <3>2, DropKept
  <2> QED
    BY <2>2, <2>4 DEF KeptStays
<1>4. ASSUME NEW n \in Nodes, NEW t, AddWrite(n, t) PROVE TagIsMeant' /\ KeptStays
  <2>1. Written \subseteq Written'
    BY <1>0, <1>4 DEF AddWrite, Written, StoreTypeOK
  <2>2. UNCHANGED <<tag, missed, inbox>>
    BY <1>4 DEF AddWrite
  <2> QED
    BY <1>0, <2>1, <2>2, KeptFrame DEF Waits
<1>5. ASSUME NEW n \in Nodes, NEW t, AddFails(n, t) PROVE TagIsMeant' /\ KeptStays
  <2>1. \A u \in Written : u = t \/ u \in Written'
    BY <1>0, <1>5 DEF AddFails, Written, StoreTypeOK
  <2>2. UNCHANGED <<tag, inbox>> /\ missed' = missed \cup {t.time}
    BY <1>5 DEF AddFails
  <2>3. TagIsMeant'
    BY <1>0, <2>1, <2>2 DEF TagIsMeant
  <2>4. ASSUME NEW s \in Secs, Kept(s) PROVE Kept(s)'
    BY <2>1, <2>2, <2>4 DEF Kept, Waits
  <2> QED
    BY <2>3, <2>4 DEF KeptStays
<1>6. CASE Tick \/ \E s \in Secs : TagExpires(s)
  <2>1. tag' \subseteq tag /\ Written' = Written /\ missed' = missed
    BY <1>6 DEF Tick, TagExpires, Written
  <2>2. \A s : Waits(s) => Waits(s)'
    BY <1>6 DEF Tick, TagExpires, Waits
  <2> QED
    BY <1>0, <2>1, <2>2, KeptFrame
<1>7. CASE \/ \E n \in Nodes : Opens(n) \/ Breaks(n) \/ FallsSilent(n)
           \/ \E d \in Draws : StartDraw(d) \/ Look(d)
           \/ UNCHANGED vars
  <2>1. UNCHANGED <<inbox, adding, ticker, tag, missed>>
    BY <1>7 DEF Opens, Breaks, FallsSilent, StartDraw, Look, vars, store
  <2> QED
    BY <1>0, <2>1, KeptFrame DEF Written, Waits
<1> QED
  BY <1>1, <1>2, <1>3, <1>4, <1>5, <1>6, <1>7 DEF Next, Pool

\* A second of which a node has the ticker stays with a node, is written, or is
\* lost to a restart or a failed call: the tag of one node never makes another
\* drop its ticker for nothing.  This is what TickerArrives has of safety.
THEOREM NoSecondForgotten == Spec => [][KeptStays]_vars
<1>1. Init => KeptInv
  BY FeedStart DEF Init, KeptInv, TagIsMeant
<1>2. KeptInv /\ [Next]_vars => KeptInv'
  BY FeedNext, KeptNext DEF KeptInv
<1>3. KeptInv /\ [Next]_vars => [KeptStays]_vars
  BY KeptNext
<1> QED
  BY <1>1, <1>2, <1>3, PTL DEF Spec
=============================================================================
