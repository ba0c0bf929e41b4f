------------------------------- MODULE Feed --------------------------------
(***************************************************************************)
(* The price feed of a coin.  Every node of the deployment keeps a         *)
(* connection to the exchange (WebSocketUtils, CustomWebSocketListener)    *)
(* and hands each ticker to a pool, whose threads write it into one sorted *)
(* set in Redis (BinanceTickerServiceImpl).  The price is changed at       *)
(* random on the way, so the nodes would write different prices for one    *)
(* second: a tag, set if absent, lets one of them write.  A draw looks for *)
(* the ticker of the second after the end of betting a few times and then  *)
(* takes what is there.  Every call of Redis may fail: the listener logs    *)
(* the exception and drops the ticker, whatever the call has done.         *)
(***************************************************************************)
EXTENDS Naturals, FiniteSets, FiniteSetsExt

CONSTANTS
  Nodes,     \* nodes with a connection each
  Draws,     \* draws of the period, each on its own node, retries included
  Prices,    \* prices a ticker may get
  LastSec,   \* bound: seconds of the exchange's clock
  BetEnd,    \* second in which betting ends
  MaxRetry,  \* connection attempts before a node gives up (20 in the code)
  Looks,     \* times a draw looks for its ticker (4 in the code)
  MaxCrash   \* bound: restarts of nodes

ASSUME FeedAssumption ==
  /\ LastSec \in Nat /\ BetEnd \in Nat
  /\ MaxRetry \in Nat \ {0} /\ Looks \in Nat \ {0}
  /\ MaxCrash \in Nat

VARIABLES
  now,      \* the exchange's clock
  socket,   \* the connection of each node
  state,    \* webState of each node
  retry,    \* retryNum of each node
  inbox,    \* tickers waiting in the pool of a node
  adding,   \* tickers whose tag the node set and which it is writing
  tag,      \* Redis: seconds whose BINANCE_TICKER_ADD_TAG is set
  ticker,   \* Redis: the sorted set of tickers
  draw,     \* what each draw is at
  crashes,  \* number of restarts
  missed,   \* history variable: seconds lost for all nodes
  stale     \* history variable: seconds whose tag expired while a ticker waited

vars == <<now, socket, state, retry, inbox, adding, tag, ticker, draw, crashes,
          missed, stale>>

conn == <<socket, state, retry>>
store == <<inbox, adding, tag, ticker>>

Secs == 1 .. LastSec
Ticker == [time : Secs, price : Prices]

DrawSec == BetEnd + 1

SocketAt == {"none", "connecting", "open", "silent"}
DrawAt == {"idle", "looking", "drawn", "failed"}

NoDraw == [at |-> "idle", looks |-> 0, took |-> {}]

TypeOK ==
  /\ now \in 0 .. LastSec
  /\ socket \in [Nodes -> SocketAt]
  /\ state \in [Nodes -> BOOLEAN]
  /\ retry \in [Nodes -> 0 .. MaxRetry]
  /\ inbox \in [Nodes -> SUBSET Secs]
  /\ adding \in [Nodes -> SUBSET Ticker]
  /\ tag \subseteq Secs
  /\ ticker \subseteq Ticker
  /\ draw \in [Draws -> [at : DrawAt, looks : 0 .. Looks, took : SUBSET Ticker]]
  /\ crashes \in 0 .. MaxCrash
  /\ missed \subseteq Secs /\ stale \subseteq Secs

\* WebSocketRunner asks every node for its first connection.
Init ==
  /\ now = 0
  /\ socket = [n \in Nodes |-> "connecting"]
  /\ state = [n \in Nodes |-> FALSE]
  /\ retry = [n \in Nodes |-> 0]
  /\ inbox = [n \in Nodes |-> {}] /\ adding = [n \in Nodes |-> {}]
  /\ tag = {} /\ ticker = {}
  /\ draw = [d \in Draws |-> NoDraw]
  /\ crashes = 0 /\ missed = {} /\ stale = {}

-----------------------------------------------------------------------------
\* The connection of a node.

\* onOpen resets the count and sets the state.
Opens(n) ==
  /\ socket[n] = "connecting"
  /\ socket' = [socket EXCEPT ![n] = "open"]
  /\ state' = [state EXCEPT ![n] = TRUE]
  /\ retry' = [retry EXCEPT ![n] = 0]
  /\ UNCHANGED <<now, store, draw, crashes, missed, stale>>

\* Mutant: a node counts on and never gives up.
RestartsOn(n, s) ==
  /\ retry' = [retry EXCEPT ![n] = @ + 1]
  /\ socket' = [socket EXCEPT ![n] = IF ~s THEN "connecting" ELSE "none"]

\* eventClose counts, and startConnection opens a socket when the state says
\* that there is none; the attempt that reaches MaxRetry is not made.
Restarts(n, s) ==
  /\ retry' = [retry EXCEPT ![n] = @ + 1]
  /\ socket' = [socket EXCEPT ![n] =
                  IF retry[n] + 1 < MaxRetry /\ ~s THEN "connecting" ELSE "none"]

\* Mutant: the event is published before the state is changed.
BreaksLate(n) ==
  /\ socket[n] \in {"connecting", "open"}
  /\ Restarts(n, state[n])
  /\ state' = [state EXCEPT ![n] = FALSE]
  /\ UNCHANGED <<now, store, draw, crashes, missed, stale>>

\* onFailure, also of an attempt to connect, and onClosing: the state is cleared
\* first, then the event is published and handled in the same thread.
Breaks(n) ==
  /\ socket[n] \in {"connecting", "open"}
  /\ Restarts(n, FALSE)
  /\ state' = [state EXCEPT ![n] = FALSE]
  /\ UNCHANGED <<now, store, draw, crashes, missed, stale>>

\* The exchange falls silent: there is no ping and no read timeout on an open
\* WebSocket, so nothing notices.
FallsSilent(n) ==
  /\ socket[n] = "open"
  /\ socket' = [socket EXCEPT ![n] = "silent"]
  /\ UNCHANGED <<now, state, retry, store, draw, crashes, missed, stale>>

\* Seconds whose ticker waits at node n and at no other, and which no node has
\* taken: dropped by n they are lost for all.
OnlyAt(n, S) == {s \in S : s \notin tag /\ \A m \in Nodes \ {n} : s \notin inbox[m]}

\* A node restarts and connects anew; its pool is lost, and with it the seconds it
\* has taken and not written.
Crash(n) ==
  /\ crashes < MaxCrash
  /\ crashes' = crashes + 1
  /\ socket' = [socket EXCEPT ![n] = "connecting"]
  /\ state' = [state EXCEPT ![n] = FALSE]
  /\ retry' = [retry EXCEPT ![n] = 0]
  /\ missed' = missed \cup OnlyAt(n, inbox[n]) \cup {t.time : t \in adding[n]}
  /\ inbox' = [inbox EXCEPT ![n] = {}]
  /\ adding' = [adding EXCEPT ![n] = {}]
  /\ UNCHANGED <<now, tag, ticker, draw, stale>>

-----------------------------------------------------------------------------
\* Tickers.

\* A second passes on the exchange, and every open connection gets its ticker.
Tick ==
  /\ now < LastSec
  /\ now' = now + 1
  /\ inbox' = [n \in Nodes |-> inbox[n] \cup
                 (IF socket[n] = "open" THEN {now + 1} ELSE {})]
  /\ UNCHANGED <<conn, adding, tag, ticker, draw, crashes, missed, stale>>

\* Mutant: nodes do not look at each other's tags.
AddUntagged(n, s) ==
  /\ s \in inbox[n]
  /\ inbox' = [inbox EXCEPT ![n] = @ \ {s}]
  /\ tag' = tag \cup {s}
  /\ \E p \in Prices : adding' = [adding EXCEPT ![n] = @ \cup {[time |-> s, price |-> p]}]
  /\ UNCHANGED <<now, conn, ticker, draw, crashes, missed, stale>>

\* addTicker, up to the price: the exchange's changed at random or, where there
\* is one, the price presetPrice wrote for the second; both are any price here.
\* Threads of the pool take tickers in any order.
AddTag(n, s) ==
  /\ s \in inbox[n]
  /\ inbox' = [inbox EXCEPT ![n] = @ \ {s}]
  /\ tag' = tag \cup {s}
  /\ IF s \in tag
       THEN UNCHANGED adding
       ELSE \E p \in Prices :
              adding' = [adding EXCEPT ![n] = @ \cup {[time |-> s, price |-> p]}]
  /\ UNCHANGED <<now, conn, ticker, draw, crashes, missed, stale>>

\* The setIfAbsent throws: it may have set the tag, and nobody writes that second.
TagFails(n, s) ==
  /\ s \in inbox[n]
  /\ inbox' = [inbox EXCEPT ![n] = @ \ {s}]
  /\ \/ UNCHANGED tag /\ missed' = missed \cup OnlyAt(n, {s})
     \/ s \notin tag /\ tag' = tag \cup {s} /\ missed' = missed \cup {s}
  /\ UNCHANGED <<now, conn, adding, ticker, draw, crashes, stale>>

\* Mutant: a ticker older than the newest is dropped.
AddInOrder(n, t) ==
  /\ t \in adding[n]
  /\ adding' = [adding EXCEPT ![n] = @ \ {t}]
  /\ ticker' = IF \E u \in ticker : u.time > t.time THEN ticker ELSE ticker \cup {t}
  /\ UNCHANGED <<now, conn, inbox, tag, draw, crashes, missed, stale>>

\* addTicker, the write.
AddWrite(n, t) ==
  /\ t \in adding[n]
  /\ adding' = [adding EXCEPT ![n] = @ \ {t}]
  /\ ticker' = ticker \cup {t}
  /\ UNCHANGED <<now, conn, inbox, tag, draw, crashes, missed, stale>>

\* The look for a preset price or the write throws, and the write has not been
\* done: the tag stays and keeps the other nodes from writing the second.  A write
\* that was done and not answered is AddWrite.
AddFails(n, t) ==
  /\ t \in adding[n]
  /\ adding' = [adding EXCEPT ![n] = @ \ {t}]
  /\ missed' = missed \cup {t.time}
  /\ UNCHANGED <<now, conn, inbox, tag, ticker, draw, crashes, stale>>

\* The tag lives 90 s.  A ticker of its second may still wait in a pool.
TagExpires(s) ==
  /\ s \in tag
  /\ tag' = tag \ {s}
  /\ stale' = IF \E n \in Nodes : s \in inbox[n] THEN stale \cup {s} ELSE stale
  /\ UNCHANGED <<now, conn, inbox, adding, ticker, draw, crashes, missed>>

-----------------------------------------------------------------------------
\* A draw.

StartDraw(d) ==
  /\ draw[d].at = "idle" /\ now > BetEnd
  /\ draw' = [draw EXCEPT ![d].at = "looking"]
  /\ UNCHANGED <<now, conn, store, crashes, missed, stale>>

\* The tickers of the two latest seconds up to the draw's, one of each.
Upto == {t \in ticker : t.time <= DrawSec}
Latest(T) == {t \in T : \A u \in T : u.time <= t.time}
Earlier(t) == Latest({u \in Upto : u.time < t.time})

Finish(d, T) ==
  draw' = [draw EXCEPT ![d].at = IF Cardinality(T) = 2 THEN "drawn" ELSE "failed",
                       ![d].took = IF Cardinality(T) = 2 THEN T ELSE {}]

\* One look: the draw is done when it finds the ticker of its second, or after
\* the last look; with no ticker at all, or one second only, it fails.
Look(d) ==
  /\ draw[d].at = "looking"
  /\ \/ Upto = {} /\ Finish(d, {})
     \/ \E t \in Latest(Upto) :
          IF t.time = DrawSec \/ draw[d].looks + 1 = Looks
            THEN \/ \E u \in Earlier(t) : Finish(d, {t, u})
                 \/ Earlier(t) = {} /\ Finish(d, {t})
            ELSE draw' = [draw EXCEPT ![d].looks = @ + 1]
  /\ UNCHANGED <<now, conn, store, crashes, missed, stale>>

-----------------------------------------------------------------------------
Pool(n) ==
  \E s \in Secs :
    \/ AddTag(n, s) \/ TagFails(n, s)
    \/ \E p \in Prices :
         LET t == [time |-> s, price |-> p] IN AddWrite(n, t) \/ AddFails(n, t)

Next ==
  \/ \E n \in Nodes : Opens(n) \/ Breaks(n) \/ FallsSilent(n) \/ Crash(n) \/ Pool(n)
  \/ Tick
  \/ \E s \in Secs : TagExpires(s)
  \/ \E d \in Draws : StartDraw(d) \/ Look(d)

Spec == Init /\ [][Next]_vars

\* The threads of the pool go on, with success or without.  Nothing is assumed of
\* the exchange or of Redis.
FairSpec == Spec /\ \A n \in Nodes : WF_vars(Pool(n))

-----------------------------------------------------------------------------
\* Properties.

\* What a draw took for a second is the one ticker of that second, and stays
\* it: a draw on another node, a draw repeated after a failure and the chart of
\* the page see the same price, though every node adds a random amount of its
\* own.  Excepted are seconds whose tag ran out (90 s) while a ticker waited.
DrawPriceStands ==
  \A d \in Draws : \A t \in draw[d].took :
    t.time \in stale \/ {u \in ticker : u.time = t.time} = {t}

\* A node is left without a connection only after MaxRetry failures in a row:
\* the state startConnection looks at never stands in the way of the next one.
DeadOfRetriesOnly ==
  \A n \in Nodes : socket[n] = "none" => retry[n] = MaxRetry

\* A ticker that reached a node reaches the sorted set, in whatever order the
\* pools take them and whichever node wins its tag.  Excepted are the seconds of
\* missed: a restart or a failed call stopped a node between tag and write, which
\* loses the second for every node, or dropped the only ticker there was.  A
\* failure of one of several nodes before the tag is no excuse.
TickerArrives ==
  \A s \in Secs :
    (\E n \in Nodes : s \in inbox[n]) ~> ((\E t \in ticker : t.time = s) \/ s \in missed)
=============================================================================
