------------------------------ MODULE CoinBet ------------------------------
(***************************************************************************)
(* The bet and cancel requests of the coin game: ApiCoinController.bet and *)
(* betCancel with CoinBetServiceImpl under the per-user Redisson lock.     *)
(* Every bet request has a row of game_bet set aside for it; every cancel  *)
(* request names the bet it wants back.                                    *)
(***************************************************************************)
EXTENDS CoinState

CONSTANTS
  Users,      \* players
  Cancels,    \* cancel requests
  TargetOf,   \* the bet each cancel request names
  UserOf,     \* the player who sends each request
  NoReq,      \* nobody holds the lock
  LockLease,  \* seconds the Redisson lock is leased for (30 in the code)
  MaxReq      \* assumed bound: seconds a request runs once it has the lock

Requests == Bets \cup Cancels

ASSUME CoinBetAssumption ==
  /\ Bets \cap Cancels = {}
  /\ NoReq \notin Requests
  /\ TargetOf \in [Cancels -> Bets]
  /\ UserOf \in [Requests -> Users]
  /\ LockLease \in Nat
  /\ MaxReq \in Nat

VARIABLES
  rpc,       \* rpc[r]: where request r is
  asked,     \* asked[r]: the periodId in the request
  got,       \* got[r]: when it got the lock
  lock,      \* lock[u]: holder and lease end of the lock u_61coin
  onceKey,   \* Redis once-limit keys, as <<user, period>>
  cleared,   \* history variable: once-limit keys deletes were issued for
  refunded,  \* history variable: bets whose stake the merchant gave back
  lost       \* history variable: those of them the service never recorded

betVars == <<rpc, asked, got, lock, onceKey, cleared, refunded, lost>>

RPC == {"idle", "window", "once", "pay", "paid", "declined", "load", "refund",
        "refunded", "refused", "after", "cleanup", "done"}

\* Inside the method the lock aspect wraps.
Locked(r) == rpc[r] \in {"window", "once", "pay", "paid", "declined", "load",
                         "refund", "refunded", "refused"}

BetTypeOK ==
  /\ rpc \in [Requests -> RPC]
  /\ asked \in [Requests -> 0 .. MaxPeriod]
  /\ got \in [Requests -> 0 .. MaxTime]
  /\ lock \in [Users -> [holder : Requests \cup {NoReq}, until : Nat]]
  /\ onceKey \subseteq Users \X Period
  /\ cleared \subseteq Users \X Period
  /\ refunded \subseteq Bets
  /\ lost \subseteq refunded

BetInit ==
  /\ rpc = [r \in Requests |-> "idle"]
  /\ asked = [r \in Requests |-> 0]
  /\ got = [r \in Requests |-> 0]
  /\ lock = [u \in Users |-> [holder |-> NoReq, until |-> 0]]
  /\ onceKey = {}
  /\ cleared = {}
  /\ refunded = {}
  /\ lost = {}

\* Go to a label; a request that is answered forgets its arguments.
Move(r, label) ==
  /\ rpc' = [rpc EXCEPT ![r] = label]
  /\ asked' = IF label = "done" THEN [asked EXCEPT ![r] = 0] ELSE asked

\* Mutant: the lock is not there.
NoLock(u) == TRUE

\* tryLock without waiting succeeds: nobody holds the lock, or its lease is over.
LockFree(u) == lock[u].holder = NoReq \/ clock >= lock[u].until

\* The aspect's finally block: unlock only what this thread still holds.
Release(r) ==
  /\ lock' = IF lock[UserOf[r]].holder = r
             THEN [lock EXCEPT ![UserOf[r]] = [holder |-> NoReq, until |-> 0]]
             ELSE lock
  /\ got' = [got EXCEPT ![r] = 0]

\* The request goes on, or goes, without touching the lock.
Keep == UNCHANGED <<lock, got>>

\* A request arrives for a period its client has seen and tries the lock without
\* waiting; refused, a bet is cleaned up after like any failed bet.
Submit(r) ==
  /\ rpc[r] = "idle"
  /\ \/ /\ LockFree(UserOf[r])
        /\ \E p \in Period : p <= hash.id /\ asked' = [asked EXCEPT ![r] = p]
        /\ rpc' = [rpc EXCEPT ![r] = "window"]
        /\ lock' = [lock EXCEPT ![UserOf[r]] = [holder |-> r,
                                                until |-> clock + LockLease]]
        /\ got' = [got EXCEPT ![r] = clock]
     \/ /\ ~LockFree(UserOf[r])
        /\ r \in Bets
        /\ \E p \in Period : p <= hash.id /\ asked' = [asked EXCEPT ![r] = p]
        /\ rpc' = [rpc EXCEPT ![r] = "cleanup"]
        /\ Keep
     \/ /\ ~LockFree(UserOf[r])
        /\ r \in Cancels
        /\ Move(r, "done")
        /\ Keep
  /\ UNCHANGED <<stateVars, onceKey, cleared, refunded, lost>>

\* bet: the period must be the current one and open; any bet may also be refused
\* here because the game is closed or the options are not acceptable.
BetWindow(b) ==
  /\ rpc[b] = "window"
  /\ \/ /\ InBetWindow(asked[b])
        /\ Move(b, "once")
        /\ Keep
     \/ /\ Move(b, "cleanup")
        /\ Release(b)
  /\ UNCHANGED <<stateVars, onceKey, cleared, refunded, lost>>

\* Mutant: the answer of setIfAbsent is not looked at.
AnyOrder(key) == TRUE

\* setIfAbsent succeeds.  The key lives 10 minutes, longer than a period is open.
FirstOrder(key) == key \notin onceKey

\* bet: setIfAbsent on the once-limit key.  BET_ONCE_LIMIT is the one failure the
\* controller does not clean up after.
BetOnce(b) ==
  LET key == <<UserOf[b], asked[b]>>
  IN  /\ rpc[b] = "once"
      /\ \/ /\ FirstOrder(key)
            /\ onceKey' = onceKey \cup {key}
            /\ Move(b, "pay")
            /\ Keep
         \/ /\ ~FirstOrder(key)
            /\ Move(b, "done")
            /\ Release(b)
            /\ UNCHANGED onceKey
      /\ UNCHANGED <<stateVars, cleared, refunded, lost>>

\* bet: the row is inserted in the open transaction and the merchant asked for
\* the stake; an exception before that rolls back.
BetPay(b) ==
  /\ rpc[b] = "pay"
  /\ \/ \E answer \in {"paid", "declined"} : Move(b, answer) /\ Keep
     \/ Move(b, "cleanup") /\ Release(b)
  /\ UNCHANGED <<stateVars, onceKey, cleared, refunded, lost>>

\* bet: write the status, commit, unlock.  A paid answer without a balance, or a
\* commit that fails, rolls the row back instead.
BetCommit(b) ==
  /\ \/ /\ rpc[b] = "paid"
        /\ bet' = [bet EXCEPT ![b] = [status |-> "BET_DONE", period |-> asked[b]]]
        /\ Move(b, "after")
     \/ /\ rpc[b] = "declined"
        /\ bet' = [bet EXCEPT ![b] = [status |-> "BET_FAILED", period |-> asked[b]]]
        /\ Move(b, "cleanup")
     \/ /\ rpc[b] \in {"paid", "declined"}
        /\ Move(b, "cleanup")
        /\ UNCHANGED bet
  /\ Release(b)
  /\ UNCHANGED <<clock, hash, periods, lastPeriod, onceKey, cleared,
                 refunded, lost>>

\* cancel: the same window test, on the period the request names.
CancelWindow(c) ==
  /\ rpc[c] = "window"
  /\ \/ /\ InBetWindow(asked[c])
        /\ Move(c, "load")
        /\ Keep
     \/ /\ ~InBetWindow(asked[c])
        /\ Move(c, "done")
        /\ Release(c)
  /\ UNCHANGED <<stateVars, onceKey, cleared, refunded, lost>>

\* Mutant: the status of the bet is not looked at.
OwnBet(c) ==
  /\ bet[TargetOf[c]].status # "NONE"
  /\ UserOf[TargetOf[c]] = UserOf[c]

\* The bet is in play and the player's own.
Cancellable(c) ==
  /\ bet[TargetOf[c]].status = "BET_DONE"
  /\ UserOf[TargetOf[c]] = UserOf[c]

\* cancel: load the bet.
CancelLoad(c) ==
  /\ rpc[c] = "load"
  /\ \/ Cancellable(c) /\ Move(c, "refund") /\ Keep
     \/ ~Cancellable(c) /\ Move(c, "done") /\ Release(c)
  /\ UNCHANGED <<stateVars, onceKey, cleared, refunded, lost>>

\* cancel: ask the merchant for the refund.  A failure may be an answer that got
\* lost: the stake is back and no game_payment_timeout row says so.
CancelRefund(c) ==
  /\ rpc[c] = "refund"
  /\ \/ /\ Move(c, "refunded")
        /\ refunded' = refunded \cup {TargetOf[c]}
        /\ UNCHANGED lost
     \/ /\ Move(c, "refused")
        /\ UNCHANGED <<refunded, lost>>
     \/ /\ Move(c, "refused")
        /\ refunded' = refunded \cup {TargetOf[c]}
        /\ lost' = lost \cup {TargetOf[c]}
  /\ UNCHANGED <<stateVars, lock, got, onceKey, cleared>>

\* cancel: write CANCEL over whatever status the bet has by now, unlock.  There is
\* no transaction: a write that fails leaves the refund unrecorded.
CancelCommit(c) ==
  /\ \/ /\ rpc[c] = "refunded"
        /\ bet' = [bet EXCEPT ![TargetOf[c]].status = "CANCEL"]
        /\ Move(c, "after")
        /\ UNCHANGED lost
     \/ /\ rpc[c] = "refunded"
        /\ lost' = lost \cup {TargetOf[c]}
        /\ Move(c, "done")
        /\ UNCHANGED bet
     \/ /\ rpc[c] = "refused"
        /\ Move(c, "done")
        /\ UNCHANGED <<bet, lost>>
  /\ Release(c)
  /\ UNCHANGED <<clock, hash, periods, lastPeriod, onceKey, cleared, refunded>>

\* The controllers update rank and balance.  Only when that worked does a cancel
\* delete the once-limit key; only when it did not does a bet.
After(r) ==
  /\ rpc[r] = "after"
  /\ \E label \in {"done", "cleanup"} : Move(r, label)
  /\ UNCHANGED <<stateVars, lock, got, onceKey, cleared, refunded, lost>>

\* removeOnceLimitKey for the player and the period of the request.
Cleanup(r) ==
  LET key == <<UserOf[r], asked[r]>>
  IN  /\ rpc[r] = "cleanup"
      /\ onceKey' = onceKey \ {key}
      /\ cleared' = cleared \cup {key}
      /\ Move(r, "done")
      /\ UNCHANGED <<stateVars, lock, got, refunded, lost>>

\* The process goes down: an open transaction is rolled back, the lock is left to
\* its lease, and nobody cleans up.
Dies(r) ==
  /\ rpc[r] \notin {"idle", "done"}
  /\ Move(r, "done")
  /\ lost' = IF rpc[r] = "refunded" THEN lost \cup {TargetOf[r]} ELSE lost
  /\ got' = [got EXCEPT ![r] = 0]
  /\ UNCHANGED <<stateVars, lock, onceKey, cleared, refunded>>

BetStep(b) == BetWindow(b) \/ BetOnce(b) \/ BetPay(b) \/ BetCommit(b)

CancelStep(c) == CancelWindow(c) \/ CancelLoad(c) \/ CancelRefund(c) \/ CancelCommit(c)

BetNext ==
  \/ \E r \in Requests : Submit(r) \/ After(r) \/ Cleanup(r) \/ Dies(r)
  \/ \E b \in Bets : BetStep(b)
  \/ \E c \in Cancels : CancelStep(c)

\* No request holds on for more than MaxReq seconds after it got the lock.
RequestsInTime == \A r \in Requests : Locked(r) => clock < got[r] + MaxReq
=============================================================================
