----------------------------- MODULE WsSession -----------------------------
(***************************************************************************)
(* The WebSocket connections of one player: WebSocketServer, the heartbeat *)
(* handler behind it, and the page of the mines game.  A Redis key, set if *)
(* absent when a connection opens and refreshed by its heartbeats, is to   *)
(* keep a second tab out; two maps of the process say to whom an answer    *)
(* goes and who is asking.  Key and maps are separate, onOpen and onClose  *)
(* of two connections run in parallel, heartbeats run in a pool, the key   *)
(* expires, and the maps do not survive a restart while the key does.      *)
(***************************************************************************)
EXTENDS Naturals, FiniteSets

CONSTANTS
  Conns,   \* connections at any one time (bound); a slot is used again
  Pages,   \* tabs of the player's browsers
  Sids,    \* links handed out to the player; a link may be opened many times
  NoConn,  \* no connection
  NoSid    \* no link, or a key that is absent

ASSUME WsAssumption == NoConn \notin Conns /\ NoSid \notin Sids

VARIABLES
  page,      \* a page: its link, its socket, and whether it gave up connecting
  stage,     \* where the server is with a connection
  sid,       \* the link a connection came with
  client,    \* connections whose page still holds its end
  shut,      \* the close code the server sent over a connection, if any
  beat,      \* the heartbeat of a connection in the thread pool
  key,       \* Redis: WEBSOCKET_HT of the player
  session,   \* sessionMap of the player
  user,      \* userMap of the player: the link of the message user
  holder,    \* history variable: the connection that set the key if absent
  unseated   \* history variable: connections that lost the key or the maps

server == <<stage, sid, beat, key, session, user>>
history == <<holder, unseated>>
vars == <<page, client, shut, server, history>>

Stages == {"none", "new", "tagged", "open", "closing", "removing", "deleting"}
Codes == {"no", "other tab", "error"}

NoPage == [sid |-> NoSid, conn |-> NoConn, disabled |-> FALSE]

TypeOK ==
  /\ page \in [Pages -> [sid : Sids \cup {NoSid}, conn : Conns \cup {NoConn},
                         disabled : BOOLEAN]]
  /\ stage \in [Conns -> Stages]
  /\ sid \in [Conns -> Sids \cup {NoSid}]
  /\ client \subseteq Conns
  /\ shut \in [Conns -> Codes]
  /\ beat \in [Conns -> {"none", "queued"} \cup Sids]
  /\ key \in Sids \cup {NoSid}
  /\ session \in Conns \cup {NoConn}
  /\ user \in Sids \cup {NoSid}
  /\ holder \in Conns \cup {NoConn}
  /\ unseated \subseteq Conns

Init ==
  /\ page = [p \in Pages |-> NoPage]
  /\ stage = [c \in Conns |-> "none"]
  /\ sid = [c \in Conns |-> NoSid]
  /\ client = {}
  /\ shut = [c \in Conns |-> "no"]
  /\ beat = [c \in Conns |-> "none"]
  /\ key = NoSid /\ session = NoConn /\ user = NoSid
  /\ holder = NoConn /\ unseated = {}

-----------------------------------------------------------------------------
\* The page.

\* The player opens a link in a tab.
OpenPage(p) ==
  /\ page[p].sid = NoSid
  /\ \E s \in Sids : page' = [page EXCEPT ![p].sid = s]
  /\ UNCHANGED <<client, shut, server, history>>

\* A slot nothing refers to: the connection is over on both ends.
Free(c) == stage[c] = "none" /\ c \notin client /\ beat[c] = "none" /\ session # c

\* A page without a socket connects, at first and again a second after each
\* loss, unless the server told it that the game is open in another tab.
Connect(p, c) ==
  /\ page[p].sid # NoSid /\ page[p].conn = NoConn /\ ~page[p].disabled
  /\ Free(c)
  /\ page' = [page EXCEPT ![p].conn = c]
  /\ client' = client \cup {c}
  /\ stage' = [stage EXCEPT ![c] = "new"]
  /\ sid' = [sid EXCEPT ![c] = page[p].sid]
  /\ holder' = IF holder = c THEN NoConn ELSE holder
  /\ unseated' = unseated \ {c}
  /\ UNCHANGED <<shut, beat, key, session, user>>

Leave(c) ==
  /\ client' = client \ {c}
  /\ shut' = [d \in Conns |-> IF d = c THEN "no" ELSE shut[d]]

\* The connection breaks; the page hears of it, the server later.
LoseSocket(p) ==
  /\ page[p].conn # NoConn
  /\ Leave(page[p].conn)
  /\ page' = [page EXCEPT ![p].conn = NoConn]
  /\ UNCHANGED <<server, history>>

ClosePage(p) ==
  /\ page[p].sid # NoSid
  /\ Leave(page[p].conn)
  /\ page' = [page EXCEPT ![p] = NoPage]
  /\ UNCHANGED <<server, history>>

\* SOCKET_ONCLOSE: code 4003 disables the page, any other makes it reconnect.
HearClose(p) ==
  LET c == page[p].conn IN
  /\ c # NoConn /\ shut[c] # "no"
  /\ Leave(c)
  /\ page' = [page EXCEPT ![p].conn = NoConn, ![p].disabled = shut[c] = "other tab"]
  /\ UNCHANGED <<server, history>>

\* A ping, every 20 s, and one at a time (bound).
Ping(p) ==
  LET c == page[p].conn IN
  /\ c # NoConn /\ stage[c] = "open" /\ beat[c] = "none"
  /\ beat' = [beat EXCEPT ![c] = "queued"]
  /\ UNCHANGED <<page, client, shut, stage, sid, key, session, user, history>>

-----------------------------------------------------------------------------
\* onOpen: the key, then the lookups, which may fail, then the maps.

Tag(c) ==
  /\ stage[c] = "new" /\ key = NoSid
  /\ key' = sid[c] /\ holder' = c
  /\ stage' = [stage EXCEPT ![c] = "tagged"]
  /\ UNCHANGED <<page, client, shut, sid, beat, session, user, unseated>>

\* session.close in onOpen runs onClose for the connection it refuses.
Shut(c, code) ==
  /\ stage' = [stage EXCEPT ![c] = "closing"]
  /\ shut' = [shut EXCEPT ![c] = IF c \in client THEN code ELSE "no"]
  /\ UNCHANGED <<page, client, sid, beat, key, session, user, history>>

Refuse(c) == stage[c] = "new" /\ key # NoSid /\ Shut(c, "other tab")

OpenFails(c) == stage[c] \in {"new", "tagged"} /\ Shut(c, "error")

\* A connection whose key was gone before it got here displaces another.
Register(c) ==
  /\ stage[c] = "tagged"
  /\ session' = c /\ user' = sid[c]
  /\ stage' = [stage EXCEPT ![c] = "open"]
  /\ unseated' = unseated \cup (IF c \in unseated THEN {session} \ {NoConn} ELSE {})
  /\ UNCHANGED <<page, client, shut, sid, beat, key, holder>>

-----------------------------------------------------------------------------
\* onClose, of a connection the page left, that broke, or that was refused.

NoticeLoss(c) ==
  /\ stage[c] = "open" /\ c \notin client
  /\ stage' = [stage EXCEPT ![c] = "closing"]
  /\ UNCHANGED <<page, client, shut, sid, beat, key, session, user, history>>

\* onError closes a connection whose page is still there.
Drop(c) == stage[c] = "open" /\ c \in client /\ Shut(c, "error")

\* Mutant: the maps and the key are cleared whoever they belong to.
CloseAny(c) ==
  /\ stage[c] = "closing"
  /\ stage' = [stage EXCEPT ![c] = "removing"]
  /\ UNCHANGED <<page, client, shut, sid, beat, key, session, user, history>>

CloseRead(c) ==
  /\ stage[c] = "closing"
  /\ stage' = [stage EXCEPT ![c] = IF key = sid[c] THEN "removing" ELSE "none"]
  /\ UNCHANGED <<page, client, shut, sid, beat, key, session, user, history>>

\* Connections past the test of onClose: they count on the key being theirs.
Past == {c \in Conns : stage[c] \in {"removing", "deleting"}}

\* What c takes from another connection, when that is of its own link, or when
\* the key was gone before c acted on it.
Taken(c, d) ==
  IF d \notin {c, NoConn} /\ (sid[d] = sid[c] \/ c \in unseated) THEN {d} ELSE {}

\* Mutant: the session of the connection stays in the map.
CloseUser(c) ==
  /\ stage[c] = "removing"
  /\ user' = NoSid
  /\ stage' = [stage EXCEPT ![c] = "deleting"]
  /\ unseated' = unseated \cup Taken(c, session)
  /\ UNCHANGED <<page, client, shut, sid, beat, key, session, holder>>

CloseMaps(c) ==
  /\ stage[c] = "removing"
  /\ session' = NoConn /\ user' = NoSid
  /\ stage' = [stage EXCEPT ![c] = "deleting"]
  /\ unseated' = unseated \cup Taken(c, session)
  /\ UNCHANGED <<page, client, shut, sid, beat, key, holder>>

CloseKey(c) ==
  /\ stage[c] = "deleting"
  /\ key' = NoSid /\ holder' = NoConn
  /\ stage' = [stage EXCEPT ![c] = "none"]
  /\ unseated' = unseated \cup Taken(c, holder) \cup (Past \ {c})
  /\ UNCHANGED <<page, client, shut, sid, beat, session, user>>

-----------------------------------------------------------------------------
\* The heartbeat in the pool: it takes the user, answers, and sets the key.

\* Mutant: a heartbeat without a user goes on.
BeatReadAny(c) ==
  /\ beat[c] = "queued"
  /\ beat' = [beat EXCEPT ![c] = user]
  /\ UNCHANGED <<page, client, shut, stage, sid, key, session, user, history>>

BeatRead(c) ==
  /\ beat[c] = "queued"
  /\ beat' = [beat EXCEPT ![c] = IF user = NoSid THEN "none" ELSE user]
  /\ UNCHANGED <<page, client, shut, stage, sid, key, session, user, history>>

\* The key of another link is overwritten when the user read is out of date.
BeatSet(c) ==
  /\ beat[c] \in Sids
  /\ key' = beat[c]
  /\ beat' = [beat EXCEPT ![c] = "none"]
  /\ unseated' = IF key \notin {NoSid, beat[c]} THEN unseated \cup ({holder} \ {NoConn})
                 ELSE unseated
  /\ holder' = IF key = beat[c] THEN holder ELSE NoConn
  /\ UNCHANGED <<page, client, shut, stage, sid, session, user>>

-----------------------------------------------------------------------------
\* Time and faults.

\* The key lives 45 s after it was last set.
Expire ==
  /\ key # NoSid
  /\ key' = NoSid /\ holder' = NoConn
  /\ unseated' = unseated \cup ({holder} \ {NoConn}) \cup Past
  /\ UNCHANGED <<page, client, shut, stage, sid, beat, session, user>>

\* A heartbeat may still come: a page is connected or a ping is in the pool.
Attended == client # {} \/ \E c \in Conns : beat[c] # "none"

\* The process restarts: connections, maps and pool are gone, the key is not.
Restart ==
  /\ \E c \in Conns : stage[c] # "none"
  /\ stage' = [c \in Conns |-> "none"]
  /\ beat' = [c \in Conns |-> "none"]
  /\ session' = NoConn /\ user' = NoSid
  /\ client' = {} /\ shut' = [c \in Conns |-> "no"]
  /\ page' = [p \in Pages |-> [page[p] EXCEPT !.conn = NoConn]]
  /\ holder' = NoConn /\ unseated' = {}
  /\ UNCHANGED <<sid, key>>

-----------------------------------------------------------------------------
Server(c) ==
  \/ Tag(c) \/ Refuse(c) \/ Register(c)
  \/ NoticeLoss(c) \/ CloseRead(c) \/ CloseMaps(c) \/ CloseKey(c)
  \/ BeatRead(c) \/ BeatSet(c)

Player(p) ==
  \/ OpenPage(p) \/ ClosePage(p) \/ LoseSocket(p) \/ HearClose(p) \/ Ping(p)
  \/ \E c \in Conns : Connect(p, c)

Next ==
  \/ \E p \in Pages : Player(p)
  \/ \E c \in Conns : Server(c) \/ OpenFails(c) \/ Drop(c)
  \/ Expire \/ Restart

Spec == Init /\ [][Next]_vars

\* Threads go on, a lost connection is noticed, and a key nobody can refresh
\* expires.  What the player, the network and an early expiry do is free.
Fairness ==
  /\ \A c \in Conns : WF_vars(Server(c))
  /\ WF_vars(~Attended /\ Expire)

FairSpec == Spec /\ Fairness

-----------------------------------------------------------------------------
\* Properties.

\* A connection that was accepted (onOpen returned, onClose has not begun) is
\* the one in the maps and the key is its link's: nobody is served beside it.
\* It is unseated only by the key's expiry, by a heartbeat of an earlier link
\* that read its user before onClose removed it, or by the onClose of another
\* connection of its own link, which the test of onClose cannot tell from it.
AcceptedIsServed ==
  \A c \in Conns : stage[c] = "open" /\ c \notin unseated
                     => session = c /\ user = sid[c] /\ key = sid[c]

\* No page is connected or will connect by itself.
Quiet == \A p \in Pages : page[p].conn = NoConn /\ (page[p].sid = NoSid \/ page[p].disabled)

\* Once the player has gone for good, the server comes to forget him: the key
\* goes, whatever heartbeats were still queued, and with it the session, for no
\* one but onClose ever removes it; only a connection that had lost its key
\* before it ended stays in the maps.
ForgottenInTheEnd ==
  Quiet ~> \/ ~Quiet
           \/ key = NoSid /\ (session = NoConn \/ session \in unseated)
=============================================================================
