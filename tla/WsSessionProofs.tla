--------------------------- MODULE WsSessionProofs ---------------------------
(***************************************************************************)
(* Proofs about WsSession, for every number of connections, pages and      *)
(* links: types, and that a connection which was accepted is the one the   *)
(* maps and the key name, unless something unseated it.                    *)
(***************************************************************************)
EXTENDS WsSession, TLAPS

USE WsAssumption DEF WsAssumption

(***************************************************************************)
(* The invariant.  A seat is a tagged or open connection nothing took the  *)
(* key from.                                                               *)
(***************************************************************************)

Seated(c) == stage[c] \in {"tagged", "open"} /\ c \notin unseated

\* A connection the server knows came with a link.
Linked == \A c \in Conns : stage[c] # "none" => sid[c] \in Sids

\* While the connection that set the key counts as its holder, the key is its link.
HolderKey == holder # NoConn => key = sid[holder]

\* A seat holds the key: there is one at most.
SeatHolds == \A c \in Conns : Seated(c) => holder = c

\* What is past the test of onClose, and not unseated, met its own link in the key,
\* and the key has not been absent since.  It may be another link's by now, through
\* a late heartbeat, but then no connection holds it.
PastKey ==
  \A c \in Past : c \in unseated \/ (key # NoSid /\ (holder # NoConn => key = sid[c]))

\* An open seat is in the maps.
SeatServed ==
  \A c \in Conns : stage[c] = "open" /\ c \notin unseated => session = c /\ user = sid[c]

SeatInv == TypeOK /\ Linked /\ HolderKey /\ SeatHolds /\ PastKey /\ SeatServed

\* It is the type invariant, and more.
LEMMA SeatTypes == SeatInv => TypeOK
  BY DEF SeatInv

\* It holds at the start: there is no connection.
LEMMA SeatStart == Init => SeatInv
<1> SUFFICES ASSUME Init PROVE SeatInv
  OBVIOUS
<1>1. NoPage \in [sid : Sids \cup {NoSid}, conn : Conns \cup {NoConn}, disabled : BOOLEAN]
  BY DEF NoPage
<1>2. TypeOK
  BY <1>1 DEF Init, TypeOK, Stages, Codes
<1>3. Linked /\ HolderKey /\ SeatHolds /\ PastKey /\ SeatServed
  BY DEF Init, Linked, HolderKey, SeatHolds, Seated, PastKey, Past, SeatServed
<1> QED
  BY <1>2, <1>3 DEF SeatInv

(***************************************************************************)
(* Types.                                                                  *)
(***************************************************************************)

PageRow == [sid : Sids \cup {NoSid}, conn : Conns \cup {NoConn}, disabled : BOOLEAN]

\* The page's side of a connection.
PageTypeOK ==
  /\ page \in [Pages -> PageRow]
  /\ client \subseteq Conns
  /\ shut \in [Conns -> Codes]

\* The server's side.
ServerTypeOK ==
  /\ stage \in [Conns -> Stages]
  /\ sid \in [Conns -> Sids \cup {NoSid}]
  /\ beat \in [Conns -> {"none", "queued"} \cup Sids]
  /\ key \in Sids \cup {NoSid}
  /\ session \in Conns \cup {NoConn}
  /\ user \in Sids \cup {NoSid}
  /\ holder \in Conns \cup {NoConn}
  /\ unseated \subseteq Conns

\* Together they are the type invariant.
LEMMA TypeParts == TypeOK <=> PageTypeOK /\ ServerTypeOK
  BY DEF TypeOK, PageTypeOK, ServerTypeOK, PageRow

\* A page with another link, connection or answer is a page.
LEMMA PageRows ==
  ASSUME NEW r \in PageRow
  PROVE  /\ \A s \in Sids : [r EXCEPT !.sid = s] \in PageRow
         /\ \A c \in Conns \cup {NoConn} : [r EXCEPT !.conn = c] \in PageRow
         /\ \A b \in BOOLEAN : [r EXCEPT !.conn = NoConn, !.disabled = b] \in PageRow
  BY DEF PageRow

\* A page that goes or hears of a loss leaves its end of a connection.
LEMMA LeaveTypes ==
  ASSUME PageTypeOK, NEW c, Leave(c)
  PROVE  client' \subseteq Conns /\ shut' \in [Conns -> Codes]
  BY DEF PageTypeOK, Leave, Codes

\* A step of a page keeps the types of its side.
LEMMA PageTypesPlayer ==
  ASSUME PageTypeOK, NEW p \in Pages, Player(p)
  PROVE  PageTypeOK'
<1>1. page[p] \in PageRow
  BY DEF PageTypeOK
<1>2. CASE OpenPage(p)
  <2>1. PICK s \in Sids : page' = [page EXCEPT ![p] = [page[p] EXCEPT !.sid = s]]
    BY <1>2 DEF OpenPage
  <2>2. [page[p] EXCEPT !.sid = s] \in PageRow
    BY <1>1, PageRows
  <2> QED
    BY <1>2, <2>1, <2>2 DEF OpenPage, PageTypeOK
<1>3. CASE LoseSocket(p)
  <2>1. page' = [page EXCEPT ![p] = [page[p] EXCEPT !.conn = NoConn]]
    BY <1>3 DEF LoseSocket
  <2>2. [page[p] EXCEPT !.conn = NoConn] \in PageRow
    BY <1>1, PageRows
  <2>3. client' \subseteq Conns /\ shut' \in [Conns -> Codes]
    BY <1>3, LeaveTypes DEF LoseSocket
  <2> QED
    BY <2>1, <2>2, <2>3 DEF PageTypeOK
<1>4. CASE ClosePage(p)
  <2>1. NoPage \in PageRow
    BY DEF NoPage, PageRow
  <2>2. client' \subseteq Conns /\ shut' \in [Conns -> Codes]
    BY <1>4, LeaveTypes DEF ClosePage
  <2> QED
    BY <1>4, <2>1, <2>2 DEF ClosePage, PageTypeOK
<1>5. CASE HearClose(p)
  <2> DEFINE b == shut[page[p].conn] = "other tab"
  <2>1. page' = [page EXCEPT ![p] = [page[p] EXCEPT !.conn = NoConn, !.disabled = b]]
    BY <1>5 DEF HearClose, PageTypeOK
  <2>2. [page[p] EXCEPT !.conn = NoConn, !.disabled = b] \in PageRow
    BY <1>1 DEF PageRow
  <2>3. client' \subseteq Conns /\ shut' \in [Conns -> Codes]
    BY <1>5, LeaveTypes DEF HearClose
  <2> QED
    BY <2>1, <2>2, <2>3 DEF PageTypeOK
<1>6. CASE Ping(p)
  BY <1>6 DEF Ping, PageTypeOK
<1>7. ASSUME NEW c \in Conns, Connect(p, c) PROVE PageTypeOK'
  <2>1. page' = [page EXCEPT ![p] = [page[p] EXCEPT !.conn = c]]
    BY <1>7 DEF Connect
  <2>2. [page[p] EXCEPT !.conn = c] \in PageRow
    BY <1>1, PageRows
  <2> QED
    BY <1>7, <2>1, <2>2 DEF Connect, PageTypeOK
<1> QED
  BY <1>2, <1>3, <1>4, <1>5, <1>6, <1>7 DEF Player

\* The server only tells a page that it closes its connection.
LEMMA PageTypesServer ==
  ASSUME PageTypeOK, NEW c \in Conns, Server(c) \/ OpenFails(c) \/ Drop(c)
  PROVE  PageTypeOK'
<1>1. CASE Refuse(c) \/ OpenFails(c) \/ Drop(c)
  BY <1>1 DEF Refuse, OpenFails, Drop, Shut, PageTypeOK, Codes
<1>2. ASSUME UNCHANGED <<page, client, shut>> PROVE PageTypeOK'
  BY <1>2 DEF PageTypeOK
<1>3. CASE Tag(c) \/ Register(c) \/ NoticeLoss(c) \/ CloseRead(c)
  BY <1>2, <1>3 DEF Tag, Register, NoticeLoss, CloseRead
<1>4. CASE CloseMaps(c) \/ CloseKey(c) \/ BeatRead(c) \/ BeatSet(c)
  BY <1>2, <1>4 DEF CloseMaps, CloseKey, BeatRead, BeatSet
<1> QED
  BY <1>1, <1>3, <1>4 DEF Server

\* Every step keeps the types of the pages' side.
LEMMA PageTypesNext == PageTypeOK /\ [Next]_vars => PageTypeOK'
<1> SUFFICES ASSUME PageTypeOK, [Next]_vars PROVE PageTypeOK'
  OBVIOUS
<1>1. CASE Expire \/ UNCHANGED vars
  BY <1>1 DEF Expire, vars, PageTypeOK
<1>2. CASE Restart
  <2>1. \A p \in Pages : [page[p] EXCEPT !.conn = NoConn] \in PageRow
    BY PageRows DEF PageTypeOK
  <2> QED
    BY <1>2, <2>1 DEF Restart, PageTypeOK, Codes
<1> QED
  BY <1>1, <1>2, PageTypesPlayer, PageTypesServer DEF Next

\* What a step of a page does to the server: it may connect, or ping.
LEMMA ServerTypesPlayer ==
  ASSUME PageTypeOK, ServerTypeOK, NEW p \in Pages, Player(p)
  PROVE  ServerTypeOK'
<1>1. CASE OpenPage(p) \/ ClosePage(p) \/ LoseSocket(p) \/ HearClose(p)
  <2>1. UNCHANGED <<server, history>>
    BY <1>1 DEF OpenPage, ClosePage, LoseSocket, HearClose
  <2> QED
    BY <2>1 DEF server, history, ServerTypeOK
<1>2. CASE Ping(p)
  BY <1>2 DEF Ping, history, ServerTypeOK
<1>3. ASSUME NEW c \in Conns, Connect(p, c) PROVE ServerTypeOK'
  <2>1. page[p].sid \in Sids
    BY <1>3 DEF Connect, PageTypeOK, PageRow
  <2> QED
    BY <1>3, <2>1 DEF Connect, ServerTypeOK, Stages
<1> QED
  BY <1>1, <1>2, <1>3 DEF Player

\* A step of the server keeps the types of its side.
LEMMA ServerTypesServer ==
  ASSUME ServerTypeOK, NEW c \in Conns, Server(c) \/ OpenFails(c) \/ Drop(c)
  PROVE  ServerTypeOK'
<1>0. Past \subseteq Conns /\ \A d \in Conns \cup {NoConn} : Taken(c, d) \subseteq Conns
  BY DEF Past, Taken
<1>1. CASE Refuse(c) \/ OpenFails(c) \/ Drop(c)
  BY <1>1 DEF Refuse, OpenFails, Drop, Shut, history, ServerTypeOK, Stages
<1>2. CASE Tag(c)
  BY <1>2 DEF Tag, ServerTypeOK, Stages
<1>3. CASE Register(c)
  <2>1. {session} \ {NoConn} \subseteq Conns
    BY DEF ServerTypeOK
  <2> QED
    BY <1>3, <2>1 DEF Register, ServerTypeOK, Stages
<1>4. CASE NoticeLoss(c) \/ CloseRead(c)
  BY <1>4 DEF NoticeLoss, CloseRead, history, ServerTypeOK, Stages
<1>5. CASE CloseMaps(c)
  <2>1. Taken(c, session) \subseteq Conns
    BY <1>0 DEF ServerTypeOK
  <2> QED
    BY <1>5, <2>1 DEF CloseMaps, ServerTypeOK, Stages
<1>6. CASE CloseKey(c)
  <2>1. Taken(c, holder) \subseteq Conns
    BY <1>0 DEF ServerTypeOK
  <2> QED
    BY <1>0, <1>6, <2>1 DEF CloseKey, ServerTypeOK, Stages
<1>7. CASE BeatRead(c)
  BY <1>7 DEF BeatRead, history, ServerTypeOK
<1>8. CASE BeatSet(c)
  <2>1. {holder} \ {NoConn} \subseteq Conns
    BY DEF ServerTypeOK
  <2> QED
    BY <1>8, <2>1 DEF BeatSet, ServerTypeOK
<1> QED
  BY <1>1, <1>2, <1>3, <1>4, <1>5, <1>6, <1>7, <1>8 DEF Server

\* Every step keeps the types.
LEMMA TypesNext == TypeOK /\ [Next]_vars => TypeOK'
<1>0. PageTypeOK' /\ ServerTypeOK' => TypeOK'
  BY DEF TypeOK, PageTypeOK, ServerTypeOK, PageRow
<1> SUFFICES ASSUME PageTypeOK, ServerTypeOK, [Next]_vars PROVE ServerTypeOK'
  BY <1>0, TypeParts, PageTypesNext
<1>1. CASE UNCHANGED vars
  BY <1>1 DEF vars, server, history, ServerTypeOK
<1>2. CASE Expire
  <2>1. Past \subseteq Conns /\ {holder} \ {NoConn} \subseteq Conns
    BY DEF Past, ServerTypeOK
  <2> QED
    BY <1>2, <2>1 DEF Expire, ServerTypeOK
<1>3. CASE Restart
  BY <1>3 DEF Restart, ServerTypeOK, Stages
<1> QED
  BY <1>1, <1>2, <1>3, ServerTypesPlayer, ServerTypesServer DEF Next

\* The types of key, maps and connections, whatever pages and server do.
THEOREM SessionTypes == Spec => []TypeOK
<1>1. Init => TypeOK
  BY SeatStart, SeatTypes
<1> QED
  BY <1>1, TypesNext, PTL DEF Spec

(***************************************************************************)
(* The seat.                                                               *)
(***************************************************************************)

\* What the seats depend on.
SeatVars == <<stage, sid, key, session, user, holder, unseated>>

SeatParts == Linked /\ HolderKey /\ SeatHolds /\ PastKey /\ SeatServed

\* The invariant depends on them only.
LEMMA SeatFrame == SeatParts /\ UNCHANGED SeatVars => SeatParts'
  BY DEF SeatVars, SeatParts, Linked, HolderKey, SeatHolds, Seated, PastKey, Past, SeatServed

\* A new connection is not tagged yet, and the key no longer counts as the one its
\* slot set before.
LEMMA SeatConnect ==
  ASSUME TypeOK, SeatParts, NEW p \in Pages, NEW c \in Conns, Connect(p, c)
  PROVE  SeatParts'
<1> USE DEF SeatParts, TypeOK
<1>0. page[p].sid \in Sids
  BY DEF Connect
<1>1. /\ stage' = [stage EXCEPT ![c] = "new"] /\ sid' = [sid EXCEPT ![c] = page[p].sid]
      /\ holder' = (IF holder = c THEN NoConn ELSE holder) /\ unseated' = unseated \ {c}
      /\ key' = key /\ session' = session /\ user' = user
      /\ stage[c] = "none"
  BY DEF Connect, Free
<1>2. Linked'
  BY <1>0, <1>1 DEF Linked
<1>3. HolderKey'
  BY <1>1 DEF HolderKey
<1>4. SeatHolds'
  BY <1>1 DEF SeatHolds, Seated
<1>5. PastKey'
  BY <1>1 DEF PastKey, Past
<1>6. SeatServed'
  BY <1>1 DEF SeatServed
<1> QED
  BY <1>2, <1>3, <1>4, <1>5, <1>6

\* A connection that starts to close, or is refused, gives up its seat.
LEMMA SeatCloses ==
  ASSUME TypeOK, SeatParts, NEW c \in Conns, stage[c] # "none",
         stage' = [stage EXCEPT ![c] = "closing"],
         UNCHANGED <<sid, key, session, user, holder, unseated>>
  PROVE  SeatParts'
  BY DEF SeatParts, TypeOK, Linked, HolderKey, SeatHolds, Seated, PastKey, Past, SeatServed

\* A connection that finds no key takes it: there is no seat when the key is absent.
LEMMA SeatTag ==
  ASSUME TypeOK, SeatParts, NEW c \in Conns, Tag(c)
  PROVE  SeatParts'
<1> USE DEF SeatParts, TypeOK
<1>1. /\ stage' = [stage EXCEPT ![c] = "tagged"] /\ key' = sid[c] /\ holder' = c
      /\ sid' = sid /\ session' = session /\ user' = user /\ unseated' = unseated
      /\ stage[c] = "new" /\ key = NoSid
  BY DEF Tag
<1>2. sid[c] \in Sids
  BY <1>1 DEF Linked
<1>3. holder = NoConn \/ sid[holder] = NoSid
  BY <1>1 DEF HolderKey
<1>4. \A d \in Conns : ~Seated(d)
  BY <1>1, <1>3 DEF SeatHolds, Seated, Linked
<1>5. \A d \in Past : d \in unseated
  BY <1>1 DEF PastKey
<1>6. Linked' /\ HolderKey'
  BY <1>1, <1>2 DEF Linked, HolderKey
<1>7. SeatHolds'
  BY <1>1, <1>4 DEF SeatHolds, Seated
<1>8. PastKey'
  BY <1>1, <1>5 DEF PastKey, Past
<1>9. SeatServed'
  BY <1>1 DEF SeatServed
<1> QED
  BY <1>6, <1>7, <1>8, <1>9

\* A seat that enters the maps displaces none; one that lost its seat unseats whom
\* it displaces.
LEMMA SeatRegister ==
  ASSUME TypeOK, SeatParts, NEW c \in Conns, Register(c)
  PROVE  SeatParts'
<1> USE DEF SeatParts, TypeOK
<1>1. /\ stage' = [stage EXCEPT ![c] = "open"] /\ session' = c /\ user' = sid[c]
      /\ unseated' = unseated \cup (IF c \in unseated THEN {session} \ {NoConn} ELSE {})
      /\ key' = key /\ holder' = holder /\ sid' = sid
      /\ stage[c] = "tagged"
  BY DEF Register
<1>2. Linked' /\ HolderKey'
  BY <1>1 DEF Linked, HolderKey
<1>3. SeatHolds'
  BY <1>1 DEF SeatHolds, Seated
<1>4. PastKey'
  BY <1>1 DEF PastKey, Past
<1>5. SeatServed'
  <2> SUFFICES ASSUME NEW d \in Conns, d # c, stage[d] = "open", d \notin unseated'
               PROVE  FALSE
    BY <1>1 DEF SeatServed
  <2>1. session = d /\ holder = d
    BY <1>1 DEF SeatServed, SeatHolds, Seated
  <2>2. c \notin unseated
    BY <1>1, <2>1
  <2> QED
    BY <1>1, <2>1, <2>2 DEF SeatHolds, Seated
<1> QED
  BY <1>2, <1>3, <1>4, <1>5

\* A connection goes on with onClose only if the key is its link's.
LEMMA SeatCloseRead ==
  ASSUME TypeOK, SeatParts, NEW c \in Conns, CloseRead(c)
  PROVE  SeatParts'
<1> USE DEF SeatParts, TypeOK
<1>1. /\ stage' = [stage EXCEPT ![c] = IF key = sid[c] THEN "removing" ELSE "none"]
      /\ UNCHANGED <<sid, key, session, user, holder, unseated>>
      /\ stage[c] = "closing"
  BY DEF CloseRead, history
<1>2. sid[c] \in Sids
  BY <1>1 DEF Linked
<1>3. Linked' /\ HolderKey'
  BY <1>1 DEF Linked, HolderKey
<1>4. SeatHolds' /\ SeatServed'
  BY <1>1 DEF SeatHolds, Seated, SeatServed
<1>5. PastKey'
  BY <1>1, <1>2 DEF PastKey, Past
<1> QED
  BY <1>3, <1>4, <1>5

\* Whoever is past the test of onClose and takes the maps or the key from a seat
\* shares its link, or was unseated before: either way the seat is unseated.
LEMMA SeatTaken ==
  ASSUME TypeOK, SeatParts, NEW c \in Past, NEW d \in Conns, Seated(d)
  PROVE  Taken(c, d) = {d}
<1> USE DEF SeatParts, TypeOK
<1>1. c # d /\ d # NoConn /\ holder = d
  BY DEF Past, Seated, SeatHolds
<1>2. c \in unseated \/ key = sid[c]
  BY <1>1 DEF PastKey
<1>3. key = sid[d]
  BY <1>1 DEF HolderKey
<1> QED
  BY <1>1, <1>2, <1>3 DEF Taken

\* onClose takes the maps from no seat it does not unseat.
LEMMA SeatCloseMaps ==
  ASSUME TypeOK, SeatParts, NEW c \in Conns, CloseMaps(c)
  PROVE  SeatParts'
<1> USE DEF SeatParts, TypeOK
<1>1. /\ stage' = [stage EXCEPT ![c] = "deleting"] /\ session' = NoConn /\ user' = NoSid
      /\ unseated' = unseated \cup Taken(c, session)
      /\ sid' = sid /\ key' = key /\ holder' = holder
      /\ stage[c] = "removing" /\ c \in Past
  BY DEF CloseMaps, Past
<1>2. Linked' /\ HolderKey'
  BY <1>1 DEF Linked, HolderKey
<1>3. SeatHolds'
  BY <1>1 DEF SeatHolds, Seated
<1>4. PastKey'
  BY <1>1 DEF PastKey, Past
<1>5. SeatServed'
  <2> SUFFICES ASSUME NEW d \in Conns, stage'[d] = "open", d \notin unseated'
               PROVE  FALSE
    BY DEF SeatServed
  <2>1. Seated(d) /\ session = d
    BY <1>1 DEF SeatServed, Seated
  <2>2. d \in Taken(c, session)
    BY <1>1, <2>1, SeatTaken
  <2> QED
    BY <1>1, <2>2
<1> QED
  BY <1>2, <1>3, <1>4, <1>5

\* Nor the key; and whoever is past the test of onClose then is unseated.
LEMMA SeatCloseKey ==
  ASSUME TypeOK, SeatParts, NEW c \in Conns, CloseKey(c)
  PROVE  SeatParts'
<1> USE DEF SeatParts, TypeOK
<1>1. /\ stage' = [stage EXCEPT ![c] = "none"] /\ key' = NoSid /\ holder' = NoConn
      /\ unseated' = unseated \cup Taken(c, holder) \cup (Past \ {c})
      /\ sid' = sid /\ session' = session /\ user' = user
      /\ stage[c] = "deleting" /\ c \in Past
  BY DEF CloseKey, Past
<1>2. Linked' /\ HolderKey'
  BY <1>1 DEF Linked, HolderKey
<1>3. \A d \in Conns : Seated(d) => d \in unseated'
  <2> SUFFICES ASSUME NEW d \in Conns, Seated(d) PROVE d \in unseated'
    OBVIOUS
  <2>1. holder = d /\ Taken(c, d) = {d}
    BY <1>1, SeatTaken DEF SeatHolds
  <2> QED
    BY <1>1, <2>1
<1>4. SeatHolds'
  BY <1>1, <1>3 DEF SeatHolds, Seated
<1>5. SeatServed'
  BY <1>1 DEF SeatServed
<1>6. PastKey'
  BY <1>1 DEF PastKey, Past
<1> QED
  BY <1>2, <1>4, <1>5, <1>6

\* A heartbeat that finds another link's key unseats its holder; one that finds none
\* sets it for nobody.
LEMMA SeatBeat ==
  ASSUME TypeOK, SeatParts, NEW c \in Conns, BeatSet(c)
  PROVE  SeatParts'
<1> USE DEF SeatParts, TypeOK
<1>1. /\ beat[c] \in Sids /\ key' = beat[c]
      /\ unseated' = (IF key \notin {NoSid, beat[c]} THEN unseated \cup ({holder} \ {NoConn})
                      ELSE unseated)
      /\ holder' = (IF key = beat[c] THEN holder ELSE NoConn)
      /\ stage' = stage /\ sid' = sid /\ session' = session /\ user' = user
  BY DEF BeatSet
<1>2. Linked' /\ HolderKey'
  BY <1>1 DEF Linked, HolderKey
<1>3. key = NoSid => \A d \in Conns : ~Seated(d)
  BY DEF SeatHolds, Seated, HolderKey, Linked
<1>4. SeatHolds'
  BY <1>1, <1>3 DEF SeatHolds, Seated
<1>5. SeatServed'
  BY <1>1 DEF SeatServed
<1>6. PastKey'
  BY <1>1 DEF PastKey, Past
<1> QED
  BY <1>2, <1>4, <1>5, <1>6

\* An expiry unseats the holder and whoever is past the test of onClose.
LEMMA SeatExpire ==
  ASSUME TypeOK, SeatParts, Expire
  PROVE  SeatParts'
<1> USE DEF SeatParts, TypeOK
<1>1. /\ key' = NoSid /\ holder' = NoConn
      /\ unseated' = unseated \cup ({holder} \ {NoConn}) \cup Past
      /\ stage' = stage /\ sid' = sid /\ session' = session /\ user' = user
  BY DEF Expire
<1> QED
  BY <1>1 DEF Linked, HolderKey, SeatHolds, Seated, SeatServed, PastKey, Past

\* A restart ends every connection.
LEMMA SeatRestart ==
  ASSUME TypeOK, SeatParts, Restart
  PROVE  SeatParts'
  BY DEF TypeOK, SeatParts, Restart, Linked, HolderKey, SeatHolds, Seated, SeatServed,
         PastKey, Past

\* Every step keeps the seats.
LEMMA SeatNext == SeatInv /\ [Next]_vars => SeatInv'
<1> SUFFICES ASSUME TypeOK, SeatParts, [Next]_vars PROVE SeatParts'
  BY TypesNext DEF SeatInv, SeatParts
<1>1. CASE UNCHANGED vars
  <2>1. UNCHANGED SeatVars
    BY <1>1 DEF vars, server, history, SeatVars
  <2> QED
    BY <2>1, SeatFrame
<1>2. ASSUME NEW p \in Pages, Player(p) PROVE SeatParts'
  <2>1. CASE OpenPage(p) \/ ClosePage(p) \/ LoseSocket(p) \/ HearClose(p) \/ Ping(p)
    <3>1. UNCHANGED SeatVars
      BY <2>1 DEF OpenPage, ClosePage, LoseSocket, HearClose, Ping, server, history, SeatVars
    <3> QED
      BY <3>1, SeatFrame
  <2> QED
    BY <1>2, <2>1, SeatConnect DEF Player
<1>3. ASSUME NEW c \in Conns, Server(c) \/ OpenFails(c) \/ Drop(c) PROVE SeatParts'
  <2>1. CASE Refuse(c) \/ OpenFails(c) \/ Drop(c) \/ NoticeLoss(c)
    <3>1. /\ stage[c] # "none" /\ stage' = [stage EXCEPT ![c] = "closing"]
          /\ UNCHANGED <<sid, key, session, user, holder, unseated>>
      BY <2>1 DEF Refuse, OpenFails, Drop, NoticeLoss, Shut, history
    <3> QED
      BY <3>1, SeatCloses
  <2>2. CASE BeatRead(c)
    <3>1. UNCHANGED SeatVars
      BY <2>2 DEF BeatRead, history, SeatVars
    <3> QED
      BY <3>1, SeatFrame
  <2> QED
    BY <1>3, <2>1, <2>2, SeatTag, SeatRegister, SeatCloseRead, SeatCloseMaps, SeatCloseKey,
       SeatBeat DEF Server
<1> QED
  BY <1>1, <1>2, <1>3, SeatExpire, SeatRestart DEF Next

\* A connection that was accepted is the one in the maps, and the key is its
\* link's, unless the key ran out, a heartbeat of an earlier link was late, or
\* another connection of the same link closed: the two maps and the key, which
\* the code changes one by one, never name different connections otherwise.
THEOREM AcceptedServed == Spec => []AcceptedIsServed
<1>1. SeatInv => AcceptedIsServed
  BY DEF SeatInv, TypeOK, SeatServed, SeatHolds, Seated, HolderKey, AcceptedIsServed
<1> QED
  BY <1>1, SeatStart, SeatNext, PTL DEF Spec
=============================================================================
