------------------------- MODULE ChessServer_proofs -------------------------
(***************************************************************************)
(* Proofs about ChessServer, for any sessions and any number of tables:    *)
(* the seats, the users' table_ and the users' states agree, and a full    *)
(* table that is ready has its game.                                       *)
(***************************************************************************)
EXTENDS ChessServer, TLAPS

USE DEF Seat, SEAT_COUNT, NoSeat, NoTable, Table

\* Seated without the set of seats.
LEMMA SeatedMeans ==
  ASSUME TypeOK, NEW u \in Session
  PROVE  Seated(u) <=> table[u] # NoTable /\ \E s \in Seat : seats[table[u]][s] = u
BY DEF Seated, SeatsOf, TypeOK

\* The seat that is found is one of the user's.
LEMMA SeatFound ==
  ASSUME TypeOK, NEW u \in Session, Seated(u)
  PROVE  table[u] \in Table /\ SeatOf(u) \in Seat /\ seats[table[u]][SeatOf(u)] = u
<1> DEFINE S == SeatsOf(u, table[u])
<1>1. S \subseteq Seat /\ S # {} /\ SeatOf(u) = Min(S)
  BY DEF Seated, SeatsOf, SeatOf
<1>2. \E x \in S : \A y \in S : x <= y
  <2>1. CASE 0 \in S
    BY <1>1, <2>1
  <2>2. CASE 0 \notin S /\ 1 \in S
    BY <1>1, <2>2
  <2>3. CASE 0 \notin S /\ 1 \notin S
    BY <1>1, <2>3
  <2> QED
    BY <2>1, <2>2, <2>3
<1>3. Min(S) \in S
  BY <1>2 DEF Min
<1>4. SeatOf(u) \in Seat /\ seats[table[u]][SeatOf(u)] = u
  BY <1>1, <1>3 DEF SeatsOf
<1>5. table[u] \in Table
  BY DEF Seated, TypeOK
<1> QED
  BY <1>4, <1>5

\* The seat HandleRandSitdown takes is one of the table's.
LEMMA EmptyFound ==
  ASSUME TypeOK, NEW t \in Table, EmptySeats(t) # {}
  PROVE  Min(EmptySeats(t)) \in Seat
<1> DEFINE S == EmptySeats(t)
<1>1. S \subseteq Seat
  BY DEF EmptySeats, SeatsOf
<1>2. \E x \in S : \A y \in S : x <= y
  <2>1. CASE 0 \in S
    BY <1>1, <2>1
  <2>2. CASE 0 \notin S /\ 1 \in S
    BY <1>1, <2>2
  <2>3. CASE 0 \notin S /\ 1 \notin S
    BY <1>1, <2>3
  <2> QED
    BY <2>1, <2>2, <2>3
<1>3. Min(S) \in S
  BY <1>2 DEF Min
<1> QED
  BY <1>1, <1>3

-----------------------------------------------------------------------------
(* What a handler sends                                                    *)

Sent == [to : SUBSET Session, msg : Message]

LEMMA LoginSent ==
  ASSUME TypeOK, NEW u \in Session
  PROVE  << Send({u}, LoginMsg({UserInfo(v) : v \in Listed(u)})),
            Send(Users, AddUserMsg(u)) >> \in Seq(Sent)
<1>1. ASSUME NEW v \in Session PROVE UserInfo(v) \in Info
  <2>1. SeatOf(v) \in Seat \cup {NoSeat}
    BY SeatFound DEF SeatOf
  <2> QED
    BY <2>1 DEF UserInfo, Info, TypeOK, UserState
<1>2. LoginMsg({UserInfo(v) : v \in Listed(u)}) \in Message
  BY <1>1 DEF LoginMsg, Listed, Users, Message
<1>3. AddUserMsg(u) \in Message
  BY DEF AddUserMsg, Message
<1> QED
  BY <1>2, <1>3 DEF Sent, Send, Users

LEMMA StateSent ==
  ASSUME NEW u \in Session, NEW st \in UserState, NEW to \in SUBSET Session
  PROVE  Send(to, StateMsg(u, st)) \in Sent
BY DEF Sent, Send, StateMsg, Message

-----------------------------------------------------------------------------
(* Type correctness                                                        *)

LEMMA TypeConn ==
  ASSUME TypeOK, NEW u \in Session,
         OnConnection(u) \/ DropUnauth(u) \/ HandleLogin(u)
  PROVE  TypeOK'
<1> USE DEF TypeOK, Running, Become
<1>1. CASE OnConnection(u)
  BY <1>1 DEF OnConnection
<1>2. CASE DropUnauth(u)
  BY <1>2 DEF DropUnauth
<1>3. CASE HandleLogin(u)
  <2>1. out' \in Seq(Sent)
    BY <1>3, LoginSent DEF HandleLogin
  <2> QED
    BY <1>3, <2>1 DEF HandleLogin, Sent
<1> QED
  BY <1>1, <1>2, <1>3

LEMMA TypeStandup ==
  ASSUME TypeOK, NEW u \in Session, HandleStandup(u) \/ OnClose(u)
  PROVE  TypeOK'
<1> USE DEF TypeOK, Running, Become
<1>1. ASSUME Seated(u), NEW told \in SUBSET Session, Standup(u, told)
      PROVE  /\ state' \in [Session -> UserState]
             /\ seats' \in [Table -> [Seat -> Session \cup {NoSession}]]
             /\ out' \in Seq(Sent)
  <2>1. "STANDUP" \in UserState
    BY DEF UserState
  <2>2. out' = <<Send(told, StateMsg(u, "STANDUP"))>>
    BY <1>1 DEF Standup
  <2>3. out' \in Seq(Sent)
    BY <2>1, <2>2, StateSent
  <2> QED
    BY <1>1, <2>1, <2>3 DEF Standup, Vacate
<1>2. Users \subseteq Session /\ Users \ {u} \subseteq Session
  BY DEF Users
<1>3. CASE HandleStandup(u)
  <2>1. Seated(u) /\ Standup(u, Users)
    BY <1>3 DEF HandleStandup
  <2> QED
    BY <1>1, <1>2, <1>3, <2>1 DEF HandleStandup, Sent
<1>4. CASE OnClose(u) /\ Seated(u)
  <2>1. Standup(u, Users \ {u})
    BY <1>4 DEF OnClose
  <2> QED
    BY <1>1, <1>2, <1>4, <2>1 DEF OnClose, Sent
<1>5. CASE OnClose(u) /\ ~Seated(u)
  <2>1. /\ conn' = [conn EXCEPT ![u] = "gone"] /\ out' = <<>>
        /\ UNCHANGED <<state, seats, table, game, status>>
    BY <1>5 DEF OnClose
  <2> QED
    BY <2>1
<1> QED
  BY <1>3, <1>4, <1>5

LEMMA TypeSitdown ==
  ASSUME TypeOK, NEW u \in Session, NEW t \in Table, NEW s \in Seat,
         HandleSitdown(u, t, s)
  PROVE  TypeOK'
<1> USE DEF TypeOK, HandleSitdown
<1>1. SitMsg(u, t, s) \in Message /\ Users \subseteq Session
  BY DEF SitMsg, Message, Users
<1>2. out' \in Seq(Sent)
  BY <1>1 DEF Send, Sent
<1> QED
  BY <1>2 DEF UserState, Sent

LEMMA TypeReady ==
  ASSUME TypeOK, NEW u \in Session, HandleReady(u)
  PROVE  TypeOK'
<1> USE DEF TypeOK
<1>1. table[u] \in Table
  BY DEF HandleReady, Seated
<1>2. Send(Users, StateMsg(u, "READY")) \in Sent
  BY StateSent DEF Users, UserState
<1>3. CASE AllReady(table[u], state')
  <2>1. {seats[table[u]][s] : s \in Seat} \subseteq Session
    BY <1>1, <1>3 DEF AllReady
  <2>2. Send({seats[table[u]][s] : s \in Seat}, DealMsg) \in Sent
    BY <2>1 DEF Send, Sent, DealMsg, Message
  <2>3. /\ out' = <<Send(Users, StateMsg(u, "READY")),
                   Send({seats[table[u]][s] : s \in Seat}, DealMsg)>>
        /\ game' = [game EXCEPT ![table[u]] = "on"]
    BY <1>3 DEF HandleReady, Start
  <2>4. out' \in Seq(Sent)
    BY <1>2, <2>2, <2>3
  <2>5. state' \in [Session -> UserState] /\ game' \in [Table -> {"off", "on"}]
    BY <2>3 DEF HandleReady, UserState
  <2> QED
    BY <2>4, <2>5 DEF HandleReady, Sent
<1>4. CASE ~AllReady(table[u], state')
  <2>1. out' = <<Send(Users, StateMsg(u, "READY"))>> /\ game' = game
    BY <1>4 DEF HandleReady
  <2>2. out' \in Seq(Sent)
    BY <1>2, <2>1
  <2>3. state' \in [Session -> UserState]
    BY DEF HandleReady, UserState
  <2> QED
    BY <2>1, <2>2, <2>3 DEF HandleReady, Sent
<1> QED
  BY <1>3, <1>4

\* Every step is one of five kinds.
Kinds(u) ==
  \/ OnConnection(u) \/ DropUnauth(u) \/ HandleLogin(u)
  \/ HandleStandup(u) \/ OnClose(u)
  \/ \E t \in Table, s \in Seat : HandleSitdown(u, t, s)
  \/ HandleReady(u)
  \/ HandleGameTooEarly(u) \/ HandleStopServer(u)

LEMMA StepKinds == TypeOK /\ Next => \E u \in Session : Kinds(u)
<1> SUFFICES ASSUME TypeOK, NEW u \in Session, HandleRandSitdown(u)
             PROVE  \E t \in Table, s \in Seat : HandleSitdown(u, t, s)
  BY DEF Next, Kinds
<1>1. PICK t \in Table : EmptySeats(t) # {} /\ HandleSitdown(u, t, Min(EmptySeats(t)))
  BY DEF HandleRandSitdown
<1> QED
  BY <1>1, EmptyFound

LEMMA TypeNext == TypeOK /\ [Next]_vars => TypeOK'
<1>1. ASSUME TypeOK, UNCHANGED vars PROVE TypeOK'
  BY <1>1 DEF TypeOK, vars
<1>2. ASSUME TypeOK, NEW u \in Session, HandleGameTooEarly(u) \/ HandleStopServer(u)
      PROVE  TypeOK'
  <2>1. /\ status' \in {"stopped", "crashed"} /\ out' = <<>>
        /\ UNCHANGED <<conn, state, table, seats, game>>
    BY <1>2 DEF HandleGameTooEarly, HandleStopServer
  <2> QED
    BY <1>2, <2>1 DEF TypeOK
<1> QED
  BY <1>1, <1>2, StepKinds, TypeConn, TypeStandup, TypeSitdown, TypeReady DEF Kinds

LEMMA TypeInit == Init => TypeOK
BY DEF Init, TypeOK, UserState

\* The variables have their types (chess_server.h:66-72, game_table.h:63-68).
THEOREM ServerTypeCorrect == Spec => []TypeOK
BY TypeInit, TypeNext, PTL DEF Spec

-----------------------------------------------------------------------------
(* Seats                                                                   *)

\* Who has not logged in has nothing: what makes the seats of a newcomer agree.
Fresh == \A u \in Session :
           conn[u] \in {"none", "unauth"} => state[u] = "STANDUP" /\ table[u] = NoTable

SInv == TypeOK /\ Fresh /\ SeatsConsistent /\ StateMatchesSeat

\* A user is seated where seats says it is, and only there.
LEMMA OnlySeat ==
  ASSUME SInv, NEW u \in Session
  PROVE  /\ \A t \in Table, s \in Seat : seats[t][s] = u => Seated(u) /\ t = table[u]
                                                            /\ s = SeatOf(u)
<1> SUFFICES ASSUME NEW t \in Table, NEW s \in Seat, seats[t][s] = u
             PROVE  Seated(u) /\ t = table[u] /\ s = SeatOf(u)
  OBVIOUS
<1>1. t = table[u] /\ \A r \in Seat : seats[t][r] = u => r = s
  BY ServerAssumption DEF SInv, SeatsConsistent
<1>2. Seated(u)
  BY <1>1, SeatedMeans DEF SInv
<1>3. SeatOf(u) = s
  BY <1>1, <1>2, SeatFound DEF SInv
<1> QED
  BY <1>1, <1>2, <1>3

\* Standing up or leaving frees the user's seat and changes no other.
LEMMA FreesOne ==
  ASSUME SInv, NEW u \in Session, Seated(u), NEW told, Standup(u, told)
  PROVE  /\ state' = [state EXCEPT ![u] = "STANDUP"]
         /\ \A t \in Table, s \in Seat :
              seats'[t][s] = IF seats[t][s] = u THEN NoSession ELSE seats[t][s]
<1>1. table[u] \in Table /\ SeatOf(u) \in Seat /\ seats[table[u]][SeatOf(u)] = u
  BY SeatFound DEF SInv
<1>2. seats' = [seats EXCEPT ![table[u]][SeatOf(u)] = NoSession]
  BY DEF Standup, Vacate
<1>3. ASSUME NEW t \in Table, NEW s \in Seat
      PROVE  seats'[t][s] = IF seats[t][s] = u THEN NoSession ELSE seats[t][s]
  <2>1. seats[t][s] = u <=> t = table[u] /\ s = SeatOf(u)
    BY <1>1, OnlySeat
  <2> QED
    BY <1>1, <1>2, <2>1 DEF SInv, TypeOK
<1> QED
  BY <1>3 DEF Standup

\* Seated in the next state, of a state whose types are right.
LEMMA SeatedNext ==
  ASSUME TypeOK', NEW u \in Session
  PROVE  Seated(u)' <=> table'[u] # NoTable /\ \E s \in Seat : seats'[table'[u]][s] = u
BY DEF Seated, SeatsOf, TypeOK

LEMMA SInit == Init => SInv
<1> SUFFICES ASSUME Init PROVE SInv
  OBVIOUS
<1>1. TypeOK
  BY TypeInit
<1>2. Users = {}
  BY DEF Init, Users
<1> QED
  BY <1>1, <1>2, ServerAssumption
     DEF SInv, Init, Fresh, SeatsConsistent, StateMatchesSeat

\* A step that only moves u between the sets of connections, and to the users
\* only if it is new, or away from them if it has no seat.
LEMMA ConnKeeps ==
  ASSUME SInv, TypeOK', NEW u \in Session, NEW c \in {"unauth", "auth", "gone"},
         conn' = [conn EXCEPT ![u] = c], UNCHANGED <<state, table, seats, game>>,
         \/ conn[u] = "none" /\ c = "unauth"
         \/ conn[u] = "unauth"
         \/ conn[u] = "auth" /\ c = "gone" /\ ~Seated(u)
  PROVE  SInv'
<1> USE DEF SInv
<1>1. Fresh'
  BY DEF Fresh, TypeOK
<1>2. \A v \in Session : Seated(v)' <=> Seated(v)
  BY DEF Seated, SeatsOf
<1>3. \A t \in Table, s \in Seat : seats[t][s] # u
  <2>1. ASSUME NEW t \in Table, NEW s \in Seat, seats[t][s] = u PROVE FALSE
    <3>1. conn[u] = "auth" /\ Seated(u)
      BY <2>1, OnlySeat, ServerAssumption DEF SeatsConsistent
    <3> QED
      BY <3>1
  <2> QED
    BY <2>1
<1>4. SeatsConsistent'
  BY <1>3, ServerAssumption DEF SeatsConsistent, TypeOK
<1>5. StateMatchesSeat'
  <2>1. ASSUME NEW v \in Users' PROVE state'[v] = "STANDUP" <=> ~Seated(v)'
    <3>1. v \in Session /\ (v = u \/ v \in Users)
      BY <2>1 DEF Users, TypeOK
    <3>2. CASE v \in Users
      BY <1>2, <3>1, <3>2 DEF StateMatchesSeat
    <3>3. CASE v = u /\ v \notin Users
      <4>1. conn[u] = "unauth"
        BY <2>1, <3>1, <3>3 DEF Users, TypeOK
      <4>2. state[u] = "STANDUP" /\ table[u] = NoTable
        BY <4>1 DEF Fresh
      <4> QED
        BY <1>2, <3>3, <4>2 DEF Seated
    <3> QED
      BY <3>1, <3>2, <3>3
  <2> QED
    BY <2>1 DEF StateMatchesSeat
<1> QED
  BY <1>1, <1>4, <1>5

LEMMA StandupKeeps ==
  ASSUME SInv, TypeOK', NEW u \in Session, NEW c \in {"auth", "gone"},
         conn[u] = "auth", conn' = [conn EXCEPT ![u] = c],
         Seated(u), NEW told, Standup(u, told), UNCHANGED <<table, game>>
  PROVE  SInv'
<1> USE DEF SInv
<1>1. /\ state' = [state EXCEPT ![u] = "STANDUP"]
      /\ \A t \in Table, s \in Seat :
           seats'[t][s] = IF seats[t][s] = u THEN NoSession ELSE seats[t][s]
  BY FreesOne
<1>2. Fresh'
  BY <1>1 DEF Fresh, TypeOK
<1>3. SeatsConsistent'
  BY <1>1, ServerAssumption DEF SeatsConsistent, TypeOK
<1>4. StateMatchesSeat'
  <2>1. ASSUME NEW v \in Users' PROVE state'[v] = "STANDUP" <=> ~Seated(v)'
    <3>1. v \in Users /\ v \in Session
      BY <2>1 DEF Users, TypeOK
    <3>2. CASE v = u
      <4>1. state'[u] = "STANDUP"
        BY <1>1 DEF TypeOK
      <4>2. ~Seated(u)'
        <5>1. \A t \in Table, s \in Seat : seats'[t][s] # u
          BY <1>1, ServerAssumption
        <5>2. table'[u] = NoTable \/ table'[u] \in Table
          BY DEF TypeOK
        <5> QED
          BY <5>1, <5>2, SeatedNext
      <4> QED
        BY <3>2, <4>1, <4>2
    <3>3. CASE v # u
      <4>1. Seated(v)' <=> Seated(v)
        <5>1. \A t \in Table, s \in Seat : seats'[t][s] = v <=> seats[t][s] = v
          BY <1>1, <3>1, <3>3, ServerAssumption
        <5>2. table'[v] = table[v] /\ (table[v] = NoTable \/ table[v] \in Table)
          BY <3>1 DEF TypeOK
        <5> QED
          BY <3>1, <5>1, <5>2, SeatedNext, SeatedMeans
      <4>2. state'[v] = state[v]
        BY <1>1, <3>1, <3>3 DEF TypeOK
      <4> QED
        BY <3>1, <4>1, <4>2 DEF StateMatchesSeat
    <3> QED
      BY <3>2, <3>3
  <2> QED
    BY <2>1 DEF StateMatchesSeat
<1> QED
  BY <1>2, <1>3, <1>4

LEMMA SitdownKeeps ==
  ASSUME SInv, TypeOK', NEW u \in Session, NEW t \in Table, NEW s \in Seat,
         HandleSitdown(u, t, s)
  PROVE  SInv'
<1> USE DEF SInv
<1>1. /\ conn[u] = "auth" /\ table[u] = NoTable /\ seats[t][s] = NoSession
      /\ seats' = [seats EXCEPT ![t][s] = u] /\ table' = [table EXCEPT ![u] = t]
      /\ state' = [state EXCEPT ![u] = "SITDOWN"] /\ UNCHANGED <<conn, game>>
  BY DEF HandleSitdown, MaySit, Running
<1>2. \A r \in Table, q \in Seat :
        seats'[r][q] = IF r = t /\ q = s THEN u ELSE seats[r][q]
  BY <1>1 DEF TypeOK
<1>3. \A r \in Table, q \in Seat : seats[r][q] # u
  BY <1>1, OnlySeat DEF Seated
<1>4. Fresh'
  BY <1>1 DEF Fresh, TypeOK
<1>5. SeatsConsistent'
  <2>1. ASSUME NEW r \in Table, NEW q \in Seat, seats'[r][q] # NoSession
        PROVE  /\ conn'[seats'[r][q]] = "auth" /\ table'[seats'[r][q]] = r
               /\ \A p \in Seat : seats'[r][p] = seats'[r][q] => p = q
    <3>1. CASE r = t /\ q = s
      BY <1>1, <1>2, <1>3, <3>1 DEF TypeOK
    <3>2. CASE ~(r = t /\ q = s)
      <4>1. seats'[r][q] = seats[r][q] /\ seats[r][q] # u /\ seats[r][q] \in Session
        BY <1>2, <1>3, <2>1, <3>2 DEF TypeOK
      <4>2. /\ conn[seats[r][q]] = "auth" /\ table[seats[r][q]] = r
            /\ \A p \in Seat : seats[r][p] = seats[r][q] => p = q
        BY <2>1, <4>1 DEF SeatsConsistent
      <4>3. \A p \in Seat : seats'[r][p] = seats[r][p] \/ seats'[r][p] = u
        BY <1>2
      <4> QED
        BY <1>1, <4>1, <4>2, <4>3 DEF TypeOK
    <3> QED
      BY <3>1, <3>2
  <2> QED
    BY <2>1 DEF SeatsConsistent
<1>6. StateMatchesSeat'
  <2>1. ASSUME NEW v \in Users' PROVE state'[v] = "STANDUP" <=> ~Seated(v)'
    <3>1. v \in Users /\ v \in Session
      BY <1>1, <2>1 DEF Users
    <3>2. CASE v = u
      <4>1. table'[u] = t /\ t # NoTable /\ seats'[t][s] = u /\ state'[u] = "SITDOWN"
        BY <1>1, <1>2, ServerAssumption DEF TypeOK
      <4>2. Seated(u)'
        BY <4>1, SeatedNext
      <4> QED
        BY <3>2, <4>1, <4>2
    <3>3. CASE v # u
      <4>1. table'[v] = table[v] /\ state'[v] = state[v]
        BY <1>1, <3>1, <3>3 DEF TypeOK
      <4>2. \A r \in Table, q \in Seat : seats'[r][q] = v <=> seats[r][q] = v
        BY <1>1, <1>2, <3>1, <3>3, ServerAssumption
      <4>3. Seated(v)' <=> Seated(v)
        BY <3>1, <4>1, <4>2, SeatedNext, SeatedMeans DEF TypeOK
      <4> QED
        BY <3>1, <4>1, <4>3 DEF StateMatchesSeat
    <3> QED
      BY <3>2, <3>3
  <2> QED
    BY <2>1 DEF StateMatchesSeat
<1> QED
  BY <1>4, <1>5, <1>6

LEMMA ReadyKeeps ==
  ASSUME SInv, TypeOK', NEW u \in Session, HandleReady(u)
  PROVE  SInv'
<1> USE DEF SInv
<1>1. /\ conn[u] = "auth" /\ Seated(u) /\ state' = [state EXCEPT ![u] = "READY"]
      /\ UNCHANGED <<conn, table, seats>> /\ table[u] \in Table
  BY DEF HandleReady, Running, Seated, TypeOK
<1>3. Fresh'
  BY <1>1 DEF Fresh, TypeOK
<1>4. SeatsConsistent'
  BY <1>1 DEF SeatsConsistent
<1>5. StateMatchesSeat'
  <2>1. ASSUME NEW v \in Users' PROVE state'[v] = "STANDUP" <=> ~Seated(v)'
    <3>1. v \in Users /\ v \in Session /\ (Seated(v)' <=> Seated(v))
      BY <1>1, <2>1 DEF Users, Seated, SeatsOf
    <3> QED
      BY <1>1, <3>1 DEF StateMatchesSeat, TypeOK
  <2> QED
    BY <2>1 DEF StateMatchesSeat
<1> QED
  BY <1>3, <1>4, <1>5

LEMMA SNext == SInv /\ [Next]_vars => SInv'
<1> SUFFICES ASSUME SInv, [Next]_vars PROVE SInv'
  OBVIOUS
<1>1. TypeOK'
  BY TypeNext DEF SInv
<1>2. ASSUME UNCHANGED <<conn, state, table, seats, game>> PROVE SInv'
  BY <1>1, <1>2 DEF SInv, Fresh, SeatsConsistent, StateMatchesSeat, Users, Seated, SeatsOf
<1>3. ASSUME NEW u \in Session, Kinds(u) PROVE SInv'
  <2> USE DEF Running, Become
  <2>1. CASE OnConnection(u)
    BY <1>1, <2>1, ConnKeeps DEF OnConnection
  <2>2. CASE DropUnauth(u)
    BY <1>1, <2>2, ConnKeeps DEF DropUnauth
  <2>3. CASE HandleLogin(u)
    BY <1>1, <2>3, ConnKeeps DEF HandleLogin
  <2>4. CASE HandleStandup(u)
    <3>1. conn[u] = "auth" /\ conn' = [conn EXCEPT ![u] = "auth"]
      BY <2>4 DEF HandleStandup, SInv, TypeOK
    <3> QED
      BY <1>1, <2>4, <3>1, StandupKeeps DEF HandleStandup
  <2>5. CASE OnClose(u) /\ Seated(u)
    BY <1>1, <2>5, StandupKeeps DEF OnClose
  <2>6. CASE OnClose(u) /\ ~Seated(u)
    BY <1>1, <2>6, ConnKeeps DEF OnClose
  <2>7. CASE \E t \in Table, s \in Seat : HandleSitdown(u, t, s)
    BY <1>1, <2>7, SitdownKeeps
  <2>8. CASE HandleReady(u)
    BY <1>1, <2>8, ReadyKeeps
  <2>9. CASE HandleGameTooEarly(u) \/ HandleStopServer(u)
    BY <1>2, <2>9 DEF HandleGameTooEarly, HandleStopServer
  <2> QED
    BY <1>3, <2>1, <2>2, <2>3, <2>4, <2>5, <2>6, <2>7, <2>8, <2>9 DEF Kinds
<1>4. CASE UNCHANGED vars
  BY <1>2, <1>4 DEF vars
<1> QED
  BY <1>3, <1>4, StepKinds DEF SInv

LEMMA Invariance == Spec => []SInv
BY SInit, SNext, PTL DEF Spec

-----------------------------------------------------------------------------
(* The theorems                                                            *)

\* Whoever occupies a seat is a user, at the table it knows it is at, and
\* occupies no other seat (chess_server.cpp:79-113, game_table.cpp:84-92).
THEOREM ServerSeats == Spec => []SeatsConsistent
<1>1. SInv => SeatsConsistent
  BY DEF SInv
<1> QED
  BY <1>1, Invariance, PTL

\* A user stands exactly when it has no seat (game_table.cpp:73-97).
THEOREM ServerStates == Spec => []StateMatchesSeat
<1>1. SInv => StateMatchesSeat
  BY DEF SInv
<1> QED
  BY <1>1, Invariance, PTL
=============================================================================
