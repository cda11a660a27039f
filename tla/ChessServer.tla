---------------------------- MODULE ChessServer ----------------------------
(***************************************************************************)
(* The lobby server: connections that log in and become users, users that  *)
(* sit down at tables, get ready, stand up and leave, and the start of the *)
(* game of a table (ChessServer, GameTable, GameUser; Gate accepts the     *)
(* connections).  One thread runs the handlers, so each is one action.     *)
(*                                                                         *)
(* A session logs in at most once and then is its user: HandleLogin gives  *)
(* it callbacks that know no CMD_LOGIN.  A closed session does not come    *)
(* back; the client connects with a new one.  The game of a table is       *)
(* LandlordsGame; here it is only running or not.  Timeout callbacks are   *)
(* empty in the code, and messages it ignores are stuttering steps.        *)
(***************************************************************************)
EXTENDS Integers, Sequences, FiniteSets, FiniteSetsExt

CONSTANTS
  Session,      \* the connections there can be
  NoSession,    \* a seat's nullptr
  TableCount    \* DEFAULT_TABLE_COUNT

ASSUME ServerAssumption == NoSession \notin Session /\ TableCount \in Nat

SEAT_COUNT == 3
Seat    == 0 .. SEAT_COUNT - 1
Table   == 0 .. TableCount - 1
NoTable == TableCount
NoSeat  == SEAT_COUNT

VARIABLES
  conn,     \* "none", "unauth" (in unauth_sessions_), "auth" (in users_), "gone"
  state,    \* user_state_ of the session's user
  table,    \* table_ of the session's user
  seats,    \* users_ of each table
  game,     \* "off" while the game's game_state_ is null, then "on"
  status,   \* of the process: "running", "stopped" or "crashed"
  out       \* what the last handler sent: messages and who they went to

vars == <<conn, state, table, seats, game, status, out>>

Users == {u \in Session : conn[u] = "auth"}

\* GameTable::GetSeat, and whether ForwardTableMessage reaches the table.
SeatsOf(u, t) == {s \in Seat : seats[t][s] = u}
Seated(u)     == table[u] # NoTable /\ SeatsOf(u, table[u]) # {}
SeatOf(u)     == IF Seated(u) THEN Min(SeatsOf(u, table[u])) ELSE NoSeat

-----------------------------------------------------------------------------
(* Messages to the clients (chess_server_proto.h).                         *)

\* Faulty: the message is filled in before table_ is set.
SitMsgTooEarly(u, t, s) ==
  [cmd |-> "SITDOWN", user |-> u, table |-> table[u], seat |-> s]

UserInfo(u)     == [user |-> u, state |-> state[u], table |-> table[u],
                    seat |-> SeatOf(u)]
LoginMsg(us)    == [cmd |-> "LOGIN", users |-> us]
AddUserMsg(u)   == [cmd |-> "ADDUSER", user |-> u]
SitMsg(u, t, s) == [cmd |-> "SITDOWN", user |-> u, table |-> t, seat |-> s]
StateMsg(u, st) == [cmd |-> "UPDATEUSERSTATE", user |-> u, state |-> st]
DealMsg         == [cmd |-> "GAME"]     \* SendMessageTo(pos) of a new game

Send(to, m) == [to |-> to, msg |-> m]

-----------------------------------------------------------------------------
Init ==
  /\ conn  = [u \in Session |-> "none"]
  /\ state = [u \in Session |-> "STANDUP"]
  /\ table = [u \in Session |-> NoTable]
  /\ seats = [t \in Table |-> [s \in Seat |-> NoSession]]
  /\ game  = [t \in Table |-> "off"]
  /\ status = "running"
  /\ out = <<>>

Running(u, c) == status = "running" /\ conn[u] = c
Become(u, c)  == conn' = [conn EXCEPT ![u] = c]

OnConnection(u) ==
  /\ Running(u, "none") /\ Become(u, "unauth")
  /\ out' = <<>>
  /\ UNCHANGED <<state, table, seats, game, status>>

\* The peer closes, or sends anything but CMD_LOGIN: the session is erased.
DropUnauth(u) ==
  /\ Running(u, "unauth") /\ Become(u, "gone")
  /\ out' = <<>>
  /\ UNCHANGED <<state, table, seats, game, status>>

\* Faulty: the reply is made before the newcomer is put into users_.
ListedBefore(u) == Users
\* Whom the reply to the login of u lists.
Listed(u) == Users \cup {u}

\* The newcomer is told about everybody, then everybody else about it.
HandleLogin(u) ==
  /\ Running(u, "unauth") /\ Become(u, "auth")
  /\ out' = << Send({u}, LoginMsg({UserInfo(v) : v \in Listed(u)})),
               Send(Users, AddUserMsg(u)) >>
  /\ UNCHANGED <<state, table, seats, game, status>>

\* Faulty: the seat is not given up.
VacateNothing(t, s) == UNCHANGED seats
Vacate(t, s) == seats' = [seats EXCEPT ![t][s] = NoSession]

\* GameTable::HandleStandup; table_ keeps its value.
Standup(u, told) ==
  /\ state' = [state EXCEPT ![u] = "STANDUP"]
  /\ out' = <<Send(told, StateMsg(u, "STANDUP"))>>
  /\ Vacate(table[u], SeatOf(u))

HandleStandup(u) ==
  /\ Running(u, "auth") /\ Seated(u)
  /\ Standup(u, Users)
  /\ UNCHANGED <<conn, table, game, status>>

\* The peer closes: the user stands up first; the closed session gets nothing.
OnClose(u) ==
  /\ Running(u, "auth") /\ Become(u, "gone")
  /\ \/ Seated(u) /\ Standup(u, Users \ {u})
     \/ ~Seated(u) /\ out' = <<>> /\ UNCHANGED <<state, seats>>
  /\ UNCHANGED <<table, game, status>>

\* Faulty: nothing keeps a user from sitting down twice.
MaySitTwice(u) == TRUE
MaySit(u) == table[u] = NoTable

\* ChessServer::HandleSitdown and GameTable::HandleSitdown.
HandleSitdown(u, t, s) ==
  /\ Running(u, "auth")
  /\ t \in Table /\ s \in Seat
  /\ MaySit(u)
  /\ seats[t][s] = NoSession
  /\ seats' = [seats EXCEPT ![t][s] = u]
  /\ table' = [table EXCEPT ![u] = t]
  /\ state' = [state EXCEPT ![u] = "SITDOWN"]
  /\ out' = <<Send(Users, SitMsg(u, t, s))>>
  /\ UNCHANGED <<conn, game, status>>

\* The loop over the tables does not stop at the first seat it finds; it is
\* HandleSitdown that refuses the user every further one.
EmptySeats(t) == SeatsOf(NoSession, t)
HandleRandSitdown(u) ==
  \E t \in Table :
    /\ EmptySeats(t) # {}
    /\ \A r \in 0 .. t - 1 : EmptySeats(r) = {}
    /\ HandleSitdown(u, t, Min(EmptySeats(t)))

AllReady(t, st) == \A s \in Seat : seats[t][s] # NoSession
                                     /\ st[seats[t][s]] = "READY"

\* Faulty: the cards are dealt before the others hear that all are ready.
StartDealtFirst(u, t) ==
  out' = << Send({seats[t][s] : s \in Seat}, DealMsg),
            Send(Users, StateMsg(u, "READY")) >>
Start(u, t) ==
  out' = << Send(Users, StateMsg(u, "READY")),
            Send({seats[t][s] : s \in Seat}, DealMsg) >>

\* A game starts, again if it is running, when the table is full and ready;
\* READY is then left as it is.
HandleReady(u) ==
  /\ Running(u, "auth") /\ Seated(u)
  /\ state' = [state EXCEPT ![u] = "READY"]
  /\ LET t == table[u]
     IN  \/ /\ AllReady(t, state')
            /\ game' = [game EXCEPT ![t] = "on"]
            /\ Start(u, t)
         \/ /\ ~AllReady(t, state')
            /\ out' = <<Send(Users, StateMsg(u, "READY"))>>
            /\ UNCHANGED game
  /\ UNCHANGED <<conn, table, seats, status>>

\* A game message before the first start dereferences the null game_state_;
\* later ones are LandlordsGame's and change nothing here.
HandleGameTooEarly(u) ==
  /\ Running(u, "auth") /\ Seated(u)
  /\ game[table[u]] = "off"
  /\ status' = "crashed" /\ out' = <<>>
  /\ UNCHANGED <<conn, state, table, seats, game>>

\* Any user may send CMD_STOPSERVER.
HandleStopServer(u) ==
  /\ Running(u, "auth")
  /\ status' = "stopped" /\ out' = <<>>
  /\ UNCHANGED <<conn, state, table, seats, game>>

Next ==
  \E u \in Session :
    \/ OnConnection(u) \/ DropUnauth(u) \/ HandleLogin(u) \/ OnClose(u)
    \/ \E t \in Table, s \in Seat : HandleSitdown(u, t, s)
    \/ HandleRandSitdown(u) \/ HandleReady(u) \/ HandleStandup(u)
    \/ HandleGameTooEarly(u) \/ HandleStopServer(u)

Spec == Init /\ [][Next]_vars

-----------------------------------------------------------------------------
(* Safety                                                                  *)

UserState == {"STANDUP", "SITDOWN", "READY"}
Info == [user : Session, state : UserState, table : Table \cup {NoTable},
         seat : Seat \cup {NoSeat}]
Message ==      [cmd : {"LOGIN"}, users : SUBSET Info]
           \cup [cmd : {"ADDUSER"}, user : Session]
           \cup [cmd : {"SITDOWN"}, user : Session, table : Table, seat : Seat]
           \cup [cmd : {"UPDATEUSERSTATE"}, user : Session, state : UserState]
           \cup [cmd : {"GAME"}]

\* The variables have their types.
TypeOK ==
  /\ conn \in [Session -> {"none", "unauth", "auth", "gone"}]
  /\ state \in [Session -> UserState]
  /\ table \in [Session -> Table \cup {NoTable}]
  /\ seats \in [Table -> [Seat -> Session \cup {NoSession}]]
  /\ game \in [Table -> {"off", "on"}]
  /\ status \in {"running", "stopped", "crashed"}
  /\ out \in Seq([to : SUBSET Session, msg : Message])

\* Whoever occupies a seat is a user, at the table it knows it is at, and
\* occupies no other seat: also after users leave, and although the loop of
\* HandleRandSitdown runs on (chess_server.cpp:79-113, game_table.cpp:84-92).
SeatsConsistent ==
  \A t \in Table, s \in Seat :
    LET u == seats[t][s]
    IN  u # NoSession =>
          /\ conn[u] = "auth" /\ table[u] = t
          /\ \A r \in Seat : seats[t][r] = u => r = s

\* The state that other clients are told agrees with the seats: a user stands
\* exactly when it has no seat (game_table.cpp:73-97).
StateMatchesSeat ==
  \A u \in Users : state[u] = "STANDUP" <=> ~Seated(u)

\* A user whose table_ is set is seated there: "this player is already seated"
\* (chess_server.cpp:92) is why HandleSitdown refuses it.
TableMeansSeated == \A u \in Users : table[u] # NoTable => Seated(u)
=============================================================================
