------------------------------- MODULE Lobby -------------------------------
(***************************************************************************)
(* The lobby as its users see it: ChessServer, one FIFO channel to each    *)
(* user (what Channel promises of a Session), and the client's replica of  *)
(* users, tables and states, which it builds from the messages alone       *)
(* (GameClient).  Requests need no channel: a handler of ChessServer runs  *)
(* at any time already.  A client that has closed reads nothing more.      *)
(***************************************************************************)
EXTENDS ChessServer

CONSTANT MaxFlight      \* bound: messages on the way to one client

VARIABLES
  chan,   \* to each user: the messages on their way
  view    \* the GameClient of each user: health, and what it knows

lobbyVars == <<vars, chan, view>>

\* health: "up"; "null" after the use of a user that is not in users_;
\* "undefined" after a write outside the seats of a table.
EmptyView == [health |-> "up", known |-> {},
              state |-> [v \in Session |-> "STANDUP"],
              table |-> [v \in Session |-> NoTable],
              seats |-> [t \in Table |-> [s \in Seat |-> NoSession]]]

LobbyInit == /\ Init
             /\ chan = [u \in Session |-> <<>>]
             /\ view = [u \in Session |-> EmptyView]

-----------------------------------------------------------------------------
(* The handlers of the client                                              *)

Broken(w, how) == [w EXCEPT !.health = how]

\* Faulty: the seats of those who are here are not taken over.
LoginSeatsNone(w, us) == w.seats
\* Whom a reply with users us puts on the seats.
LoginSeats(w, us) ==
  [t \in Table |-> [s \in Seat |->
    LET there == {i \in us : i.table = t /\ i.seat = s}
    IN  IF there = {} THEN w.seats[t][s] ELSE (CHOOSE i \in there : TRUE).user]]

\* A user that stood up comes with its table and seat 0xffff.
ClientLogin(w, us) ==
  LET info(v) == CHOOSE i \in us : i.user = v
      here    == {i.user : i \in us}
  IN  IF \E i \in us : i.table # NoTable /\ i.seat = NoSeat
      THEN Broken(w, "undefined")
      ELSE [w EXCEPT
              !.known = @ \cup here,
              !.state = [v \in Session |-> IF v \in here THEN info(v).state ELSE @[v]],
              !.table = [v \in Session |-> IF v \in here THEN info(v).table ELSE @[v]],
              !.seats = LoginSeats(w, us)]

\* A new object replaces what was known of the user.
ClientAddUser(w, v) == [w EXCEPT !.known = @ \cup {v}, !.state[v] = "STANDUP",
                                 !.table[v] = NoTable]

\* The state is left as it is, and nobody is taken off the seat before.
ClientSitdown(w, u, v, t, s) ==
  IF {u, v} \subseteq w.known
  THEN [w EXCEPT !.seats[t][s] = v, !.table[v] = t] ELSE Broken(w, "null")

\* Faulty: only new states that mean something to the screen are kept.
ClientStateReady(w, u, v, st) == IF st = "READY" THEN [w EXCEPT !.state[v] = st] ELSE w
ClientState(w, u, v, st) ==
  IF {u, v} \subseteq w.known THEN [w EXCEPT !.state[v] = st] ELSE Broken(w, "null")

\* The replica of u after message m; a broken client takes no more.
Handle(u, w, m) ==
  IF w.health # "up" THEN w
  ELSE CASE m.cmd = "LOGIN" -> ClientLogin(w, m.users)
         [] m.cmd = "ADDUSER" -> ClientAddUser(w, m.user)
         [] m.cmd = "SITDOWN" -> ClientSitdown(w, u, m.user, m.table, m.seat)
         [] m.cmd = "UPDATEUSERSTATE" -> ClientState(w, u, m.user, m.state)
         [] OTHER -> w

-----------------------------------------------------------------------------
\* The messages c on their way to u, and behind them the i-th of the handler.
Told(c, u, i) ==
  IF i \in DOMAIN out' /\ u \in out'[i].to THEN Append(c, out'[i].msg) ELSE c

\* No handler sends more than two messages.
Queue(u) == Told(Told(chan[u], u, 1), u, 2)

\* One handler of the server; its messages go out with it.
ServerStep ==
  /\ Next
  /\ chan' = [u \in Session |-> IF conn'[u] = "auth" THEN Queue(u) ELSE <<>>]
  /\ \A u \in Session : Len(chan'[u]) <= MaxFlight
  /\ UNCHANGED view

\* What still arrives after the server's process has ended is left out.
Deliver(u) ==
  /\ status = "running" /\ chan[u] # <<>>
  /\ view' = [view EXCEPT ![u] = Handle(u, @, Head(chan[u]))]
  /\ chan' = [chan EXCEPT ![u] = Tail(@)]
  /\ UNCHANGED vars

LobbyNext == ServerStep \/ \E u \in Session : Deliver(u)

LobbySpec == LobbyInit /\ [][LobbyNext]_lobbyVars

-----------------------------------------------------------------------------
(* Safety                                                                  *)

\* What u's client will know once it has read all that is on its way.
Caught(u) ==
  LET w[i \in 0 .. Len(chan[u])] ==
        IF i = 0 THEN view[u] ELSE Handle(u, w[i - 1], chan[u][i])
  IN  w[Len(chan[u])]

\* The replica w of u has u at a table full of players who are ready.
AtFullTable(u, w) ==
  LET players == w.seats[w.table[u]]
  IN  /\ w.table[u] # NoTable /\ \E s \in Seat : players[s] = u
      /\ \A s \in Seat : players[s] # NoSession /\ w.state[players[s]] = "READY"

\* The variables have their types.
LobbyTypeOK ==
  /\ chan \in [Session -> Seq(Message)]
  /\ view \in [Session ->
       [health : {"up", "null", "undefined"}, known : SUBSET Session,
        state : [Session -> UserState], table : [Session -> Table \cup {NoTable}],
        seats : [Table -> [Seat -> Session \cup {NoSession}]]]]

\* No message names a user that the client has not heard of, itself included:
\* the client asserts it (GameLogi.cpp:167) or goes on without looking
\* (GameLogi.cpp:147-150).  It rests on the reply to the login being the first
\* message, complete, and on everybody being told of newcomers in time.
NobodyUnknown == \A u \in Session : view[u].health # "null"

\* A client that has caught up has everybody who is seated on the right seat
\* and at the right table (GameLogi.cpp:120-162, game_table.cpp:73-92).
SeatsCatchUp ==
  \A u \in Users : LET w == Caught(u) IN
    w.health = "up" =>
      /\ \A v \in Users : v \in w.known /\ w.table[v] = table[v]
      /\ \A t \in Table, s \in Seat :
           seats[t][s] # NoSession => w.seats[t][s] = seats[t][s]

\* A client that has caught up has exactly the ready users as ready, although
\* it is never told that a user sits (GameLogi.cpp:126, 141, 165-168).
ReadyCatchesUp ==
  \A u \in Users : LET w == Caught(u) IN
    w.health = "up" =>
      \A v \in Users : w.state[v] = "READY" <=> state[v] = "READY"

\* When the cards of a new game reach a client, it has its own table full of
\* players who are ready: all that preceded the start has been told before
\* (game_table.cpp:95-113, HelloWorldScene.cpp:269-271).
DealFindsTable ==
  \A u \in Users :
    chan[u] # <<>> /\ Head(chan[u]).cmd = "GAME" /\ view[u].health = "up" =>
      AtFullTable(u, view[u])
=============================================================================
