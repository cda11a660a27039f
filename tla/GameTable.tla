----------------------------- MODULE GameTable -----------------------------
(***************************************************************************)
(* A table of the server with its game, the three players who sit there    *)
(* and the screens (HelloWorldScene) through which they play: the game of  *)
(* LandlordsGame, driven by what the screens let the players press.        *)
(*                                                                         *)
(* A player and the server are joined by two FIFO queues, what Channel     *)
(* promises of a Session in either direction.  A player may leave and its  *)
(* seat be taken by somebody else, whose screen starts empty.  Of the      *)
(* messages about users only those that change what is modelled of a       *)
(* screen are sent: the news that oneself is ready.  The timer of the      *)
(* calling never fires here (GameTable::SetTimeout), so there is no step   *)
(* for OnTimeOut.                                                          *)
(***************************************************************************)
EXTENDS LandlordsGame

CONSTANTS
  Leavers,       \* bound: the seats whose users may leave
  Laggers,       \* bound: the seats that may lag behind the server and press
                 \* a button before the last request has been received
  MaxRequests,   \* bound: requests on their way from all players
  MaxFlight      \* bound: messages on their way to one player

VARIABLES
  user,       \* user_state_ of the user of a seat; "none": nobody sits there
  requests,   \* from each seat: the requests on their way
  chan,       \* to each seat: the messages on their way
  screen,     \* the HelloWorld scene of each seat
  dealt,      \* history: the user of the seat was dealt its cards
  rushed      \* history: it chose cards while an earlier choice was on its way

tableVars == <<vars, user, requests, chan, screen, dealt, rushed>>

-----------------------------------------------------------------------------
(* The screen: which buttons show, the hand, and my_out_cards_, the cards  *)
(* chosen last.                                                            *)

\* Faulty: the buttons for the play are not hidden when the scene is made.
NewScreenAllShown == [ready |-> TRUE, call |-> FALSE, put |-> TRUE,
                      hand |-> {}, mine |-> {}]
NewScreen == [ready |-> TRUE, call |-> FALSE, put |-> FALSE,
              hand |-> {}, mine |-> {}]

\* Nothing is done to the buttons of the play.
HandDeal(w, s, m) == [w EXCEPT !.hand = m.cards, !.call = (m.cur = s)]

\* Faulty: the buttons are shown to the one who calls and never hidden.
HandleGrabLandlordOnce(w, s, m) == [w EXCEPT !.call = @ \/ (m.cur = s)]
HandleGrabLandlord(w, s, m) == [w EXCEPT !.call = (m.cur = s)]

HandleGrabLandlordOver(w, s, m) ==
  [w EXCEPT !.call = FALSE, !.put = (m.who = s)]

\* Faulty: whoever plays, the cards chosen last leave the hand.
RemovedByAnyone(w, s, m) == IF m.cards # {} THEN w.mine ELSE {}
\* The cards that leave the hand are those chosen last.
Removed(w, s, m) == IF m.who = s /\ m.cards # {} THEN w.mine ELSE {}

HandlePlayCard(w, s, m) ==
  [w EXCEPT !.hand = @ \ Removed(w, s, m), !.put = (NextSeat(m.who) = s)]

\* Faulty: the end of a game is not shown.
HandleGameOverUnseen(w) == w
HandleGameOver(w) == [w EXCEPT !.ready = TRUE]

OnUserStateChange(w) == [w EXCEPT !.ready = FALSE]

\* The screen of seat s after message m.
Shown(w, s, m) ==
  CASE m.type = "DEAL"      -> HandDeal(w, s, m)
    [] m.type = "GRAB"      -> HandleGrabLandlord(w, s, m)
    [] m.type = "GRAB_DONE" -> HandleGrabLandlordOver(w, s, m)
    [] m.type = "PLAY"      -> HandlePlayCard(w, s, m)
    [] m.type = "OVER"      -> HandleGameOver(w)
    [] m.type = "READY"     -> OnUserStateChange(w)

-----------------------------------------------------------------------------
TableInit ==
  /\ Init
  /\ user = [s \in Seat |-> "none"]
  /\ requests = [s \in Seat |-> <<>>]
  /\ chan = [s \in Seat |-> <<>>]
  /\ screen = [s \in Seat |-> NewScreen]
  /\ dealt = [s \in Seat |-> FALSE]
  /\ rushed = [s \in Seat |-> FALSE]

(* The users come and go                                                   *)

Sit(s) ==
  /\ user[s] = "none"
  /\ user' = [user EXCEPT ![s] = "SITDOWN"]
  /\ UNCHANGED <<vars, requests, chan, screen, dealt, rushed>>

\* The game goes on without the user; what was on its way is lost with the
\* connection, and the seat waits for a user with a new screen.
Leave(s) ==
  /\ s \in Leavers /\ user[s] # "none"
  /\ user' = [user EXCEPT ![s] = "none"]
  /\ requests' = [requests EXCEPT ![s] = <<>>]
  /\ chan' = [chan EXCEPT ![s] = <<>>]
  /\ screen' = [screen EXCEPT ![s] = NewScreen]
  /\ dealt' = [dealt EXCEPT ![s] = FALSE]
  /\ rushed' = [rushed EXCEPT ![s] = FALSE]
  /\ UNCHANGED vars

-----------------------------------------------------------------------------
(* The server                                                              *)

\* GameTable::SendMessageTo for each seat: nothing is sent to an empty one.
Send(msgs) ==
  /\ chan' = [s \in Seat |->
                IF user'[s] = "none" THEN chan[s] ELSE chan[s] \o msgs[s]]
  /\ \A s \in Seat : Len(chan'[s]) <= MaxFlight

\* What a player is told of a new game: its own cards and who calls first.
DealTo(s) == [type |-> "DEAL", cards |-> hands'[s], cur |-> cur']

ReadyMsgs(s, msgs) ==
  [t \in Seat |-> IF t = s THEN <<[type |-> "READY"]>> \o msgs[t] ELSE msgs[t]]

\* Faulty: a user who is ready can start a game with an empty seat.
AllReadyHere(st) == \A s \in Seat : st[s] \in {"none", "READY"}
\* Faulty: a table that has had its first start starts nothing.
AllReadyFirst(st) == phase = "none" /\ \A s \in Seat : st[s] = "READY"
AllReady(st) == \A s \in Seat : st[s] = "READY"

\* The last one to get ready starts the game, or starts it again.
HandleReady(s) ==
  /\ user' = [user EXCEPT ![s] = "READY"]
  /\ \/ /\ AllReady(user')
        /\ OnGameStart
        /\ Send(ReadyMsgs(s, [t \in Seat |-> <<DealTo(t)>>]))
        /\ dealt' = [t \in Seat |-> TRUE]
        /\ rushed' = [t \in Seat |-> rushed[t] /\ requests'[t] # <<>>]
     \/ /\ ~AllReady(user')
        /\ Send(ReadyMsgs(s, [t \in Seat |-> <<>>]))
        /\ UNCHANGED <<vars, dealt, rushed>>

\* The early returns of DealState::HandleGrab and PlayState::HandlePlay, and
\* the messages either state does not know.
Accepts(s, r) ==
  /\ s = cur
  /\ \/ phase = "deal" /\ r.type = "GRAB"
     \/ /\ phase = "play" /\ r.type = "PLAY"
        /\ IF r.cards = {} THEN last # NoSeat
           ELSE /\ r.cards \subseteq hands[s] /\ IsValid(r.cards)
                /\ last # NoSeat => Beats(r.cards, lastCard)

\* Without a game there is no game_state_ to hand the message to.
HandleGame(s, r) ==
  /\ phase # "none"
  /\ \/ /\ Accepts(s, r)
        /\ \/ r.type = "GRAB" /\ HandleGrab(s, r.grade)
           \/ r.type = "PLAY" /\ HandlePlay(s, r.cards)
        /\ user' = user
        /\ Send([t \in Seat |-> out'])
     \/ ~Accepts(s, r) /\ UNCHANGED <<vars, user, chan>>
  /\ UNCHANGED <<dealt, rushed>>

\* GameTable::HandleMessage on the next request of a seat.
Receive(s) ==
  /\ requests[s] # <<>>
  /\ \A t \in Seat \ Laggers : chan[t] = <<>>
  /\ requests' = [requests EXCEPT ![s] = Tail(@)]
  /\ LET r == Head(requests[s])
     IN  \/ r.type = "READY" /\ HandleReady(s)
         \/ r.type # "READY" /\ HandleGame(s, r)
  /\ UNCHANGED screen

-----------------------------------------------------------------------------
(* The players                                                             *)

Deliver(s) ==
  /\ chan[s] # <<>>
  /\ screen' = [screen EXCEPT ![s] = Shown(@, s, Head(chan[s]))]
  /\ chan' = [chan EXCEPT ![s] = Tail(@)]
  /\ UNCHANGED <<vars, user, requests, dealt, rushed>>

InFlight == Len(requests[0]) + Len(requests[1]) + Len(requests[2])

Press(s, r) ==
  /\ user[s] # "none"
  /\ InFlight < MaxRequests /\ (s \in Laggers \/ requests[s] = <<>>)
  /\ requests' = [requests EXCEPT ![s] = Append(@, r)]
  /\ UNCHANGED <<vars, user, chan, dealt>>

OnTouchReady(s) ==
  /\ screen[s].ready
  /\ Press(s, [type |-> "READY"])
  /\ UNCHANGED <<screen, rushed>>

\* The two buttons call three or nothing.
OnTouchCallLord(s, grade) ==
  /\ screen[s].call
  /\ grade \in {0, 3}
  /\ Press(s, [type |-> "GRAB", grade |-> grade])
  /\ UNCHANGED <<screen, rushed>>

\* A choice of s that has not been answered and may still be.
Pending(s) == \/ \E i \in DOMAIN requests[s] : requests[s][i].type = "PLAY"
              \/ \E i \in DOMAIN chan[s] : /\ chan[s][i].type = "PLAY"
                                           /\ chan[s][i].who = s

\* Either button of the play: the cards selected, or none.
OnTouchPutCard(s, S) ==
  /\ screen[s].put
  /\ S \subseteq screen[s].hand
  /\ Press(s, [type |-> "PLAY", cards |-> S])
  /\ screen' = [screen EXCEPT ![s].mine = S]
  /\ rushed' = [rushed EXCEPT ![s] = @ \/ Pending(s)]

TableNext ==
  \E s \in Seat :
    \/ Sit(s) \/ Leave(s) \/ Receive(s) \/ Deliver(s)
    \/ OnTouchReady(s)
    \/ \E g \in Grades : OnTouchCallLord(s, g)
    \/ \E S \in SUBSET screen[s].hand : OnTouchPutCard(s, S)

TableSpec == TableInit /\ [][TableNext]_tableVars

-----------------------------------------------------------------------------
(* Safety                                                                  *)

Request ==      [type : {"READY"}]
           \cup [type : {"GRAB"}, grade : Grades]
           \cup [type : {"PLAY"}, cards : SUBSET Card]
ToPlayer ==      [type : {"READY"}]
            \cup [type : {"DEAL"}, cards : SUBSET Card, cur : Seat]
            \cup (Message \ [type : {"DEAL"}, cur : Seat])
Screen == [ready : BOOLEAN, call : BOOLEAN, put : BOOLEAN,
           hand : SUBSET Card, mine : SUBSET Card]

\* The variables have their types, and nothing is known of, or on its way to or
\* from, a seat where nobody sits: no game starts there.
TableTypeOK ==
  /\ user \in [Seat -> {"none", "SITDOWN", "READY"}]
  /\ requests \in [Seat -> Seq(Request)]
  /\ chan \in [Seat -> Seq(ToPlayer)]
  /\ screen \in [Seat -> Screen]
  /\ dealt \in [Seat -> BOOLEAN]
  /\ rushed \in [Seat -> BOOLEAN]
  /\ \A s \in Seat : user[s] = "none" =>
       /\ requests[s] = <<>> /\ chan[s] = <<>>
       /\ screen[s] = NewScreen /\ ~dealt[s]

\* What the screen of s will show once all that is on its way has arrived.
Caught(s) ==
  LET after[n \in 0 .. Len(chan[s])] ==
        IF n = 0 THEN screen[s] ELSE Shown(after[n - 1], s, chan[s][n])
  IN  after[Len(chan[s])]

\* Until the game is announced over, the buttons to call with show at the seat
\* whose call the server waits for and nowhere else, and so do the buttons to
\* play with once there is a landlord, at everybody who got its cards
\* (HelloWorldScene.cpp:258-363, DealState.cpp:83-113, PlayState.cpp:32-73).
ButtonsFollowTurn ==
  \A s \in Seat : dealt[s] /\ ~over =>
    /\ Caught(s).call = (phase = "deal" /\ cur = s)
    /\ phase = "play" => Caught(s).put = (cur = s)

\* A player who chose no cards while an earlier choice was on its way sees the
\* cards it holds, although its screen removes the cards chosen last and not
\* those the server says were played (HelloWorldScene.cpp:133-150, 350): a
\* choice is answered, or ignored for good, before the next one is made.
HandShown == \A s \in Seat : dealt[s] /\ ~rushed[s] => Caught(s).hand = hands[s]

\* No screen lets a player send a game message to a table whose first game has
\* not started, where it would end the process (LandlordsGame.cpp:22,
\* HelloWorldScene.cpp:68-90).
NoGameTooEarly ==
  phase = "none" =>
    \A s \in Seat : \A i \in DOMAIN requests[s] : requests[s][i].type = "READY"

\* A full table whose users are all ready plays a game that every one of them was
\* dealt its cards for: none of them is left over from a start that came before it
\* sat down, although READY stays set when a game starts and a user may leave in the
\* middle of it, so that the next one to get ready finds the others ready already
\* (game_table.cpp:73-113).
ReadyTablePlays ==
  (\A s \in Seat : user[s] = "READY") =>
    phase # "none" /\ \A s \in Seat : dealt[s]

\* A full table can always go on: somebody's screen has, or will have, a button
\* that the server acts on, whoever left in the middle of a game and was
\* replaced (game_table.cpp:84-113, HelloWorldScene.cpp:303-330).
TableNotStuck ==
  (\A s \in Seat : user[s] # "none") =>
    \/ \E s \in Seat : Caught(s).ready
    \/ phase = "deal" /\ Caught(cur).call
    \/ phase = "play" /\ Caught(cur).put
=============================================================================
