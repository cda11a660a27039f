-------------------------- MODULE GameTable_proofs --------------------------
(***************************************************************************)
(* Proofs about GameTable, for every set of deals and grades and for any   *)
(* number of requests and messages on their way: what the table does is    *)
(* the game, and what the screens show once the messages on their way have *)
(* arrived, the buttons and the hand, is right.                            *)
(***************************************************************************)
EXTENDS GameTable, LandlordsGame_proofs, WellFoundedInduction

\* What a game tells the table apart from the cards it deals.
News == Message \ [type : {"DEAL"}, cur : Seat]

LEMMA NewsTypes ==
  ASSUME NEW s \in Seat, NEW g \in Int, NEW S \in SUBSET Card
  PROVE  /\ <<GrabMsg(g, s)>> \in Seq(News)
         /\ <<GrabDoneMsg(s, g)>> \in Seq(News)
         /\ <<PlayMsg(s, S)>> \in Seq(News)
         /\ <<PlayMsg(s, S), OverMsg>> \in Seq(News)
         /\ <<OverMsg>> \in Seq(News)
<1>1. /\ GrabMsg(g, s) \in News /\ GrabDoneMsg(s, g) \in News
      /\ PlayMsg(s, S) \in News /\ OverMsg \in News
  BY DEF News, Message, GrabMsg, GrabDoneMsg, PlayMsg, OverMsg
<1> HIDE DEF News
<1> QED
  BY <1>1

\* A handler of the game tells the table nothing else.
LEMMA GrabNews ==
  ASSUME TypeOK, NEW s \in Seat, NEW g \in Int, NEW p \in BOOLEAN, Grab(s, g, p)
  PROVE  out' \in Seq(News)
<1>1. HighOf(g) \in Int /\ (HighOf(g) = 3 \/ TopOf(s, g) < NoSeat => TopOf(s, g) \in Seat)
  <2>1. maxGrade \in Int /\ who \in Seat \cup {NoSeat} /\ (who = NoSeat => maxGrade = 0)
    BY DEF TypeOK
  <2>2. Int8(g) \in Int
    BY Int8Range
  <2> QED
    BY <2>1, <2>2 DEF HighOf, TopOf, Seat, NoSeat, PLAYER_COUNT
<1>2. NextSeat(cur) \in Seat
  BY SeatArithmetic DEF Grab
<1>3. CASE (HighOf(g) = 3 \/ TopOf(s, g) < NoSeat) /\ GrabDone(TopOf(s, g), HighOf(g))
  BY <1>1, <1>3, NewsTypes DEF GrabDone
<1>4. CASE NobodyCalls(TopOf(s, g), HighOf(g), p)
  BY <1>2, <1>4, NewsTypes DEF NobodyCalls
<1>5. CASE NextCalls(g, TopOf(s, g), HighOf(g))
  BY <1>2, <1>5, NewsTypes DEF NextCalls
<1> QED
  BY <1>3, <1>4, <1>5 DEF Grab, HighOf, TopOf

LEMMA PlayNews ==
  ASSUME TypeOK, NEW s \in Seat, NEW S \in SUBSET Card, HandlePlay(s, S)
  PROVE  out' \in Seq(News)
<1>1. CASE Pass(s)
  <2>1. {} \in SUBSET Card
    OBVIOUS
  <2> QED
    BY <1>1, <2>1, NewsTypes DEF Pass
<1>2. CASE PlayCards(s, S)
  BY <1>2, NewsTypes DEF PlayCards
<1> QED
  BY <1>1, <1>2 DEF HandlePlay

\* A request that reaches the game is one the game knows.
LEMMA GameSteps ==
  ASSUME TypeOK, NEW s \in Seat, NEW r \in Request, HandleGame(s, r)
  PROVE  \/ UNCHANGED vars /\ UNCHANGED chan
         \/ /\ r.type = "GRAB" /\ r.grade \in Grades
            /\ Grab(s, r.grade, timer) /\ Send([t \in Seat |-> out'])
         \/ /\ r.type = "PLAY" /\ r.cards \in SUBSET Card
            /\ HandlePlay(s, r.cards) /\ Send([t \in Seat |-> out'])
<1>1. CASE ~Accepts(s, r)
  BY <1>1 DEF HandleGame
<1>2. CASE Accepts(s, r)
  <2>1. r.type = "GRAB" => r.grade \in Grades
    BY DEF Request
  <2>2. r.type = "PLAY" => r.cards \in SUBSET Card
    BY DEF Request
  <2> QED
    BY <1>2, <2>1, <2>2 DEF HandleGame, HandleGrab
<1> QED
  BY <1>1, <1>2

-----------------------------------------------------------------------------
(* The table plays games of LandlordsGame                                  *)

LEMMA ChannelTypes ==
  ASSUME TableTypeOK
  PROVE  /\ \A s \in Seat : requests[s] \in Seq(Request) /\ chan[s] \in Seq(ToPlayer)
         /\ \A s \in Seat : requests[s] # <<>> =>
              Head(requests[s]) \in Request /\ Tail(requests[s]) \in Seq(Request)
         /\ \A s \in Seat : chan[s] # <<>> =>
              Head(chan[s]) \in ToPlayer /\ Tail(chan[s]) \in Seq(ToPlayer)
<1>1. requests \in [Seat -> Seq(Request)] /\ chan \in [Seat -> Seq(ToPlayer)]
  BY DEF TableTypeOK
<1> HIDE DEF Request, ToPlayer
<1> QED
  BY <1>1, HeadTailProperties

LEMMA GameNext == TypeOK /\ TableTypeOK /\ [TableNext]_tableVars => [Next]_vars
<1> SUFFICES ASSUME TypeOK, TableTypeOK, [TableNext]_tableVars PROVE [Next]_vars
  OBVIOUS
<1>1. CASE UNCHANGED tableVars
  BY <1>1 DEF tableVars
<1>2. ASSUME NEW s \in Seat, Receive(s) PROVE [Next]_vars
  <2>1. PICK r \in Request : HandleReady(s) \/ HandleGame(s, r)
    BY <1>2, ChannelTypes DEF Receive
  <2>2. CASE HandleReady(s)
    BY <2>2 DEF HandleReady, Next
  <2>3. CASE HandleGame(s, r)
    <3>1. ASSUME r.type = "GRAB", r.grade \in Grades, HandleGrab(s, r.grade) PROVE Next
      BY <3>1 DEF Next, Calls
    <3>2. ASSUME HandlePlay(s, r.cards) PROVE Next
      <4>1. r.cards \in SUBSET hands[s]
        BY <3>2 DEF HandlePlay, PlayCards
      <4> QED
        BY <3>2, <4>1 DEF Next, Plays
    <3> QED
      BY <2>3, <3>1, <3>2, GameSteps DEF HandleGrab
  <2> QED
    BY <2>1, <2>2, <2>3
<1>3. ASSUME NEW s \in Seat, NEW r, Press(s, r) PROVE UNCHANGED vars
  BY <1>3 DEF Press
<1>4. ASSUME NEW s \in Seat, Sit(s) \/ Leave(s) \/ Deliver(s) PROVE UNCHANGED vars
  BY <1>4 DEF Sit, Leave, Deliver
<1> QED
  BY <1>1, <1>2, <1>3, <1>4
     DEF TableNext, OnTouchReady, OnTouchCallLord, OnTouchPutCard

-----------------------------------------------------------------------------
(* Type correctness                                                        *)

LEMMA ShownType ==
  ASSUME NEW s \in Seat, NEW w \in Screen, NEW m \in ToPlayer
  PROVE  Shown(w, s, m) \in Screen
<1> USE DEF Screen, ToPlayer, Message
<1>1. CASE m.type = "DEAL"
  BY <1>1 DEF Shown, HandDeal
<1>2. CASE m.type = "GRAB"
  BY <1>2 DEF Shown, HandleGrabLandlord
<1>3. CASE m.type = "GRAB_DONE"
  BY <1>3 DEF Shown, HandleGrabLandlordOver
<1>4. CASE m.type = "PLAY"
  BY <1>4 DEF Shown, HandlePlayCard, Removed
<1>5. CASE m.type = "OVER"
  BY <1>5 DEF Shown, HandleGameOver
<1>6. CASE m.type = "READY"
  BY <1>6 DEF Shown, OnUserStateChange
<1> QED
  BY <1>1, <1>2, <1>3, <1>4, <1>5, <1>6

LEMMA SendType ==
  ASSUME TableTypeOK, NEW msgs \in [Seat -> Seq(ToPlayer)], Send(msgs)
  PROVE  /\ chan' \in [Seat -> Seq(ToPlayer)]
         /\ \A t \in Seat : user'[t] = "none" => chan'[t] = chan[t]
<1>1. \A t \in Seat : chan[t] \o msgs[t] \in Seq(ToPlayer)
  <2>1. \A t \in Seat : chan[t] \in Seq(ToPlayer) /\ msgs[t] \in Seq(ToPlayer)
    BY DEF TableTypeOK
  <2> HIDE DEF ToPlayer
  <2> QED
    BY <2>1, ConcatProperties
<1> QED
  BY <1>1 DEF Send, TableTypeOK

LEMMA ReadyType ==
  ASSUME NEW s \in Seat, NEW msgs \in [Seat -> Seq(ToPlayer)]
  PROVE  ReadyMsgs(s, msgs) \in [Seat -> Seq(ToPlayer)]
<1>1. [type |-> "READY"] \in ToPlayer
  BY DEF ToPlayer
<1>2. <<[type |-> "READY"]>> \o msgs[s] \in Seq(ToPlayer)
  <2> DEFINE ready == [type |-> "READY"]
  <2> HIDE DEF ToPlayer, ready
  <2>1. <<ready>> \in Seq(ToPlayer)
    BY <1>1 DEF ready
  <2>2. <<ready>> \o msgs[s] \in Seq(ToPlayer)
    BY <2>1, ConcatProperties
  <2> QED
    BY <2>2 DEF ready
<1> QED
  BY <1>2 DEF ReadyMsgs

LEMMA TableReceive ==
  ASSUME TypeOK, TypeOK', TableTypeOK, NEW s \in Seat, Receive(s)
  PROVE  TableTypeOK'
<1>1. /\ user[s] # "none" /\ UNCHANGED screen
      /\ requests' = [requests EXCEPT ![s] = Tail(@)]
      /\ Tail(requests[s]) \in Seq(Request)
  BY ChannelTypes DEF Receive, TableTypeOK
<1>2. /\ requests' \in [Seat -> Seq(Request)]
      /\ \A t \in Seat : t # s => requests'[t] = requests[t]
  BY <1>1 DEF TableTypeOK
<1>3. PICK r \in Request : HandleReady(s) \/ HandleGame(s, r)
  BY ChannelTypes DEF Receive
<1>4. CASE HandleReady(s)
  <2>1. /\ user' = [user EXCEPT ![s] = "READY"]
        /\ user' \in [Seat -> {"none", "SITDOWN", "READY"}]
    BY <1>4 DEF HandleReady, TableTypeOK
  <2>2. CASE AllReady(user') /\ OnGameStart
    <3>1. \A t \in Seat : <<DealTo(t)>> \in Seq(ToPlayer)
      <4>1. \A t \in Seat : DealTo(t) \in ToPlayer
        BY <2>2 DEF DealTo, ToPlayer, TypeOK, OnGameStart
      <4> HIDE DEF ToPlayer, DealTo
      <4> QED
        BY <4>1
    <3>2. [t \in Seat |-> <<DealTo(t)>>] \in [Seat -> Seq(ToPlayer)]
      BY <3>1
    <3>3. chan' \in [Seat -> Seq(ToPlayer)]
      BY <1>4, <2>2, <3>2, ReadyType, SendType DEF HandleReady
    <3>4. dealt' \in [Seat -> BOOLEAN] /\ rushed' \in [Seat -> BOOLEAN]
      BY <1>4, <2>2 DEF HandleReady, TableTypeOK
    <3> QED
      BY <1>1, <1>2, <2>1, <2>2, <3>3, <3>4 DEF TableTypeOK, AllReady
  <2>3. CASE ~AllReady(user')
    <3>1. [t \in Seat |-> <<>>] \in [Seat -> Seq(ToPlayer)]
      OBVIOUS
    <3>2. /\ chan' \in [Seat -> Seq(ToPlayer)]
          /\ \A t \in Seat : user'[t] = "none" => chan'[t] = chan[t]
      BY <1>4, <2>3, <3>1, ReadyType, SendType DEF HandleReady
    <3>3. UNCHANGED <<dealt, rushed>>
      BY <1>4, <2>3 DEF HandleReady
    <3> QED
      BY <1>1, <1>2, <2>1, <3>2, <3>3 DEF TableTypeOK
  <2> QED
    BY <1>4, <2>2, <2>3 DEF HandleReady
<1>5. CASE HandleGame(s, r)
  <2>1. UNCHANGED <<user, dealt, rushed>>
    BY <1>5 DEF HandleGame
  <2>2. ASSUME out' \in Seq(News), Send([t \in Seat |-> out'])
        PROVE  /\ chan' \in [Seat -> Seq(ToPlayer)]
               /\ \A t \in Seat : user'[t] = "none" => chan'[t] = chan[t]
    <3>1. out' \in Seq(ToPlayer)
      <4>1. News \subseteq ToPlayer
        BY DEF News, ToPlayer
      <4> HIDE DEF News, ToPlayer
      <4> QED
        BY <2>2, <4>1
    <3>2. [t \in Seat |-> out'] \in [Seat -> Seq(ToPlayer)]
      BY <3>1
    <3> QED
      BY <2>2, <3>2, SendType
  <2>3. /\ chan' \in [Seat -> Seq(ToPlayer)]
        /\ \A t \in Seat : user'[t] = "none" => chan'[t] = chan[t]
    <3>1. CASE UNCHANGED chan
      BY <3>1 DEF TableTypeOK
    <3>2. CASE r.grade \in Grades /\ Grab(s, r.grade, timer) /\ Send([t \in Seat |-> out'])
      <4>1. r.grade \in Int /\ timer \in BOOLEAN
        BY <3>2, GradesAssumption DEF TypeOK
      <4> QED
        BY <2>2, <3>2, <4>1, GrabNews
    <3>3. CASE /\ r.cards \in SUBSET Card /\ HandlePlay(s, r.cards)
               /\ Send([t \in Seat |-> out'])
      BY <2>2, <3>3, PlayNews
    <3> QED
      BY <1>5, <3>1, <3>2, <3>3, GameSteps
  <2> QED
    BY <1>1, <1>2, <2>1, <2>3 DEF TableTypeOK
<1> QED
  BY <1>3, <1>4, <1>5

LEMMA TableTypeInit == TableInit => TableTypeOK
BY DEF TableInit, TableTypeOK, NewScreen, Screen

\* A button that is pressed: only the request, and what the screen remembers.
LEMMA TablePress ==
  ASSUME TableTypeOK, NEW s \in Seat, NEW r \in Request, Press(s, r),
         screen' \in [Seat -> Screen], rushed' \in [Seat -> BOOLEAN],
         \A t \in Seat : t # s => screen'[t] = screen[t]
  PROVE  TableTypeOK'
<1>1. Append(requests[s], r) \in Seq(Request)
  <2>1. requests[s] \in Seq(Request)
    BY ChannelTypes
  <2> HIDE DEF Request
  <2> QED
    BY <2>1, AppendProperties
<1> QED
  BY <1>1 DEF Press, TableTypeOK

LEMMA TableTypeNext ==
  TypeOK /\ TypeOK' /\ TableTypeOK /\ [TableNext]_tableVars => TableTypeOK'
<1> SUFFICES ASSUME TypeOK, TypeOK', TableTypeOK, [TableNext]_tableVars
             PROVE  TableTypeOK'
  OBVIOUS
<1>1. CASE UNCHANGED tableVars
  BY <1>1 DEF tableVars, TableTypeOK
<1>2. ASSUME NEW s \in Seat, Sit(s) PROVE TableTypeOK'
  BY <1>2 DEF Sit, TableTypeOK
<1>3. ASSUME NEW s \in Seat, Leave(s) PROVE TableTypeOK'
  <2>1. NewScreen \in Screen /\ <<>> \in Seq(Request) /\ <<>> \in Seq(ToPlayer)
    BY DEF NewScreen, Screen
  <2> QED
    BY <1>3, <2>1 DEF Leave, TableTypeOK
<1>4. ASSUME NEW s \in Seat, Deliver(s) PROVE TableTypeOK'
  <2>1. Head(chan[s]) \in ToPlayer /\ Tail(chan[s]) \in Seq(ToPlayer)
    BY <1>4, ChannelTypes DEF Deliver
  <2>2. Shown(screen[s], s, Head(chan[s])) \in Screen
    BY <2>1, ShownType DEF TableTypeOK
  <2> QED
    BY <1>4, <2>1, <2>2 DEF Deliver, TableTypeOK
<1>5. ASSUME NEW s \in Seat, OnTouchReady(s) PROVE TableTypeOK'
  <2>1. [type |-> "READY"] \in Request
    BY DEF Request
  <2> QED
    BY <1>5, <2>1, TablePress DEF OnTouchReady, TableTypeOK
<1>6. ASSUME NEW s \in Seat, NEW g \in Grades, OnTouchCallLord(s, g) PROVE TableTypeOK'
  <2>1. [type |-> "GRAB", grade |-> g] \in Request
    BY DEF Request
  <2> QED
    BY <1>6, <2>1, TablePress DEF OnTouchCallLord, TableTypeOK
<1>7. ASSUME NEW s \in Seat, NEW S \in SUBSET screen[s].hand, OnTouchPutCard(s, S)
      PROVE  TableTypeOK'
  <2>1. S \in SUBSET Card
    BY DEF TableTypeOK, Screen
  <2>2. [type |-> "PLAY", cards |-> S] \in Request
    BY <2>1 DEF Request
  <2>3. [screen[s] EXCEPT !.mine = S] \in Screen
    BY <2>1 DEF TableTypeOK, Screen
  <2>4. /\ screen' \in [Seat -> Screen]
        /\ \A t \in Seat : t # s => screen'[t] = screen[t]
    BY <1>7, <2>3 DEF OnTouchPutCard, TableTypeOK
  <2>5. rushed' \in [Seat -> BOOLEAN]
    BY <1>7 DEF OnTouchPutCard, TableTypeOK, Pending
  <2> QED
    BY <1>7, <2>2, <2>4, <2>5, TablePress DEF OnTouchPutCard
<1> QED
  BY <1>1, <1>2, <1>3, <1>4, <1>5, <1>6, <1>7, TableReceive DEF TableNext

LEMMA TableInvariance == TableSpec => [](TypeOK /\ TableTypeOK)
<1>1. TableInit => TypeOK /\ TableTypeOK
  BY TableTypeInit, TypeInit DEF TableInit
<1>2. TypeOK /\ TableTypeOK /\ [TableNext]_tableVars => (TypeOK /\ TableTypeOK)'
  BY GameNext, TypeNext, TableTypeNext
<1> QED
  BY <1>1, <1>2, PTL DEF TableSpec

\* The table, its screens and the queues between them keep their types, and
\* nothing is kept for, or sent to, a seat where nobody sits: in particular no
\* game starts at a table that is not full.
THEOREM TableTypeCorrect == TableSpec => []TableTypeOK
BY TableInvariance, PTL

\* What the screens and the table do to the game are steps of LandlordsGame: all
\* that holds of its behaviours holds at a table, whoever comes and goes.
THEOREM TablePlaysTheGame == TableSpec => Spec
<1>1. TableInit => Init
  BY DEF TableInit
<1> QED
  BY <1>1, GameNext, TableInvariance, PTL DEF TableSpec, Spec

\* So nobody at a table is ever asked for a move that does not exist.
COROLLARY TableNeverStuck == TableSpec => []CurCanAct
BY TablePlaysTheGame, NeverStuck, PTL

-----------------------------------------------------------------------------
(* No game message before the first game                                   *)

\* Until then no message has come, or is to come, that shows a game button.
Early ==
  phase = "none" => \A s \in Seat :
    /\ ~screen[s].call /\ ~screen[s].put
    /\ \A i \in DOMAIN requests[s] : requests[s][i].type = "READY"
    /\ \A i \in DOMAIN chan[s] : chan[s][i].type = "READY"

\* What is at the front of a queue, and what stays in it.
LEMMA TailDomain ==
  ASSUME NEW D, NEW q \in Seq(D), q # <<>>
  PROVE  /\ Head(q) = q[1] /\ 1 \in DOMAIN q
         /\ \A i \in DOMAIN Tail(q) : i + 1 \in DOMAIN q /\ Tail(q)[i] = q[i + 1]
<1>1. Len(q) \in Nat /\ Len(q) # 0 /\ DOMAIN q = 1 .. Len(q)
  BY EmptySeq
<1>2. Len(Tail(q)) = Len(q) - 1 /\ DOMAIN Tail(q) = 1 .. Len(q) - 1
  BY <1>1
<1> QED
  BY <1>1, <1>2

LEMMA EarlyPress ==
  ASSUME TableTypeOK, Early, NEW s \in Seat, NEW r \in Request, r.type = "READY",
         Press(s, r), UNCHANGED screen
  PROVE  Early'
<1> SUFFICES ASSUME phase' = "none", NEW t \in Seat
             PROVE  \A i \in DOMAIN requests'[t] : requests'[t][i].type = "READY"
  BY DEF Early, Press, vars
<1>1. phase = "none" /\ requests' = [requests EXCEPT ![s] = Append(@, r)]
  BY DEF Press, vars
<1>2. CASE t # s
  BY <1>1, <1>2 DEF Early, TableTypeOK
<1>3. CASE t = s
  <2>1. requests'[t] = Append(requests[t], r) /\ requests[t] \in Seq(Request)
    BY <1>1, <1>3 DEF TableTypeOK
  <2>2. \A i \in DOMAIN requests[t] : requests[t][i].type = "READY"
    BY <1>1 DEF Early
  <2> HIDE DEF Request
  <2> QED
    BY <2>1, <2>2
<1> QED
  BY <1>2, <1>3

\* The only message that is sent without a game is the news of a READY.
LEMMA EarlySend ==
  ASSUME TableTypeOK, NEW s \in Seat, Send(ReadyMsgs(s, [t \in Seat |-> <<>>])),
         NEW t \in Seat, \A i \in DOMAIN chan[t] : chan[t][i].type = "READY"
  PROVE  \A i \in DOMAIN chan'[t] : chan'[t][i].type = "READY"
<1> DEFINE ready == [type |-> "READY"]
<1>1. chan'[t] \in {chan[t], chan[t] \o (<<ready>> \o <<>>), chan[t] \o <<>>}
  BY DEF Send, ReadyMsgs
<1>2. chan[t] \in Seq(ToPlayer)
  BY ChannelTypes
<1>3. ready.type = "READY" /\ ready \in ToPlayer
  BY DEF ToPlayer
<1> HIDE DEF ready, ToPlayer
<1>4. <<ready>> \o <<>> = <<ready>> /\ chan[t] \o <<>> = chan[t]
  BY <1>2, <1>3, ConcatEmptySeq
<1>5. CASE chan'[t] = chan[t] \o <<ready>>
  BY <1>2, <1>3, <1>5
<1> QED
  BY <1>1, <1>4, <1>5

LEMMA EarlyNext ==
  TypeOK /\ TableTypeOK /\ Early /\ [TableNext]_tableVars => Early'
<1> SUFFICES ASSUME TypeOK, TableTypeOK, Early, [TableNext]_tableVars,
                    phase' = "none"
             PROVE  Early'
  BY DEF Early
<1>1. CASE UNCHANGED tableVars
  BY <1>1 DEF tableVars, vars, Early
<1>2. phase = "none"
  <2>1. [Next]_vars
    BY GameNext
  <2>2. ~OnGameStart
    BY DEF OnGameStart
  <2>3. ASSUME NEW s \in Seat, NEW g \in Int, NEW p \in BOOLEAN, Grab(s, g, p)
        PROVE  FALSE
    BY <2>3 DEF Grab, GrabDone, NobodyCalls, NextCalls
  <2>4. ASSUME NEW s \in Seat, NEW S, Pass(s) \/ PlayCards(s, S) PROVE FALSE
    BY <2>4 DEF Pass, PlayCards
  <2>5. ~Next
    BY <2>2, <2>3, <2>4, NextCases
  <2> QED
    BY <2>1, <2>5 DEF vars
<1>3. ASSUME NEW s \in Seat, Sit(s) PROVE Early'
  BY <1>2, <1>3 DEF Sit, Early
<1>4. ASSUME NEW s \in Seat, Leave(s) PROVE Early'
  BY <1>2, <1>4 DEF Leave, Early, NewScreen, TableTypeOK
<1>5. ASSUME NEW s \in Seat, Deliver(s) PROVE Early'
  <2>1. /\ chan[s] \in Seq(ToPlayer) /\ chan[s] # <<>> /\ Head(chan[s]).type = "READY"
        /\ \A i \in DOMAIN Tail(chan[s]) : Tail(chan[s])[i].type = "READY"
    BY <1>2, <1>5, ChannelTypes, TailDomain DEF Deliver, Early
  <2>2. Shown(screen[s], s, Head(chan[s])) = [screen[s] EXCEPT !.ready = FALSE]
    BY <2>1 DEF Shown, OnUserStateChange
  <2>3. /\ screen' = [screen EXCEPT ![s] = [screen[s] EXCEPT !.ready = FALSE]]
        /\ chan' = [chan EXCEPT ![s] = Tail(@)] /\ requests' = requests
    BY <1>5, <2>2 DEF Deliver
  <2>4. ASSUME NEW t \in Seat PROVE ~screen'[t].call /\ ~screen'[t].put
    BY <1>2, <2>3 DEF Early, TableTypeOK, Screen
  <2>5. ASSUME NEW t \in Seat, NEW i \in DOMAIN chan'[t] PROVE chan'[t][i].type = "READY"
    BY <1>2, <2>1, <2>3 DEF Early, TableTypeOK
  <2> QED
    BY <1>2, <2>3, <2>4, <2>5 DEF Early
<1>6. ASSUME NEW s \in Seat, Receive(s) PROVE Early'
  <2>1. /\ UNCHANGED screen /\ HandleReady(s) /\ ~OnGameStart
        /\ requests' = [requests EXCEPT ![s] = Tail(@)] /\ requests[s] # <<>>
    BY <1>2, <1>6 DEF Receive, HandleGame, OnGameStart
  <2>2. Send(ReadyMsgs(s, [t \in Seat |-> <<>>]))
    BY <2>1 DEF HandleReady
  <2>3. \A t \in Seat : \A i \in DOMAIN chan'[t] : chan'[t][i].type = "READY"
    BY <1>2, <2>2, EarlySend DEF Early
  <2>4. \A i \in DOMAIN Tail(requests[s]) : Tail(requests[s])[i].type = "READY"
    BY <1>2, <2>1, ChannelTypes, TailDomain DEF Early
  <2> QED
    BY <1>2, <2>1, <2>3, <2>4 DEF Early, TableTypeOK
<1>7. ASSUME NEW s \in Seat, OnTouchReady(s) PROVE Early'
  <2>1. [type |-> "READY"] \in Request /\ [type |-> "READY"].type = "READY"
    BY DEF Request
  <2> QED
    BY <1>7, <2>1, EarlyPress DEF OnTouchReady
<1>8. ASSUME NEW s \in Seat PROVE ~screen[s].call /\ ~screen[s].put
  BY <1>2 DEF Early
<1> QED
  BY <1>1, <1>3, <1>4, <1>5, <1>6, <1>7, <1>8
     DEF TableNext, OnTouchCallLord, OnTouchPutCard

\* Only the buttons keep a game message from a table without a game, where it
\* would end the process; they do, whoever sits there and however late messages
\* arrive.
THEOREM TableNotTooEarly == TableSpec => []NoGameTooEarly
<1>1. TableInit => Early
  BY DEF TableInit, Early, NewScreen
<1>2. Early => NoGameTooEarly
  BY DEF Early, NoGameTooEarly
<1> QED
  BY <1>1, <1>2, EarlyNext, TableInvariance, PTL DEF TableSpec

-----------------------------------------------------------------------------
(* The buttons alone                                                       *)

Buttons(w) == [ready |-> w.ready, call |-> w.call, put |-> w.put]

\* What message m makes of the buttons b of seat s.
Pressable(b, s, m) ==
  [ready |-> IF m.type = "OVER" THEN TRUE
             ELSE IF m.type = "READY" THEN FALSE ELSE b.ready,
   call  |-> IF m.type \in {"DEAL", "GRAB"} THEN m.cur = s
             ELSE IF m.type = "GRAB_DONE" THEN FALSE ELSE b.call,
   put   |-> IF m.type = "GRAB_DONE" THEN m.who = s
             ELSE IF m.type = "PLAY" THEN NextSeat(m.who) = s ELSE b.put]

LEMMA ButtonsShown ==
  ASSUME NEW s \in Seat, NEW w \in Screen, NEW m \in ToPlayer
  PROVE  Buttons(Shown(w, s, m)) = Pressable(Buttons(w), s, m)
<1> USE DEF Screen, Buttons, Pressable
<1>1. CASE m.type = "DEAL"
  BY <1>1 DEF Shown, HandDeal
<1>2. CASE m.type = "GRAB"
  BY <1>2 DEF Shown, HandleGrabLandlord
<1>3. CASE m.type = "GRAB_DONE"
  BY <1>3 DEF Shown, HandleGrabLandlordOver
<1>4. CASE m.type = "PLAY"
  BY <1>4 DEF Shown, HandlePlayCard
<1>5. CASE m.type = "OVER"
  BY <1>5 DEF Shown, HandleGameOver
<1>6. CASE m.type = "READY"
  BY <1>6 DEF Shown, OnUserStateChange
<1> QED
  BY <1>1, <1>2, <1>3, <1>4, <1>5, <1>6 DEF ToPlayer, Message

-----------------------------------------------------------------------------
(* Readings: what the messages on their way make of a screen               *)

\* f[n] is the screen of s, which is w after k messages of c, after n of them.
Reading(f, s, w, c, k) ==
  /\ f = [n \in k .. Len(c) |-> f[n]] /\ f[k] = w
  /\ \A n \in k + 1 .. Len(c) : f[n] = Shown(f[n - 1], s, c[n])

\* From anywhere on, whatever shows there, the messages can be read.
Readable(s, c) ==
  \A k \in 0 .. Len(c), w \in Screen :
    /\ \E f : Reading(f, s, w, c, k)
    /\ \A f : Reading(f, s, w, c, k) => \A n \in k .. Len(c) : f[n] \in Screen

\* The same for the buttons, from the first message on.
ButtonReading(g, s, b, c) ==
  /\ g[0] = b
  /\ \A n \in 1 .. Len(c) : g[n] = Pressable(g[n - 1], s, c[n])

LEMMA ReadingFromStart ==
  ASSUME NEW f, NEW s, NEW w, NEW c, Reading(f, s, w, c, 0)
  PROVE  f[0] = w /\ \A n \in 1 .. Len(c) : f[n] = Shown(f[n - 1], s, c[n])
<1>1. f[0] = w /\ \A n \in 0 + 1 .. Len(c) : f[n] = Shown(f[n - 1], s, c[n])
  BY Zenon DEF Reading
<1>2. 0 + 1 = 1
  OBVIOUS
<1> QED
  BY <1>1, <1>2, Zenon

LEMMA TwoInARow ==
  ASSUME NEW D, NEW x \in D, NEW y \in D PROVE <<x>> \o <<y>> = <<x, y>>
<1> DEFINE joined == <<x>> \o <<y>>
           pair == <<x, y>>
<1>1. <<x>> \in Seq(D) /\ <<y>> \in Seq(D) /\ Len(<<x>>) = 1 /\ Len(<<y>>) = 1
  OBVIOUS
<1>2. joined \in Seq(D) /\ Len(joined) = 2 /\ joined[1] = x /\ joined[2] = y
  BY <1>1
<1>3. pair \in Seq(D) /\ Len(pair) = 2 /\ pair[1] = x /\ pair[2] = y
  OBVIOUS
<1> HIDE DEF joined, pair
<1>4. \A i \in 1 .. 2 : joined[i] = pair[i]
  BY <1>2, <1>3
<1>5. joined = pair
  BY <1>2, <1>3, <1>4, SeqEqual
<1> QED
  BY <1>5 DEF joined, pair

LEMMA AppendFacts ==
  ASSUME NEW D, NEW c \in Seq(D), NEW m \in D
  PROVE  /\ Append(c, m) \in Seq(D) /\ Len(Append(c, m)) = Len(c) + 1 /\ Len(c) \in Nat
         /\ Append(c, m)[Len(c) + 1] = m
         /\ \A i \in 1 .. Len(c) : Append(c, m)[i] = c[i]
OBVIOUS

LEMMA TailFacts ==
  ASSUME NEW D, NEW c \in Seq(D), c # <<>>
  PROVE  /\ Tail(c) \in Seq(D) /\ Len(c) = Len(Tail(c)) + 1 /\ Len(Tail(c)) \in Nat
         /\ Head(c) = c[1] /\ Head(c) \in D
         /\ \A i \in 1 .. Len(Tail(c)) : Tail(c)[i] = c[i + 1]
OBVIOUS

LEMMA NothingReadable == ASSUME NEW s PROVE Readable(s, <<>>)
<1> SUFFICES ASSUME NEW w \in Screen
             PROVE  /\ \E f : Reading(f, s, w, <<>>, 0)
                    /\ \A f : Reading(f, s, w, <<>>, 0) => f[0] \in Screen
  BY DEF Readable
<1> DEFINE f == [n \in {0} |-> w]
<1>1. f = [n \in 0 .. 0 |-> f[n]] /\ f[0] = w
  OBVIOUS
<1>2. Reading(f, s, w, <<>>, 0)
  BY <1>1 DEF Reading
<1> HIDE DEF f
<1> QED
  BY <1>2 DEF Reading

LEMMA AppendReadable ==
  ASSUME NEW s \in Seat, NEW c \in Seq(ToPlayer), NEW m \in ToPlayer, Readable(s, c)
  PROVE  Readable(s, Append(c, m))
<1> DEFINE d == Append(c, m)
           N == Len(c)
<1>1. Len(d) = N + 1 /\ N \in Nat /\ d[N + 1] = m /\ \A i \in 1 .. N : d[i] = c[i]
  BY AppendFacts
<1> HIDE DEF d, N
<1>2. ASSUME NEW w \in Screen
      PROVE  /\ \E f : Reading(f, s, w, d, N + 1)
             /\ \A f : Reading(f, s, w, d, N + 1) => f[N + 1] \in Screen
  <2> DEFINE f == [n \in N + 1 .. N + 1 |-> w]
  <2>1. f = [n \in N + 1 .. N + 1 |-> f[n]] /\ f[N + 1] = w
    BY <1>1
  <2> HIDE DEF f
  <2>2. Reading(f, s, w, d, N + 1)
    BY <1>1, <2>1 DEF Reading
  <2> QED
    BY <2>2 DEF Reading
<1>3. ASSUME NEW k \in 0 .. N, NEW w \in Screen
      PROVE  /\ \E f : Reading(f, s, w, d, k)
             /\ \A f : Reading(f, s, w, d, k) => \A n \in k .. N + 1 : f[n] \in Screen
  <2>1. /\ \E f : Reading(f, s, w, c, k)
        /\ \A f : Reading(f, s, w, c, k) => \A n \in k .. N : f[n] \in Screen
    BY <1>3 DEF Readable, N
  <2>2. PICK e : Reading(e, s, w, c, k)
    BY <2>1
  <2> DEFINE f == [n \in k .. N + 1 |-> IF n = N + 1 THEN Shown(e[N], s, m) ELSE e[n]]
  <2>3. e[k] = w /\ \A n \in k + 1 .. N : e[n] = Shown(e[n - 1], s, c[n])
    BY <2>2 DEF Reading, N
  <2>4. /\ f = [n \in k .. N + 1 |-> f[n]] /\ f[N + 1] = Shown(e[N], s, m)
        /\ \A n \in k .. N : f[n] = e[n]
    BY <1>1
  <2> HIDE DEF f
  <2>5. ASSUME NEW n \in k + 1 .. N + 1 PROVE f[n] = Shown(f[n - 1], s, d[n])
    <3>1. CASE n = N + 1
      <4>1. n - 1 = N /\ N \in k .. N
        BY <1>1, <3>1
      <4> QED
        BY <1>1, <2>4, <3>1, <4>1
    <3>2. CASE n # N + 1
      <4>1. n \in 1 .. N /\ n \in k + 1 .. N /\ n \in k .. N /\ n - 1 \in k .. N
        BY <1>1, <3>2
      <4> QED
        BY <1>1, <2>3, <2>4, <4>1
    <3> QED
      BY <3>1, <3>2
  <2>6. f[k] = w
    <3>1. k \in k .. N
      BY <1>1
    <3> QED
      BY <2>3, <2>4, <3>1
  <2>7. Reading(f, s, w, d, k)
    BY <1>1, <2>4, <2>5, <2>6 DEF Reading
  <2>8. ASSUME NEW h, Reading(h, s, w, d, k), NEW n \in k .. N + 1 PROVE h[n] \in Screen
    <3> DEFINE r == [i \in k .. N |-> h[i]]
    <3>1. h[k] = w /\ \A i \in k + 1 .. N + 1 : h[i] = Shown(h[i - 1], s, d[i])
      BY <1>1, <2>8 DEF Reading
    <3>2. (\A i \in k .. N : r[i] = h[i]) /\ r = [i \in k .. N |-> r[i]]
      OBVIOUS
    <3> HIDE DEF r
    <3>3. ASSUME NEW i \in k + 1 .. N PROVE r[i] = Shown(r[i - 1], s, c[i])
      <4>1. i \in k .. N /\ i - 1 \in k .. N /\ i \in k + 1 .. N + 1 /\ i \in 1 .. N
        BY <1>1
      <4> QED
        BY <1>1, <3>1, <3>2, <4>1
    <3>4. r[k] = w
      BY <1>1, <3>1, <3>2
    <3>5. Reading(r, s, w, c, k)
      BY <3>2, <3>3, <3>4 DEF Reading, N
    <3>6. \A i \in k .. N : h[i] \in Screen
      BY <2>1, <3>2, <3>5
    <3>7. h[N + 1] \in Screen
      <4>1. N + 1 \in k + 1 .. N + 1 /\ (N + 1) - 1 = N /\ N \in k .. N
        BY <1>1
      <4>2. h[N + 1] = Shown(h[N], s, m)
        BY <1>1, <3>1, <4>1
      <4> QED
        BY <3>6, <4>1, <4>2, ShownType
    <3>8. n \in k .. N \/ n = N + 1
      BY <1>1
    <3> QED
      BY <3>6, <3>7, <3>8
  <2> QED
    BY <2>7, <2>8
<1>4. \A k \in 0 .. N + 1 : k \in 0 .. N \/ k = N + 1
  BY <1>1
<1>5. \A n \in N + 1 .. N + 1 : n = N + 1
  BY <1>1
<1>6. Readable(s, d)
  BY <1>1, <1>2, <1>3, <1>4, <1>5 DEF Readable
<1> QED
  BY <1>6 DEF d

LEMMA TailReadable ==
  ASSUME NEW s \in Seat, NEW c \in Seq(ToPlayer), c # <<>>, Readable(s, c)
  PROVE  Readable(s, Tail(c))
<1> DEFINE d == Tail(c)
           N == Len(d)
<1>1. Len(c) = N + 1 /\ N \in Nat /\ \A i \in 1 .. N : d[i] = c[i + 1]
  BY TailFacts
<1> HIDE DEF d, N
<1>2. ASSUME NEW k \in 0 .. N, NEW w \in Screen
      PROVE  /\ \E f : Reading(f, s, w, d, k)
             /\ \A f : Reading(f, s, w, d, k) => \A n \in k .. N : f[n] \in Screen
  <2>1. k + 1 \in 0 .. Len(c)
    BY <1>1
  <2>2. PICK e : Reading(e, s, w, c, k + 1)
    BY <2>1 DEF Readable
  <2> DEFINE f == [n \in k .. N |-> e[n + 1]]
  <2>3. e[k + 1] = w /\ \A n \in (k + 1) + 1 .. N + 1 : e[n] = Shown(e[n - 1], s, c[n])
    BY <1>1, <2>2 DEF Reading
  <2>4. f = [n \in k .. N |-> f[n]] /\ \A n \in k .. N : f[n] = e[n + 1]
    OBVIOUS
  <2> HIDE DEF f
  <2>5. ASSUME NEW n \in k + 1 .. N PROVE f[n] = Shown(f[n - 1], s, d[n])
    <3>1. /\ n \in k .. N /\ n - 1 \in k .. N /\ n + 1 \in (k + 1) + 1 .. N + 1
          /\ (n - 1) + 1 = n /\ (n + 1) - 1 = n /\ n \in 1 .. N
      BY <1>1
    <3>2. e[n + 1] = Shown(e[n], s, c[n + 1])
      BY <2>3, <3>1
    <3>3. f[n] = e[n + 1] /\ f[n - 1] = e[n]
      BY <2>4, <3>1
    <3> QED
      BY <1>1, <3>1, <3>2, <3>3
  <2>6. f[k] = w
    <3>1. k \in k .. N
      BY <1>1
    <3> QED
      BY <2>3, <2>4, <3>1
  <2>7. Reading(f, s, w, d, k)
    BY <2>4, <2>5, <2>6 DEF Reading, N
  <2>8. ASSUME NEW h, Reading(h, s, w, d, k), NEW n \in k .. N PROVE h[n] \in Screen
    <3> DEFINE r == [i \in k + 1 .. N + 1 |-> h[i - 1]]
    <3>1. h[k] = w /\ \A i \in k + 1 .. N : h[i] = Shown(h[i - 1], s, d[i])
      BY <2>8 DEF Reading, N
    <3>2. /\ \A i \in k + 1 .. N + 1 : r[i] = h[i - 1]
          /\ r = [i \in k + 1 .. N + 1 |-> r[i]]
      OBVIOUS
    <3> HIDE DEF r
    <3>3. ASSUME NEW i \in (k + 1) + 1 .. N + 1 PROVE r[i] = Shown(r[i - 1], s, c[i])
      <4>1. /\ i \in k + 1 .. N + 1 /\ i - 1 \in k + 1 .. N + 1 /\ i - 1 \in k + 1 .. N
            /\ (i - 1) + 1 = i /\ i - 1 \in 1 .. N
        BY <1>1
      <4>2. r[i] = h[i - 1] /\ r[i - 1] = h[(i - 1) - 1]
        BY <3>2, <4>1
      <4>3. h[i - 1] = Shown(h[(i - 1) - 1], s, d[i - 1]) /\ d[i - 1] = c[i]
        BY <1>1, <3>1, <4>1
      <4> QED
        BY <4>2, <4>3
    <3>4. r[k + 1] = w
      <4>1. k + 1 \in k + 1 .. N + 1 /\ (k + 1) - 1 = k
        BY <1>1
      <4> QED
        BY <3>1, <3>2, <4>1
    <3>5. Reading(r, s, w, c, k + 1)
      BY <1>1, <3>2, <3>3, <3>4 DEF Reading
    <3>6. \A i \in k + 1 .. N + 1 : r[i] \in Screen
      BY <1>1, <2>1, <3>5 DEF Readable
    <3>7. n + 1 \in k + 1 .. N + 1 /\ (n + 1) - 1 = n
      BY <1>1
    <3> QED
      BY <3>2, <3>6, <3>7
  <2> QED
    BY <2>7, <2>8
<1>3. Readable(s, d)
  BY <1>2 DEF Readable, N
<1> QED
  BY <1>3 DEF d

-----------------------------------------------------------------------------
(* Buttons that are right                                                  *)

\* What the buttons of a seat depend on.
Truth == [dealt |-> dealt, over |-> over, phase |-> phase, cur |-> cur, user |-> user]

\* The buttons x are right for seat s: they follow the turn; who has just sat
\* down can get ready, and so can all when the game of a full table is over.
Right(x, s, a) ==
  /\ a.dealt[s] /\ ~a.over =>
       /\ x.call <=> a.phase = "deal" /\ a.cur = s
       /\ a.phase = "play" => (x.put <=> a.cur = s)
  /\ a.user[s] = "SITDOWN" => x.ready
  /\ AllReady(a.user) /\ a.over => x.ready

\* They will be once the messages c have arrived.
EndsRight(s, x, c, a) ==
  \A g : ButtonReading(g, s, x, c) => Right(g[Len(c)], s, a)

LEMMA SameRight ==
  ASSUME NEW s, NEW x, NEW c, NEW a, NEW b, EndsRight(s, x, c, a),
         \A y : Right(y, s, a) => Right(y, s, b)
  PROVE  EndsRight(s, x, c, b)
BY DEF EndsRight

LEMMA AppendRight ==
  ASSUME NEW s, NEW x, NEW c \in Seq(ToPlayer), NEW m \in ToPlayer, NEW a, NEW b,
         EndsRight(s, x, c, a),
         \A y : Right(y, s, a) => Right(Pressable(y, s, m), s, b)
  PROVE  EndsRight(s, x, Append(c, m), b)
<1> DEFINE d == Append(c, m)
           N == Len(c)
<1>1. Len(d) = N + 1 /\ N \in Nat /\ d[N + 1] = m /\ \A i \in 1 .. N : d[i] = c[i]
  BY AppendFacts
<1> HIDE DEF d
<1>2. ASSUME NEW g, ButtonReading(g, s, x, d) PROVE Right(g[N + 1], s, b)
  <2>1. g[0] = x /\ \A n \in 1 .. N + 1 : g[n] = Pressable(g[n - 1], s, d[n])
    BY <1>1, <1>2 DEF ButtonReading
  <2>2. \A n \in 1 .. N : n \in 1 .. N + 1
    BY <1>1
  <2>3. ButtonReading(g, s, x, c)
    BY <1>1, <2>1, <2>2 DEF ButtonReading
  <2>4. N + 1 \in 1 .. N + 1 /\ (N + 1) - 1 = N
    BY <1>1
  <2>5. g[N + 1] = Pressable(g[N], s, m)
    BY <1>1, <2>1, <2>4
  <2> QED
    BY <2>3, <2>5 DEF EndsRight
<1> QED
  BY <1>1, <1>2 DEF EndsRight, d

LEMMA TailRight ==
  ASSUME NEW s, NEW x, NEW c \in Seq(ToPlayer), c # <<>>, NEW a, EndsRight(s, x, c, a)
  PROVE  EndsRight(s, Pressable(x, s, Head(c)), Tail(c), a)
<1> DEFINE d == Tail(c)
           N == Len(d)
           y == Pressable(x, s, Head(c))
<1>1. /\ Len(c) = N + 1 /\ N \in Nat /\ Head(c) = c[1]
      /\ \A i \in 1 .. N : d[i] = c[i + 1]
  BY TailFacts
<1> HIDE DEF d, N, y
<1>2. ASSUME NEW g, ButtonReading(g, s, y, d) PROVE Right(g[N], s, a)
  <2> DEFINE h == [n \in 0 .. N + 1 |-> IF n = 0 THEN x ELSE g[n - 1]]
  <2>1. g[0] = y /\ \A n \in 1 .. N : g[n] = Pressable(g[n - 1], s, d[n])
    BY <1>2 DEF ButtonReading, N
  <2>2. h[0] = x /\ \A n \in 1 .. N + 1 : h[n] = g[n - 1]
    BY <1>1
  <2> HIDE DEF h
  <2>3. ASSUME NEW n \in 1 .. N + 1 PROVE h[n] = Pressable(h[n - 1], s, c[n])
    <3>1. CASE n = 1
      <4>1. h[n] = g[0] /\ h[n - 1] = x
        BY <2>2, <3>1
      <4> QED
        BY <1>1, <2>1, <3>1, <4>1 DEF y
    <3>2. CASE n # 1
      <4>1. n - 1 \in 1 .. N /\ n - 1 \in 1 .. N + 1 /\ (n - 1) + 1 = n
        BY <1>1, <3>2
      <4>2. h[n] = g[n - 1] /\ h[n - 1] = g[(n - 1) - 1]
        BY <2>2, <4>1
      <4>3. g[n - 1] = Pressable(g[(n - 1) - 1], s, d[n - 1]) /\ d[n - 1] = c[n]
        BY <1>1, <2>1, <4>1
      <4> QED
        BY <4>2, <4>3
    <3> QED
      BY <3>1, <3>2
  <2>4. ButtonReading(h, s, x, c)
    BY <1>1, <2>2, <2>3 DEF ButtonReading
  <2>5. Right(h[N + 1], s, a)
    BY <1>1, <2>4 DEF EndsRight
  <2>6. h[N + 1] = g[N]
    <3>1. N + 1 \in 1 .. N + 1 /\ (N + 1) - 1 = N
      BY <1>1
    <3> QED
      BY <2>2, <3>1
  <2> QED
    BY <2>5, <2>6
<1> QED
  BY <1>2 DEF EndsRight, d, N, y

-----------------------------------------------------------------------------
(* The invariant                                                           *)

\* Who is at the table can read what is on its way and will see the buttons it
\* should; a table where all are ready has a game that all got cards of.
ScreensRight ==
  /\ TypeOK /\ TableTypeOK
  /\ \A s \in Seat : /\ Readable(s, chan[s])
                     /\ EndsRight(s, Buttons(screen[s]), chan[s], Truth)
  /\ AllReady(user) => phase # "none" /\ \A s \in Seat : dealt[s]

\* An empty seat has no buttons to be wrong.
LEMMA NobodyRight ==
  ASSUME NEW s \in Seat, NEW x, NEW c, NEW a, ~a.dealt[s], a.user[s] = "none"
  PROVE  EndsRight(s, x, c, a)
BY DEF EndsRight, Right, AllReady

\* One message is sent, or two, to a seat s that is taken.
LEMMA SendOne ==
  ASSUME ScreensRight, NEW s \in Seat, NEW m \in ToPlayer, chan'[s] = chan[s] \o <<m>>,
         \A y : Right(y, s, Truth) => Right(Pressable(y, s, m), s, Truth')
  PROVE  /\ Readable(s, chan'[s])
         /\ EndsRight(s, Buttons(screen[s]), chan'[s], Truth')
<1>1. chan[s] \in Seq(ToPlayer)
  BY ChannelTypes DEF ScreensRight
<1>2. chan'[s] = Append(chan[s], m)
  <2> HIDE DEF ToPlayer
  <2> QED
    BY <1>1
<1>3. Readable(s, chan[s]) /\ EndsRight(s, Buttons(screen[s]), chan[s], Truth)
  BY DEF ScreensRight
<1>4. Readable(s, Append(chan[s], m))
  BY <1>1, <1>3, AppendReadable
<1>5. EndsRight(s, Buttons(screen[s]), Append(chan[s], m), Truth')
  BY <1>1, <1>3, AppendRight
<1> QED
  BY <1>2, <1>4, <1>5

LEMMA SendTwo ==
  ASSUME ScreensRight, NEW s \in Seat, NEW m \in ToPlayer, NEW n \in ToPlayer,
         chan'[s] = chan[s] \o <<m, n>>, NEW between,
         \A y : Right(y, s, Truth) => Right(Pressable(y, s, m), s, between),
         \A y : Right(y, s, between) => Right(Pressable(y, s, n), s, Truth')
  PROVE  /\ Readable(s, chan'[s])
         /\ EndsRight(s, Buttons(screen[s]), chan'[s], Truth')
<1>1. chan[s] \in Seq(ToPlayer)
  BY ChannelTypes DEF ScreensRight
<1>2. chan'[s] = Append(Append(chan[s], m), n) /\ Append(chan[s], m) \in Seq(ToPlayer)
  <2> HIDE DEF ToPlayer
  <2> QED
    BY <1>1
<1>3. Readable(s, chan[s]) /\ EndsRight(s, Buttons(screen[s]), chan[s], Truth)
  BY DEF ScreensRight
<1>4. Readable(s, Append(chan[s], m)) /\ Readable(s, Append(Append(chan[s], m), n))
  BY <1>1, <1>2, <1>3, AppendReadable
<1>5. EndsRight(s, Buttons(screen[s]), Append(chan[s], m), between)
  BY <1>1, <1>3, AppendRight
<1>6. EndsRight(s, Buttons(screen[s]), Append(Append(chan[s], m), n), Truth')
  BY <1>2, <1>5, AppendRight
<1> QED
  BY <1>2, <1>4, <1>6

-----------------------------------------------------------------------------
(* The handlers of the server                                              *)

ReadyNews == [type |-> "READY"]

LEMMA MessageShapes ==
  ASSUME NEW s \in Seat, NEW g \in Int, NEW S \in SUBSET Card
  PROVE  /\ ReadyNews \in ToPlayer /\ OverMsg \in ToPlayer
         /\ GrabMsg(g, s) \in ToPlayer /\ GrabDoneMsg(s, g) \in ToPlayer
         /\ PlayMsg(s, S) \in ToPlayer
BY DEF ReadyNews, OverMsg, GrabMsg, GrabDoneMsg, PlayMsg, ToPlayer, Message

\* The game of a table that is full and ready starts.
LEMMA RightStart ==
  ASSUME ScreensRight, TypeOK', NEW s \in Seat, AllReady(user'), OnGameStart,
         Send(ReadyMsgs(s, [t \in Seat |-> <<DealTo(t)>>])), dealt' = [t \in Seat |-> TRUE],
         NEW t \in Seat
  PROVE  /\ Readable(t, chan'[t])
         /\ EndsRight(t, Buttons(screen[t]), chan'[t], Truth')
<1>1. /\ over' = FALSE /\ phase' = "deal" /\ cur' \in Seat /\ user'[t] = "READY"
      /\ hands' \in [Seat -> SUBSET Card]
  BY DEF OnGameStart, AllReady, TypeOK
<1>2. DealTo(t) \in ToPlayer /\ DealTo(t).type = "DEAL" /\ DealTo(t).cur = cur'
  BY <1>1 DEF DealTo, ToPlayer
<1>3. ReadyNews \in ToPlayer
  BY DEF ReadyNews, ToPlayer
<1>4. \A y : Right(Pressable(y, t, DealTo(t)), t, Truth')
  BY <1>1, <1>2 DEF Right, Pressable, Truth
<1>5. chan'[t] = chan[t] \o (IF t = s THEN <<ReadyNews>> \o <<DealTo(t)>> ELSE <<DealTo(t)>>)
  BY <1>1 DEF Send, ReadyMsgs, ReadyNews
<1> HIDE DEF ToPlayer
<1>6. <<ReadyNews>> \o <<DealTo(t)>> = <<ReadyNews, DealTo(t)>>
  BY <1>2, <1>3, TwoInARow, Zenon
<1>7. CASE t = s
  <2> DEFINE anyone == [dealt |-> [q \in Seat |-> FALSE], over |-> FALSE, phase |-> "none",
                        cur |-> 0, user |-> [q \in Seat |-> "none"]]
  <2>1. \A y : Right(y, t, anyone)
    BY DEF Right
  <2> HIDE DEF anyone
  <2> QED
    BY <1>2, <1>3, <1>4, <1>5, <1>6, <1>7, <2>1, SendTwo
<1>8. CASE t # s
  BY <1>2, <1>4, <1>5, <1>8, SendOne
<1> QED
  BY <1>7, <1>8

\* Somebody gets ready, and others are not.
LEMMA RightReady ==
  ASSUME ScreensRight, TableTypeOK', NEW s \in Seat, user' = [user EXCEPT ![s] = "READY"],
         ~AllReady(user'), Send(ReadyMsgs(s, [t \in Seat |-> <<>>])),
         UNCHANGED <<vars, dealt>>, NEW t \in Seat, user'[t] # "none"
  PROVE  /\ Readable(t, chan'[t])
         /\ EndsRight(t, Buttons(screen[t]), chan'[t], Truth')
<1>1. /\ UNCHANGED <<over, phase, cur, dealt>> /\ user \in [Seat -> {"none", "SITDOWN", "READY"}]
      /\ Readable(t, chan[t]) /\ EndsRight(t, Buttons(screen[t]), chan[t], Truth)
      /\ chan[t] \in Seq(ToPlayer)
  BY ChannelTypes DEF vars, ScreensRight, TableTypeOK
<1>2. chan'[t] = chan[t] \o (IF t = s THEN <<ReadyNews>> \o <<>> ELSE <<>>)
  BY DEF Send, ReadyMsgs, ReadyNews
<1>3. ReadyNews \in ToPlayer /\ ReadyNews.type = "READY"
  BY DEF ReadyNews, ToPlayer
<1>4. CASE t = s
  <2>1. user'[t] = "READY"
    BY <1>1, <1>4
  <2>2. \A y : Right(y, t, Truth) => Right(Pressable(y, t, ReadyNews), t, Truth')
    BY <1>1, <1>3, <2>1 DEF Right, Pressable, Truth
  <2>3. <<ReadyNews>> \o <<>> = <<ReadyNews>>
    BY <1>3
  <2> QED
    BY <1>2, <1>3, <1>4, <2>2, <2>3, SendOne
<1>5. CASE t # s
  <2>1. chan'[t] = chan[t]
    <3> HIDE DEF ToPlayer
    <3> QED
      BY <1>1, <1>2, <1>5
  <2>2. \A y : Right(y, t, Truth) => Right(y, t, Truth')
    BY <1>1, <1>5 DEF Right, Truth
  <2> QED
    BY <1>1, <2>1, <2>2, SameRight
<1> QED
  BY <1>4, <1>5

\* A call is accepted: the next to call, the landlord or the end is announced.
LEMMA RightGrab ==
  ASSUME ScreensRight, NEW s \in Seat, NEW g \in Int, Grab(s, g, timer),
         UNCHANGED <<user, dealt>>, Send([t \in Seat |-> out']), NEW t \in Seat,
         user[t] # "none"
  PROVE  /\ Readable(t, chan'[t])
         /\ EndsRight(t, Buttons(screen[t]), chan'[t], Truth')
<1>1. /\ phase = "deal" /\ cur = s /\ NextSeat(cur) \in Seat
      /\ chan'[t] = chan[t] \o out'
  BY SeatArithmetic DEF Grab, Send
<1>2. HighOf(g) \in Int /\ (HighOf(g) = 3 \/ TopOf(s, g) < NoSeat => TopOf(s, g) \in Seat)
  <2>1. maxGrade \in Int /\ who \in Seat \cup {NoSeat} /\ (who = NoSeat => maxGrade = 0)
    BY DEF ScreensRight, TypeOK
  <2>2. Int8(g) \in Int
    BY Int8Range
  <2> QED
    BY <2>1, <2>2 DEF HighOf, TopOf, Seat, NoSeat, PLAYER_COUNT
<1>3. CASE (HighOf(g) = 3 \/ TopOf(s, g) < NoSeat) /\ GrabDone(TopOf(s, g), HighOf(g))
  <2> DEFINE m == GrabDoneMsg(TopOf(s, g), HighOf(g))
  <2>1. /\ m \in ToPlayer /\ m.type = "GRAB_DONE" /\ m.who = cur'
        /\ out' = <<m>> /\ phase' = "play" /\ over' = over
    BY <1>2, <1>3, MessageShapes DEF GrabDone, GrabDoneMsg
  <2> HIDE DEF m
  <2>2. \A y : Right(y, t, Truth) => Right(Pressable(y, t, m), t, Truth')
    BY <2>1 DEF Right, Pressable, Truth
  <2> QED
    BY <1>1, <2>1, <2>2, SendOne
<1>4. CASE NobodyCalls(TopOf(s, g), HighOf(g), timer)
  <2>1. OverMsg \in ToPlayer /\ OverMsg.type = "OVER" /\ out' = <<OverMsg>> /\ over' = TRUE
    BY <1>4 DEF NobodyCalls, OverMsg, ToPlayer, Message
  <2>2. \A y : Right(y, t, Truth) => Right(Pressable(y, t, OverMsg), t, Truth')
    BY <2>1 DEF Right, Pressable, Truth
  <2> QED
    BY <1>1, <2>1, <2>2, SendOne
<1>5. CASE NextCalls(g, TopOf(s, g), HighOf(g))
  <2> DEFINE m == GrabMsg(g, NextSeat(cur))
  <2>1. /\ m \in ToPlayer /\ m.type = "GRAB" /\ m.cur = cur'
        /\ out' = <<m>> /\ phase' = "deal" /\ over' = over
    BY <1>1, <1>5, MessageShapes DEF NextCalls, GrabMsg
  <2> HIDE DEF m
  <2>2. \A y : Right(y, t, Truth) => Right(Pressable(y, t, m), t, Truth')
    BY <2>1 DEF Right, Pressable, Truth
  <2> QED
    BY <1>1, <2>1, <2>2, SendOne
<1> QED
  BY <1>3, <1>4, <1>5 DEF Grab, HighOf, TopOf

\* Cards are played, or none.
LEMMA RightPlay ==
  ASSUME ScreensRight, NEW s \in Seat, NEW S \in SUBSET Card, HandlePlay(s, S),
         UNCHANGED <<user, dealt>>, Send([t \in Seat |-> out']), NEW t \in Seat,
         user[t] # "none"
  PROVE  /\ Readable(t, chan'[t])
         /\ EndsRight(t, Buttons(screen[t]), chan'[t], Truth')
<1> DEFINE m == PlayMsg(s, S)
           between == [Truth EXCEPT !.cur = NextSeat(s)]
<1>1. /\ phase = "play" /\ phase' = "play" /\ cur = s /\ cur' = NextSeat(s)
      /\ chan'[t] = chan[t] \o out'
  BY DEF HandlePlay, Pass, PlayCards, PassTurn, Send
<1>2. m \in ToPlayer /\ m.type = "PLAY" /\ m.who = s
  BY MessageShapes DEF PlayMsg
<1>3. \/ out' = <<m>> /\ over' = over
      \/ out' = <<m, OverMsg>> /\ over' = TRUE
  BY DEF HandlePlay, Pass, PlayCards, ScreensRight, TypeOK
<1>4. OverMsg \in ToPlayer /\ OverMsg.type = "OVER"
  BY DEF OverMsg, ToPlayer, Message
<1> HIDE DEF m
<1>5. CASE out' = <<m>> /\ over' = over
  <2>1. \A y : Right(y, t, Truth) => Right(Pressable(y, t, m), t, Truth')
    BY <1>1, <1>2, <1>5 DEF Right, Pressable, Truth
  <2> QED
    BY <1>1, <1>2, <1>5, <2>1, SendOne
<1>6. CASE out' = <<m, OverMsg>> /\ over' = TRUE
  <2>1. /\ between.phase = "play" /\ between.cur = NextSeat(s) /\ between.over = over
        /\ between.dealt = dealt /\ between.user = user
    BY <1>1 DEF Truth
  <2> HIDE DEF between
  <2>2. \A y : Right(y, t, Truth) => Right(Pressable(y, t, m), t, between)
    BY <1>1, <1>2, <2>1 DEF Right, Pressable, Truth
  <2>3. \A y : Right(y, t, between) => Right(Pressable(y, t, OverMsg), t, Truth')
    BY <1>4, <1>6, <2>1 DEF Right, Pressable, Truth
  <2> QED
    BY <1>1, <1>2, <1>4, <1>6, <2>2, <2>3, SendTwo
<1> QED
  BY <1>3, <1>5, <1>6

LEMMA RightReceive ==
  ASSUME ScreensRight, TypeOK', TableTypeOK', NEW s \in Seat, Receive(s)
  PROVE  ScreensRight'
<1> DEFINE Fine(t) == /\ Readable(t, chan'[t])
                      /\ EndsRight(t, Buttons(screen[t]), chan'[t], Truth')
<1>1. /\ screen' = screen /\ TypeOK /\ TableTypeOK
      /\ \A t \in Seat : Readable(t, chan[t])
      /\ \A t \in Seat : EndsRight(t, Buttons(screen[t]), chan[t], Truth)
  BY DEF Receive, ScreensRight
<1>2. ASSUME NEW t \in Seat, user'[t] = "none", chan'[t] = chan[t] PROVE Fine(t)
  <2>1. ~dealt'[t]
    BY <1>2 DEF TableTypeOK
  <2>2. EndsRight(t, Buttons(screen[t]), chan'[t], Truth')
    BY <1>2, <2>1, NobodyRight DEF Truth
  <2> QED
    BY <1>1, <1>2, <2>2
<1>3. PICK r \in Request : HandleReady(s) \/ HandleGame(s, r)
  BY <1>1, ChannelTypes DEF Receive
<1>4. CASE HandleReady(s) /\ AllReady(user')
  <2>1. /\ OnGameStart /\ Send(ReadyMsgs(s, [t \in Seat |-> <<DealTo(t)>>]))
        /\ dealt' = [t \in Seat |-> TRUE]
    BY <1>4 DEF HandleReady
  <2>2. \A t \in Seat : Fine(t)
    BY <1>4, <2>1, RightStart
  <2>3. phase' # "none" /\ \A t \in Seat : dealt'[t]
    BY <2>1 DEF OnGameStart
  <2> QED
    BY <1>1, <2>2, <2>3 DEF ScreensRight
<1>5. CASE HandleReady(s) /\ ~AllReady(user')
  <2>1. /\ user' = [user EXCEPT ![s] = "READY"] /\ UNCHANGED <<vars, dealt>>
        /\ Send(ReadyMsgs(s, [t \in Seat |-> <<>>]))
    BY <1>5 DEF HandleReady
  <2>2. ASSUME NEW t \in Seat PROVE Fine(t)
    <3>1. CASE user'[t] = "none"
      <4>1. chan'[t] = chan[t]
        BY <2>1, <3>1 DEF Send
      <4> QED
        BY <1>2, <3>1, <4>1
    <3>2. CASE user'[t] # "none"
      BY <1>5, <2>1, <3>2, RightReady
    <3> QED
      BY <3>1, <3>2
  <2> QED
    BY <1>1, <1>5, <2>2 DEF ScreensRight
<1>6. CASE HandleGame(s, r)
  <2>1. user' = user /\ dealt' = dealt
    BY <1>6 DEF HandleGame
  <2>2. phase # "none" => phase' # "none"
    <3>1. CASE UNCHANGED vars
      BY <3>1 DEF vars
    <3>2. ASSUME NEW g, Grab(s, g, timer) PROVE phase' # "none"
      BY <3>2 DEF Grab, GrabDone, NobodyCalls, NextCalls
    <3>3. ASSUME NEW S, HandlePlay(s, S) PROVE phase' # "none"
      BY <3>3 DEF HandlePlay, Pass, PlayCards
    <3> QED
      BY <1>1, <1>6, <3>1, <3>2, <3>3, GameSteps
  <2>3. ASSUME NEW t \in Seat PROVE Fine(t)
    <3>1. CASE UNCHANGED vars /\ UNCHANGED chan
      <4>1. Truth' = Truth
        BY <2>1, <3>1 DEF Truth, vars
      <4> QED
        BY <1>1, <3>1, <4>1
    <3>2. CASE user[t] = "none" /\ Send([q \in Seat |-> out'])
      BY <1>2, <2>1, <3>2 DEF Send
    <3>3. CASE /\ user[t] # "none" /\ r.grade \in Grades /\ Grab(s, r.grade, timer)
               /\ Send([q \in Seat |-> out'])
      <4>1. r.grade \in Int
        BY <3>3, GradesAssumption
      <4> QED
        BY <2>1, <3>3, <4>1, RightGrab
    <3>4. CASE /\ user[t] # "none" /\ r.cards \in SUBSET Card /\ HandlePlay(s, r.cards)
               /\ Send([q \in Seat |-> out'])
      BY <2>1, <3>4, RightPlay
    <3> QED
      BY <1>1, <1>6, <3>1, <3>2, <3>3, <3>4, GameSteps
  <2> QED
    BY <1>1, <2>1, <2>2, <2>3 DEF ScreensRight
<1> QED
  BY <1>3, <1>4, <1>5, <1>6

-----------------------------------------------------------------------------
(* The players                                                             *)

LEMMA RightSit ==
  ASSUME ScreensRight, TypeOK', TableTypeOK', NEW s \in Seat, Sit(s)
  PROVE  ScreensRight'
<1>1. /\ user' = [user EXCEPT ![s] = "SITDOWN"] /\ UNCHANGED <<vars, chan, screen, dealt>>
      /\ user[s] = "none" /\ TableTypeOK
  BY DEF Sit, ScreensRight
<1>2. user'[s] = "SITDOWN" /\ ~AllReady(user') /\ \A t \in Seat : t # s => user'[t] = user[t]
  BY <1>1 DEF TableTypeOK, AllReady
<1>3. chan[s] = <<>> /\ screen[s] = NewScreen /\ ~dealt[s]
  BY <1>1 DEF TableTypeOK
<1>4. EndsRight(s, Buttons(screen[s]), chan[s], Truth')
  <2>1. Len(<<>>) = 0 /\ Buttons(NewScreen).ready = TRUE
    BY DEF Buttons, NewScreen
  <2> QED
    BY <1>1, <1>2, <1>3, <2>1 DEF EndsRight, ButtonReading, Right, Truth
<1>5. ASSUME NEW t \in Seat, t # s PROVE EndsRight(t, Buttons(screen[t]), chan[t], Truth')
  <2>1. \A y : Right(y, t, Truth) => Right(y, t, Truth')
    BY <1>1, <1>2, <1>5 DEF Right, Truth, vars
  <2> QED
    BY <2>1, SameRight DEF ScreensRight
<1> QED
  BY <1>1, <1>2, <1>4, <1>5 DEF ScreensRight

LEMMA RightLeave ==
  ASSUME ScreensRight, TypeOK', TableTypeOK', NEW s \in Seat, Leave(s)
  PROVE  ScreensRight'
<1>1. /\ user' = [user EXCEPT ![s] = "none"] /\ chan' = [chan EXCEPT ![s] = <<>>]
      /\ screen' = [screen EXCEPT ![s] = NewScreen] /\ dealt' = [dealt EXCEPT ![s] = FALSE]
      /\ UNCHANGED vars /\ TableTypeOK
  BY DEF Leave, ScreensRight
<1>2. /\ user'[s] = "none" /\ chan'[s] = <<>> /\ ~dealt'[s] /\ ~AllReady(user')
      /\ \A t \in Seat : t # s => /\ user'[t] = user[t] /\ chan'[t] = chan[t]
                                  /\ screen'[t] = screen[t] /\ dealt'[t] = dealt[t]
  BY <1>1 DEF TableTypeOK, AllReady
<1>3. /\ Readable(s, chan'[s])
      /\ EndsRight(s, Buttons(screen'[s]), chan'[s], Truth')
  BY <1>2, NothingReadable, NobodyRight DEF Truth
<1>4. ASSUME NEW t \in Seat, t # s
      PROVE  EndsRight(t, Buttons(screen[t]), chan[t], Truth')
  <2>1. \A y : Right(y, t, Truth) => Right(y, t, Truth')
    BY <1>1, <1>2, <1>4 DEF Right, Truth, vars
  <2> QED
    BY <2>1, SameRight DEF ScreensRight
<1> QED
  BY <1>2, <1>3, <1>4 DEF ScreensRight

LEMMA RightDeliver ==
  ASSUME ScreensRight, TypeOK', TableTypeOK', NEW s \in Seat, Deliver(s)
  PROVE  ScreensRight'
<1>1. /\ UNCHANGED <<vars, user, dealt>> /\ Truth' = Truth /\ TableTypeOK /\ chan[s] # <<>>
      /\ screen' = [screen EXCEPT ![s] = Shown(@, s, Head(chan[s]))]
      /\ chan' = [chan EXCEPT ![s] = Tail(@)]
  BY DEF Deliver, ScreensRight, Truth, vars
<1>2. chan[s] \in Seq(ToPlayer) /\ Head(chan[s]) \in ToPlayer /\ screen[s] \in Screen
  BY <1>1, ChannelTypes DEF TableTypeOK
<1>3. /\ screen'[s] = Shown(screen[s], s, Head(chan[s])) /\ chan'[s] = Tail(chan[s])
      /\ \A t \in Seat : t # s => screen'[t] = screen[t] /\ chan'[t] = chan[t]
  BY <1>1 DEF TableTypeOK
<1>4. Readable(s, chan[s]) /\ EndsRight(s, Buttons(screen[s]), chan[s], Truth)
  BY DEF ScreensRight
<1>5. Readable(s, Tail(chan[s]))
  BY <1>1, <1>2, <1>4, TailReadable
<1>6. EndsRight(s, Buttons(Shown(screen[s], s, Head(chan[s]))), Tail(chan[s]), Truth)
  BY <1>1, <1>2, <1>4, TailRight, ButtonsShown
<1>7. \A t \in Seat : /\ Readable(t, chan'[t])
                      /\ EndsRight(t, Buttons(screen'[t]), chan'[t], Truth')
  BY <1>1, <1>3, <1>5, <1>6 DEF ScreensRight
<1> QED
  BY <1>1, <1>7 DEF ScreensRight, vars

\* The choice of cards is all that pressing a button changes of a screen.
LEMMA RightPress ==
  ASSUME ScreensRight, TypeOK', TableTypeOK', NEW s \in Seat, NEW r, Press(s, r),
         \A t \in Seat : Buttons(screen'[t]) = Buttons(screen[t])
  PROVE  ScreensRight'
<1>1. UNCHANGED <<vars, user, chan, dealt>> /\ Truth' = Truth
  BY DEF Press, Truth, vars
<1> QED
  BY <1>1 DEF ScreensRight, vars

LEMMA ScreensNext == ScreensRight /\ [TableNext]_tableVars => ScreensRight'
<1> SUFFICES ASSUME ScreensRight, [TableNext]_tableVars PROVE ScreensRight'
  OBVIOUS
<1>1. TypeOK' /\ TableTypeOK'
  BY GameNext, TypeNext, TableTypeNext DEF ScreensRight
<1>2. CASE UNCHANGED tableVars
  <2>1. UNCHANGED <<chan, screen, user, dealt, phase>> /\ Truth' = Truth
    BY <1>2 DEF tableVars, vars, Truth
  <2> QED
    BY <1>1, <2>1 DEF ScreensRight
<1>3. ASSUME NEW s \in Seat, NEW S, OnTouchPutCard(s, S) PROVE ScreensRight'
  <2>1. \A t \in Seat : Buttons(screen'[t]) = Buttons(screen[t])
    BY <1>3 DEF OnTouchPutCard, Buttons, ScreensRight, TableTypeOK, Screen
  <2> QED
    BY <1>1, <1>3, <2>1, RightPress DEF OnTouchPutCard
<1>4. ASSUME NEW s \in Seat, OnTouchReady(s) \/ \E g \in Grades : OnTouchCallLord(s, g)
      PROVE  ScreensRight'
  BY <1>1, <1>4, RightPress DEF OnTouchReady, OnTouchCallLord
<1> QED
  BY <1>1, <1>2, <1>3, <1>4, RightSit, RightLeave, RightReceive, RightDeliver DEF TableNext

LEMMA ScreensInit == TableInit => ScreensRight
<1> SUFFICES ASSUME TableInit PROVE ScreensRight
  OBVIOUS
<1>1. TypeOK /\ TableTypeOK
  BY TableTypeInit, TypeInit DEF TableInit
<1>2. ASSUME NEW s \in Seat
      PROVE  chan[s] = <<>> /\ ~dealt[s] /\ user[s] = "none" /\ ~AllReady(user)
  BY DEF TableInit, AllReady
<1>3. ~AllReady(user)
  BY <1>2 DEF Seat, PLAYER_COUNT
<1> QED
  BY <1>1, <1>2, <1>3, NothingReadable, NobodyRight DEF ScreensRight, Truth

LEMMA ScreensInvariance == TableSpec => []ScreensRight
BY ScreensInit, ScreensNext, PTL DEF TableSpec

\* Caught is the end of a reading of what is on its way.
LEMMA CaughtReading ==
  ASSUME ScreensRight, NEW s \in Seat
  PROVE  /\ Len(chan[s]) \in Nat /\ \A n \in 1 .. Len(chan[s]) : chan[s][n] \in ToPlayer
         /\ \E f : /\ Caught(s) = f[Len(chan[s])] /\ f[0] = screen[s]
                   /\ \A n \in 0 .. Len(chan[s]) : f[n] \in Screen
                   /\ \A n \in 1 .. Len(chan[s]) : f[n] = Shown(f[n - 1], s, chan[s][n])
<1> DEFINE c == chan[s]
           f[n \in 0 .. Len(c)] ==
             IF n = 0 THEN screen[s] ELSE Shown(f[n - 1], s, c[n])
           N == Len(c)
<1>1. /\ c \in Seq(ToPlayer) /\ screen[s] \in Screen /\ Readable(s, c)
  BY ChannelTypes DEF ScreensRight, TableTypeOK
<1>2. Caught(s) = f[N]
  BY DEF Caught
<1>3. f = CHOOSE g : g = [n \in 0 .. N |->
                            IF n = 0 THEN screen[s] ELSE Shown(g[n - 1], s, c[n])]
  OBVIOUS
<1> HIDE DEF f, c
<1>4. N \in Nat /\ \A n \in 1 .. N : c[n] \in ToPlayer
  BY <1>1
<1> HIDE DEF N
<1>5. ASSUME NEW g
      PROVE  Reading(g, s, screen[s], c, 0) <=>
               g = [n \in 0 .. N |-> IF n = 0 THEN screen[s] ELSE Shown(g[n - 1], s, c[n])]
  <2> DEFINE body(n) == IF n = 0 THEN screen[s] ELSE Shown(g[n - 1], s, c[n])
  <2>1. ASSUME Reading(g, s, screen[s], c, 0) PROVE g = [n \in 0 .. N |-> body(n)]
    <3>1. \A n \in 0 .. N : g[n] = body(n)
      <4>1. g[0] = screen[s] /\ \A n \in 1 .. N : g[n] = Shown(g[n - 1], s, c[n])
        BY <2>1, ReadingFromStart DEF N
      <4>2. \A n \in 0 .. N : n = 0 \/ n \in 1 .. N
        BY <1>4
      <4> QED
        BY <4>1, <4>2
    <3> HIDE DEF body
    <3>2. [n \in 0 .. N |-> g[n]] = [n \in 0 .. N |-> body(n)]
      BY <3>1
    <3> QED
      BY <2>1, <3>2 DEF Reading, N
  <2>2. ASSUME g = [n \in 0 .. N |-> body(n)] PROVE Reading(g, s, screen[s], c, 0)
    <3> HIDE DEF body
    <3>1. \A n \in 0 .. N : g[n] = body(n)
      BY <2>2
    <3>2. g = [n \in 0 .. N |-> g[n]]
      BY <2>2
    <3>3. g[0] = screen[s]
      BY <1>4, <3>1 DEF body
    <3>4. ASSUME NEW n \in 0 + 1 .. N PROVE g[n] = Shown(g[n - 1], s, c[n])
      <4>1. n \in 0 .. N /\ n # 0
        BY <1>4
      <4> QED
        BY <3>1, <4>1 DEF body
    <3> QED
      BY <3>2, <3>3, <3>4 DEF Reading, N
  <2> QED
    BY <2>1, <2>2
<1>6. \E g : Reading(g, s, screen[s], c, 0)
  BY <1>1, <1>4 DEF Readable, N
<1>7. Reading(f, s, screen[s], c, 0)
  BY <1>3, <1>5, <1>6
<1>8. \A n \in 0 .. N : f[n] \in Screen
  BY <1>1, <1>4, <1>7 DEF Readable, N
<1>9. f[0] = screen[s] /\ \A n \in 1 .. N : f[n] = Shown(f[n - 1], s, c[n])
  BY <1>7, ReadingFromStart DEF N
<1> QED
  BY <1>2, <1>4, <1>8, <1>9 DEF N, c

\* So its buttons are right.
LEMMA CaughtRight ==
  ASSUME ScreensRight, NEW s \in Seat
  PROVE  Caught(s) \in Screen /\ Right(Buttons(Caught(s)), s, Truth)
<1> DEFINE c == chan[s]
           N == Len(c)
<1>1. N \in Nat /\ \A n \in 1 .. N : c[n] \in ToPlayer
  BY CaughtReading
<1>2. PICK f : /\ Caught(s) = f[N] /\ f[0] = screen[s] /\ \A n \in 0 .. N : f[n] \in Screen
               /\ \A n \in 1 .. N : f[n] = Shown(f[n - 1], s, c[n])
  BY CaughtReading
<1> DEFINE b == [n \in 0 .. N |-> Buttons(f[n])]
<1>3. \A n \in 0 .. N : b[n] = Buttons(f[n])
  OBVIOUS
<1> HIDE DEF b, c, N
<1>4. ASSUME NEW n \in 1 .. N PROVE b[n] = Pressable(b[n - 1], s, c[n])
  <2>1. n \in 0 .. N /\ n - 1 \in 0 .. N
    BY <1>1
  <2> QED
    BY <1>1, <1>2, <1>3, <2>1, ButtonsShown
<1>5. 0 \in 0 .. N /\ N \in 0 .. N
  BY <1>1
<1>6. ButtonReading(b, s, Buttons(screen[s]), c)
  BY <1>2, <1>3, <1>4, <1>5 DEF ButtonReading, N
<1>7. EndsRight(s, Buttons(screen[s]), c, Truth)
  BY DEF ScreensRight, c
<1> QED
  BY <1>2, <1>3, <1>5, <1>6, <1>7 DEF EndsRight, N

-----------------------------------------------------------------------------
(* The theorems                                                            *)

\* Until the game is announced over, the buttons show at the seat the server
\* waits for and nowhere else, at everybody who got its cards
\* (HelloWorldScene.cpp:258-363, DealState.cpp:83-113, PlayState.cpp:32-73).
THEOREM TableButtonsFollowTurn == TableSpec => []ButtonsFollowTurn
<1>1. ASSUME ScreensRight, NEW s \in Seat, dealt[s] /\ ~over
      PROVE  /\ Caught(s).call = (phase = "deal" /\ cur = s)
             /\ phase = "play" => Caught(s).put = (cur = s)
  <2>1. Caught(s).call \in BOOLEAN /\ Caught(s).put \in BOOLEAN
    BY <1>1, CaughtRight DEF Screen
  <2>2. /\ Caught(s).call <=> phase = "deal" /\ cur = s
        /\ phase = "play" => (Caught(s).put <=> cur = s)
    BY <1>1, CaughtRight DEF Right, Buttons, Truth
  <2> QED
    BY <2>1, <2>2
<1>2. ScreensRight => ButtonsFollowTurn
  BY <1>1 DEF ButtonsFollowTurn
<1> QED
  BY <1>2, ScreensInvariance, PTL

\* At a full table whose users are all ready there is a game that every one of
\* them was dealt its cards for, also after users left and others took their
\* seats (game_table.cpp:73-113).
THEOREM TableReadyPlays == TableSpec => []ReadyTablePlays
<1>1. ScreensRight => ReadyTablePlays
  BY DEF ScreensRight, ReadyTablePlays, AllReady
<1> QED
  BY <1>1, ScreensInvariance, PTL

\* A full table can always go on: somebody has, or will have, a button that the
\* server acts on (game_table.cpp:84-113, HelloWorldScene.cpp:303-330).
THEOREM TableGoesOn == TableSpec => []TableNotStuck
<1>1. ASSUME ScreensRight, \A s \in Seat : user[s] # "none"
      PROVE  \/ \E s \in Seat : Caught(s).ready
             \/ phase = "deal" /\ Caught(cur).call
             \/ phase = "play" /\ Caught(cur).put
  <2>1. \A s \in Seat : Right(Buttons(Caught(s)), s, Truth)
    BY <1>1, CaughtRight
  <2>2. CASE \E s \in Seat : user[s] = "SITDOWN"
    BY <2>1, <2>2 DEF Right, Buttons, Truth
  <2>3. CASE AllReady(user) /\ over
    <3>1. 0 \in Seat
      BY DEF Seat, PLAYER_COUNT
    <3> QED
      BY <2>1, <2>3, <3>1 DEF Right, Buttons, Truth
  <2>4. CASE AllReady(user) /\ ~over
    <3>1. phase # "none" /\ cur \in Seat /\ dealt[cur] /\ phase \in {"none", "deal", "play"}
      BY <1>1, <2>4 DEF ScreensRight, TypeOK
    <3> QED
      BY <2>1, <2>4, <3>1 DEF Right, Buttons, Truth
  <2> QED
    BY <1>1, <2>2, <2>3, <2>4 DEF ScreensRight, TableTypeOK, AllReady
<1>2. ScreensRight => TableNotStuck
  BY <1>1 DEF TableNotStuck
<1> QED
  BY <1>2, ScreensInvariance, PTL

-----------------------------------------------------------------------------
(* Induction on a number, said with sets                                   *)

LEMMA LeastNat ==
  ASSUME NEW T, T \subseteq Nat, T # {}
  PROVE  \E m \in T : \A k \in T : m <= k
<1>1. IsWellFoundedOn(OpToRel(<, Nat), Nat)
  BY NatLessThanWellFounded
<1>2. \A x, y \in Nat : y < x => <<y, x>> \in OpToRel(<, Nat)
  BY DEF OpToRel
<1> DEFINE R == OpToRel(<, Nat)
<1> HIDE DEF R
<1>3. IsWellFoundedOn(R, Nat) /\ \A x, y \in Nat : y < x => <<y, x>> \in R
  BY <1>1, <1>2 DEF R
<1>4. PICK x \in T : \A y \in T : ~ (<<y, x>> \in R)
  BY <1>3, WFMin
<1>5. ASSUME NEW k \in T PROVE x <= k
  <2>1. x \in Nat /\ k \in Nat /\ ~ (k < x)
    BY <1>3, <1>4, Zenon
  <2> QED
    BY <2>1
<1> QED
  BY <1>5

LEMMA SetInduction ==
  ASSUME NEW T, 0 \in T, \A n \in Nat : n \in T => n + 1 \in T
  PROVE  Nat \subseteq T
<1> SUFFICES ASSUME Nat \ T # {} PROVE FALSE
  OBVIOUS
<1>1. PICK m \in Nat \ T : \A k \in Nat \ T : m <= k
  BY LeastNat
<1>2. m - 1 \in Nat
  BY <1>1
<1> QED
  BY <1>1, <1>2

-----------------------------------------------------------------------------
(* The hand that shows                                                     *)

\* What of a screen the hand depends on, and what message m makes of it.
Held(w) == [hand |-> w.hand, mine |-> w.mine]
Own(s, m) == m.type = "PLAY" /\ m.who = s /\ m.cards # {}
Kept(p, s, m) ==
  [hand |-> IF m.type = "DEAL" THEN m.cards
            ELSE IF Own(s, m) THEN p.hand \ p.mine ELSE p.hand,
   mine |-> p.mine]

LEMMA HandOf ==
  ASSUME NEW s \in Seat, NEW w \in Screen, NEW m \in ToPlayer
  PROVE  Held(Shown(w, s, m)) = Kept(Held(w), s, m)
<1> USE DEF Screen, Held, Kept, Own
<1>1. CASE m.type = "DEAL"
  BY <1>1 DEF Shown, HandDeal
<1>2. CASE m.type = "GRAB"
  BY <1>2 DEF Shown, HandleGrabLandlord
<1>3. CASE m.type = "GRAB_DONE"
  BY <1>3 DEF Shown, HandleGrabLandlordOver
<1>4. CASE m.type = "PLAY"
  BY <1>4 DEF Shown, HandlePlayCard, Removed
<1>5. CASE m.type = "OVER"
  BY <1>5 DEF Shown, HandleGameOver
<1>6. CASE m.type = "READY"
  BY <1>6 DEF Shown, OnUserStateChange
<1> QED
  BY <1>1, <1>2, <1>3, <1>4, <1>5, <1>6 DEF ToPlayer, Message

LEMMA KeptFacts ==
  ASSUME NEW p, NEW s, NEW m
  PROVE  /\ Kept(p, s, m) = [hand |-> Kept(p, s, m).hand, mine |-> p.mine]
         /\ Kept(p, s, m).mine = p.mine
         /\ ~ Own(s, m) => Kept(p, s, m).hand = IF m.type = "DEAL" THEN m.cards ELSE p.hand
BY DEF Kept

\* g[n] is what is held after n of the messages c, p being held before them.
HandReading(g, s, p, c) ==
  /\ g[0] = p
  /\ \A n \in 1 .. Len(c) : g[n] = Kept(g[n - 1], s, c[n])

\* After all of them q is held.
HandEnds(s, p, c, q) == \A g : HandReading(g, s, p, c) => g[Len(c)] = q

LEMMA AppendHand ==
  ASSUME NEW s, NEW p, NEW c \in Seq(ToPlayer), NEW m \in ToPlayer, NEW q,
         HandEnds(s, p, c, q)
  PROVE  HandEnds(s, p, Append(c, m), Kept(q, s, m))
<1> DEFINE d == Append(c, m)
           N == Len(c)
<1>1. Len(d) = N + 1 /\ N \in Nat /\ d[N + 1] = m /\ \A i \in 1 .. N : d[i] = c[i]
  BY AppendFacts
<1> HIDE DEF d
<1>2. ASSUME NEW g, HandReading(g, s, p, d) PROVE g[N + 1] = Kept(q, s, m)
  <2>1. g[0] = p /\ \A n \in 1 .. N + 1 : g[n] = Kept(g[n - 1], s, d[n])
    BY <1>1, <1>2 DEF HandReading
  <2>2. \A n \in 1 .. N : n \in 1 .. N + 1
    BY <1>1
  <2>3. HandReading(g, s, p, c)
    BY <1>1, <2>1, <2>2 DEF HandReading
  <2>4. N + 1 \in 1 .. N + 1 /\ (N + 1) - 1 = N
    BY <1>1
  <2>5. g[N + 1] = Kept(g[N], s, m)
    BY <1>1, <2>1, <2>4
  <2> QED
    BY <2>3, <2>5 DEF HandEnds
<1> QED
  BY <1>1, <1>2 DEF HandEnds, d

\* No message changes the choice.
LEMMA MineStays ==
  ASSUME NEW s, NEW h, NEW y, NEW c \in Seq(ToPlayer), NEW g,
         HandReading(g, s, [hand |-> h, mine |-> y], c)
  PROVE  g[Len(c)] = [hand |-> g[Len(c)].hand, mine |-> y]
<1> DEFINE N == Len(c)
           T == {n \in Nat : n <= N => g[n] = [hand |-> g[n].hand, mine |-> y]}
<1>1. N \in Nat
  OBVIOUS
<1>2. g[0] = [hand |-> h, mine |-> y] /\ \A n \in 1 .. N : g[n] = Kept(g[n - 1], s, c[n])
  BY DEF HandReading
<1> HIDE DEF N
<1>3. 0 \in T
  BY <1>2
<1>4. ASSUME NEW n \in Nat, n \in T PROVE n + 1 \in T
  <2> SUFFICES ASSUME n + 1 <= N
               PROVE  g[n + 1] = [hand |-> g[n + 1].hand, mine |-> y]
    OBVIOUS
  <2>1. n + 1 \in 1 .. N /\ (n + 1) - 1 = n /\ n <= N
    BY <1>1
  <2>2. g[n + 1] = Kept(g[n], s, c[n + 1]) /\ g[n] = [hand |-> g[n].hand, mine |-> y]
    BY <1>2, <1>4, <2>1
  <2> DEFINE k == Kept(g[n], s, c[n + 1])
  <2>3. k = [hand |-> k.hand, mine |-> g[n].mine] /\ g[n].mine = y
    BY <2>2, KeptFacts
  <2> HIDE DEF k
  <2>4. g[n + 1] = k
    BY <2>2 DEF k
  <2> QED
    BY <2>3, <2>4
<1>5. N \in T
  <2> HIDE DEF T
  <2> QED
    BY <1>1, <1>3, <1>4, SetInduction
<1> QED
  BY <1>1, <1>5 DEF N

\* A message that deals settles the hand, whatever was held before.
LEMMA DealtHand ==
  ASSUME NEW s, NEW h, NEW x, NEW c \in Seq(ToPlayer), NEW m \in ToPlayer, m.type = "DEAL"
  PROVE  HandEnds(s, [hand |-> h, mine |-> x], Append(c, m), [hand |-> m.cards, mine |-> x])
<1> DEFINE p == [hand |-> h, mine |-> x]
           d == Append(c, m)
           N == Len(c)
<1>1. Len(d) = N + 1 /\ N \in Nat /\ d[N + 1] = m /\ \A i \in 1 .. N : d[i] = c[i]
  BY AppendFacts
<1> HIDE DEF d
<1>2. ASSUME NEW g, HandReading(g, s, p, d) PROVE g[N + 1] = [hand |-> m.cards, mine |-> x]
  <2>1. g[0] = p /\ \A n \in 1 .. N + 1 : g[n] = Kept(g[n - 1], s, d[n])
    BY <1>1, <1>2 DEF HandReading
  <2>2. \A n \in 1 .. N : n \in 1 .. N + 1
    BY <1>1
  <2>3. HandReading(g, s, p, c)
    BY <1>1, <2>1, <2>2 DEF HandReading
  <2>4. N + 1 \in 1 .. N + 1 /\ (N + 1) - 1 = N
    BY <1>1
  <2>5. g[N] = [hand |-> g[N].hand, mine |-> x]
    BY <2>3, MineStays
  <2>6. g[N + 1] = Kept(g[N], s, m)
    BY <1>1, <2>1, <2>4
  <2> QED
    BY <2>5, <2>6 DEF Kept
<1> QED
  BY <1>1, <1>2 DEF HandEnds, d

LEMMA TailHand ==
  ASSUME NEW s, NEW p, NEW c \in Seq(ToPlayer), c # <<>>, NEW q, HandEnds(s, p, c, q)
  PROVE  HandEnds(s, Kept(p, s, Head(c)), Tail(c), q)
<1> DEFINE d == Tail(c)
           N == Len(d)
           y == Kept(p, s, Head(c))
<1>1. /\ Len(c) = N + 1 /\ N \in Nat /\ Head(c) = c[1]
      /\ \A i \in 1 .. N : d[i] = c[i + 1]
  BY TailFacts
<1> HIDE DEF d, N, y
<1>2. ASSUME NEW g, HandReading(g, s, y, d) PROVE g[N] = q
  <2> DEFINE h == [n \in 0 .. N + 1 |-> IF n = 0 THEN p ELSE g[n - 1]]
  <2>1. g[0] = y /\ \A n \in 1 .. N : g[n] = Kept(g[n - 1], s, d[n])
    BY <1>2 DEF HandReading, N
  <2>2. h[0] = p /\ \A n \in 1 .. N + 1 : h[n] = g[n - 1]
    BY <1>1
  <2> HIDE DEF h
  <2>3. ASSUME NEW n \in 1 .. N + 1 PROVE h[n] = Kept(h[n - 1], s, c[n])
    <3>1. CASE n = 1
      <4>1. h[n] = g[0] /\ h[n - 1] = p
        BY <2>2, <3>1
      <4> QED
        BY <1>1, <2>1, <3>1, <4>1 DEF y
    <3>2. CASE n # 1
      <4>1. n - 1 \in 1 .. N /\ n - 1 \in 1 .. N + 1 /\ (n - 1) + 1 = n
        BY <1>1, <3>2
      <4>2. h[n] = g[n - 1] /\ h[n - 1] = g[(n - 1) - 1]
        BY <2>2, <4>1
      <4>3. g[n - 1] = Kept(g[(n - 1) - 1], s, d[n - 1]) /\ d[n - 1] = c[n]
        BY <1>1, <2>1, <4>1
      <4> QED
        BY <4>2, <4>3
    <3> QED
      BY <3>1, <3>2
  <2>4. HandReading(h, s, p, c)
    BY <1>1, <2>2, <2>3 DEF HandReading
  <2>5. h[N + 1] = q
    BY <1>1, <2>4 DEF HandEnds
  <2>6. h[N + 1] = g[N]
    <3>1. N + 1 \in 1 .. N + 1 /\ (N + 1) - 1 = N
      BY <1>1
    <3> QED
      BY <2>2, <3>1
  <2> QED
    BY <2>5, <2>6
<1> QED
  BY <1>2 DEF HandEnds, d, N, y

\* Where no choice is to be answered it does not matter what was chosen last.
LEMMA ChooseHand ==
  ASSUME NEW s, NEW h, NEW c \in Seq(ToPlayer), NEW x, NEW y, NEW H,
         \A i \in 1 .. Len(c) : ~ Own(s, c[i]),
         HandEnds(s, [hand |-> h, mine |-> x], c, [hand |-> H, mine |-> x])
  PROVE  HandEnds(s, [hand |-> h, mine |-> y], c, [hand |-> H, mine |-> y])
<1> DEFINE N == Len(c)
<1>1. N \in Nat
  OBVIOUS
<1> HIDE DEF N
<1>2. ASSUME NEW g, HandReading(g, s, [hand |-> h, mine |-> y], c)
      PROVE  g[N] = [hand |-> H, mine |-> y]
  <2> DEFINE e == [n \in 0 .. N |-> [hand |-> g[n].hand, mine |-> x]]
  <2>1. g[0] = [hand |-> h, mine |-> y] /\ \A n \in 1 .. N : g[n] = Kept(g[n - 1], s, c[n])
    BY <1>2 DEF HandReading, N
  <2>2. \A n \in 0 .. N : e[n] = [hand |-> g[n].hand, mine |-> x]
    OBVIOUS
  <2> HIDE DEF e
  <2>3. \A n \in 1 .. N : n \in 0 .. N /\ n - 1 \in 0 .. N
    BY <1>1
  <2>4. HandReading(e, s, [hand |-> h, mine |-> x], c)
    <3>1. e[0] = [hand |-> h, mine |-> x]
      BY <1>1, <2>1, <2>2
    <3>2. ASSUME NEW n \in 1 .. N PROVE e[n] = Kept(e[n - 1], s, c[n])
      <4>1. e[n] = [hand |-> g[n].hand, mine |-> x] /\ e[n - 1] = [hand |-> g[n - 1].hand, mine |-> x]
        BY <2>2, <2>3
      <4>2. ~ Own(s, c[n])
        BY <3>2 DEF N
      <4>3. g[n].hand = IF c[n].type = "DEAL" THEN c[n].cards ELSE g[n - 1].hand
        BY <2>1, <4>2, KeptFacts
      <4> QED
        BY <4>1, <4>2, <4>3 DEF Kept
    <3> QED
      BY <3>1, <3>2 DEF HandReading, N
  <2>5. e[N] = [hand |-> H, mine |-> x]
    BY <2>4 DEF HandEnds, N
  <2>6. g[N].hand = H
    <3>1. N \in 0 .. N
      BY <1>1
    <3>2. [hand |-> g[N].hand, mine |-> x] = [hand |-> H, mine |-> x]
      BY <2>2, <2>5, <3>1
    <3> DEFINE k == g[N].hand
    <3> HIDE DEF k
    <3>3. [hand |-> k, mine |-> x] = [hand |-> H, mine |-> x]
      BY <3>2 DEF k
    <3>4. k = H
      BY <3>3
    <3> QED
      BY <3>4 DEF k
  <2>7. g[N] = [hand |-> g[N].hand, mine |-> y]
    BY <1>2, MineStays DEF N
  <2> QED
    BY <2>6, <2>7
<1> QED
  BY <1>2 DEF HandEnds, N

\* Of a player who made no choice while an earlier one was on its way, every
\* choice on its way to the server is the last one, and the hand will be what
\* the server holds once the messages have arrived.
ChoicesKnown(s) ==
  \A i \in 1 .. Len(requests[s]) :
    requests[s][i].type = "PLAY" => requests[s][i].cards = screen[s].mine
HandKnown(s) ==
  dealt[s] => HandEnds(s, Held(screen[s]), chan[s],
                       [hand |-> hands[s], mine |-> screen[s].mine])
HandsRight ==
  /\ ScreensRight
  /\ \A s \in Seat : ~ rushed[s] => ChoicesKnown(s) /\ HandKnown(s)

LEMMA ChoicesTail ==
  ASSUME TableTypeOK, NEW s \in Seat, requests[s] # <<>>, screen' = screen,
         requests' = [requests EXCEPT ![s] = Tail(@)], NEW t \in Seat, ChoicesKnown(t)
  PROVE  ChoicesKnown(t)'
<1>1. requests \in [Seat -> Seq(Request)] /\ requests[t] \in Seq(Request)
  BY ChannelTypes DEF TableTypeOK
<1> HIDE DEF Request
<1>2. CASE t = s
  <2>1. requests'[t] = Tail(requests[t]) /\ requests[t] # <<>>
    BY <1>1, <1>2
  <2>2. /\ Len(requests[t]) = Len(Tail(requests[t])) + 1 /\ Len(Tail(requests[t])) \in Nat
        /\ \A i \in 1 .. Len(Tail(requests[t])) : Tail(requests[t])[i] = requests[t][i + 1]
    BY <1>1, <2>1, TailFacts
  <2>3. \A i \in 1 .. Len(Tail(requests[t])) : i + 1 \in 1 .. Len(requests[t])
    BY <2>2
  <2> QED
    BY <2>1, <2>2, <2>3 DEF ChoicesKnown
<1>3. CASE t # s
  BY <1>1, <1>3 DEF ChoicesKnown
<1> QED
  BY <1>2, <1>3

\* A message that neither deals nor says what s played leaves the hand of s.
LEMMA NoHandNews ==
  ASSUME NEW s \in Seat, NEW H, NEW x, NEW m \in ToPlayer, m.type # "DEAL", ~ Own(s, m)
  PROVE  Kept([hand |-> H, mine |-> x], s, m) = [hand |-> H, mine |-> x]
BY DEF Kept

\* One message is sent to s, or a second one that says nothing of hands.
LEMMA HandSendOne ==
  ASSUME TableTypeOK, NEW s \in Seat, NEW m \in ToPlayer, chan'[s] = chan[s] \o <<m>>,
         NEW q, HandEnds(s, Held(screen[s]), chan[s], q)
  PROVE  HandEnds(s, Held(screen[s]), chan'[s], Kept(q, s, m))
<1>1. chan[s] \in Seq(ToPlayer)
  BY ChannelTypes
<1>2. chan'[s] = Append(chan[s], m)
  <2> HIDE DEF ToPlayer
  <2> QED
    BY <1>1
<1> QED
  BY <1>1, <1>2, AppendHand

LEMMA HandSendTwo ==
  ASSUME TableTypeOK, NEW s \in Seat, NEW m \in ToPlayer, NEW n \in ToPlayer,
         chan'[s] = chan[s] \o <<m, n>>,
         NEW q, HandEnds(s, Held(screen[s]), chan[s], q)
  PROVE  HandEnds(s, Held(screen[s]), chan'[s], Kept(Kept(q, s, m), s, n))
<1>1. chan[s] \in Seq(ToPlayer)
  BY ChannelTypes
<1>2. chan'[s] = Append(Append(chan[s], m), n) /\ Append(chan[s], m) \in Seq(ToPlayer)
  <2> HIDE DEF ToPlayer
  <2> QED
    BY <1>1
<1>3. HandEnds(s, Held(screen[s]), Append(chan[s], m), Kept(q, s, m))
  BY <1>1, AppendHand
<1> QED
  BY <1>2, <1>3, AppendHand

\* The cards of a new game are what will be held.
LEMMA HandStart ==
  ASSUME ScreensRight, TypeOK', NEW s \in Seat, AllReady(user'), OnGameStart,
         Send(ReadyMsgs(s, [t \in Seat |-> <<DealTo(t)>>])), NEW t \in Seat
  PROVE  HandEnds(t, Held(screen[t]), chan'[t],
                  [hand |-> hands'[t], mine |-> screen[t].mine])
<1>1. cur' \in Seat /\ user'[t] = "READY" /\ hands' \in [Seat -> SUBSET Card]
  BY DEF OnGameStart, AllReady, TypeOK
<1>2. DealTo(t) \in ToPlayer /\ DealTo(t).type = "DEAL" /\ DealTo(t).cards = hands'[t]
  BY <1>1 DEF DealTo, ToPlayer
<1>3. ReadyNews \in ToPlayer
  BY DEF ReadyNews, ToPlayer
<1>4. chan'[t] = chan[t] \o (IF t = s THEN <<ReadyNews>> \o <<DealTo(t)>> ELSE <<DealTo(t)>>)
  BY <1>1 DEF Send, ReadyMsgs, ReadyNews
<1>5. chan[t] \in Seq(ToPlayer)
  BY ChannelTypes DEF ScreensRight
<1> HIDE DEF ToPlayer
<1>6. <<ReadyNews>> \o <<DealTo(t)>> = <<ReadyNews, DealTo(t)>>
  BY <1>2, <1>3, TwoInARow, Zenon
<1>7. \/ chan'[t] = Append(Append(chan[t], ReadyNews), DealTo(t))
      \/ chan'[t] = Append(chan[t], DealTo(t))
  <2> DEFINE deal == DealTo(t)
  <2>1. /\ deal \in ToPlayer
        /\ chan'[t] = chan[t] \o <<ReadyNews, deal>> \/ chan'[t] = chan[t] \o <<deal>>
    BY <1>2, <1>4, <1>6
  <2> HIDE DEF deal
  <2>2. \/ chan'[t] = Append(Append(chan[t], ReadyNews), deal)
        \/ chan'[t] = Append(chan[t], deal)
    <3>1. chan[t] \o <<ReadyNews, deal>> = Append(Append(chan[t], ReadyNews), deal)
      BY <1>3, <1>5, <2>1
    <3>2. chan[t] \o <<deal>> = Append(chan[t], deal)
      BY <1>5, <2>1
    <3> QED
      BY <2>1, <3>1, <3>2
  <2> QED
    BY <2>2 DEF deal
<1>8. Append(chan[t], ReadyNews) \in Seq(ToPlayer)
  BY <1>3, <1>5
<1>9. Held(screen[t]) = [hand |-> screen[t].hand, mine |-> screen[t].mine]
  BY DEF Held
<1> QED
  BY <1>2, <1>5, <1>7, <1>8, <1>9, DealtHand

\* A call says nothing of hands.
LEMMA HandGrab ==
  ASSUME ScreensRight, NEW s \in Seat, NEW g \in Int, Grab(s, g, timer),
         Send([t \in Seat |-> out']), UNCHANGED <<user, dealt, screen>>,
         NEW t \in Seat, user[t] # "none", HandKnown(t)
  PROVE  HandKnown(t)'
<1>1. /\ cur = s /\ NextSeat(cur) \in Seat /\ chan'[t] = chan[t] \o out'
      /\ hands' = hands
  BY SeatArithmetic DEF Grab, Send
<1>2. HighOf(g) \in Int /\ (HighOf(g) = 3 \/ TopOf(s, g) < NoSeat => TopOf(s, g) \in Seat)
  <2>1. maxGrade \in Int /\ who \in Seat \cup {NoSeat} /\ (who = NoSeat => maxGrade = 0)
    BY DEF ScreensRight, TypeOK
  <2>2. Int8(g) \in Int
    BY Int8Range
  <2> QED
    BY <2>1, <2>2 DEF HighOf, TopOf, Seat, NoSeat, PLAYER_COUNT
<1>3. \E m \in ToPlayer : out' = <<m>> /\ m.type \in {"GRAB_DONE", "OVER", "GRAB"}
  <2>1. CASE (HighOf(g) = 3 \/ TopOf(s, g) < NoSeat) /\ GrabDone(TopOf(s, g), HighOf(g))
    BY <1>2, <2>1, MessageShapes DEF GrabDone, GrabDoneMsg
  <2>2. CASE NobodyCalls(TopOf(s, g), HighOf(g), timer)
    BY <2>2 DEF NobodyCalls, OverMsg, ToPlayer, Message
  <2>3. CASE NextCalls(g, TopOf(s, g), HighOf(g))
    BY <1>1, <2>3, MessageShapes DEF NextCalls, GrabMsg
  <2> QED
    BY <2>1, <2>2, <2>3 DEF Grab, HighOf, TopOf
<1>4. PICK m \in ToPlayer : out' = <<m>> /\ m.type \in {"GRAB_DONE", "OVER", "GRAB"}
  BY <1>3
<1>5. m.type # "DEAL" /\ ~ Own(t, m)
  BY <1>4 DEF Own
<1> HIDE DEF ToPlayer
<1> SUFFICES ASSUME dealt[t]
             PROVE  HandEnds(t, Held(screen[t]), chan'[t], [hand |-> hands[t], mine |-> screen[t].mine])
  BY <1>1 DEF HandKnown
<1>6. HandEnds(t, Held(screen[t]), chan[t], [hand |-> hands[t], mine |-> screen[t].mine])
  BY DEF HandKnown
<1>7. TableTypeOK /\ chan'[t] = chan[t] \o <<m>>
  BY <1>1, <1>4 DEF ScreensRight
<1>8. HandEnds(t, Held(screen[t]), chan'[t],
               Kept([hand |-> hands[t], mine |-> screen[t].mine], t, m))
  BY <1>6, <1>7, HandSendOne
<1> QED
  BY <1>5, <1>8, NoHandNews

\* What is played leaves the hand of the player and the screen, which removes
\* the cards chosen last: they are the same.
LEMMA HandPlay ==
  ASSUME ScreensRight, NEW s \in Seat, NEW S \in SUBSET Card, HandlePlay(s, S),
         Send([t \in Seat |-> out']), UNCHANGED <<user, dealt, screen>>,
         NEW t \in Seat, user[t] # "none", HandKnown(t), t = s => S = screen[s].mine
  PROVE  HandKnown(t)'
<1> DEFINE m == PlayMsg(s, S)
           q == [hand |-> hands[t], mine |-> screen[t].mine]
           r == [hand |-> hands'[t], mine |-> screen[t].mine]
<1>1. chan'[t] = chan[t] \o out' /\ m \in ToPlayer /\ OverMsg \in ToPlayer
  <2>1. chan'[t] = chan[t] \o out'
    BY DEF Send
  <2>2. m \in ToPlayer
    BY MessageShapes
  <2>3. OverMsg \in ToPlayer
    BY DEF OverMsg, ToPlayer, Message
  <2> QED
    BY <2>1, <2>2, <2>3
<1>2. out' = <<m>> \/ out' = <<m, OverMsg>>
  BY DEF HandlePlay, Pass, PlayCards
<1>3. /\ m.type = "PLAY" /\ m.who = s /\ m.cards = S
      /\ OverMsg.type = "OVER" /\ ~ Own(t, OverMsg)
  BY DEF PlayMsg, OverMsg, Own
<1>4. Kept(q, t, m) = r
  <2>1. CASE Own(t, m)
    <3>1. t = s /\ S # {} /\ screen[t].mine = S
      BY <1>3, <2>1 DEF Own
    <3>2. hands'[t] = hands[t] \ S
      BY <3>1 DEF HandlePlay, PlayCards, RmCards, ScreensRight, TypeOK
    <3> QED
      BY <1>3, <2>1, <3>1, <3>2 DEF Kept
  <2>2. CASE ~ Own(t, m)
    <3>1. t # s \/ S = {}
      BY <1>3, <2>2 DEF Own
    <3>2. hands'[t] = hands[t]
      BY <3>1 DEF HandlePlay, Pass, PlayCards, RmCards, ScreensRight, TypeOK
    <3> QED
      BY <1>3, <2>2, <3>2 DEF Kept
  <2> QED
    BY <2>1, <2>2
<1>5. Kept(r, t, OverMsg) = r
  BY <1>1, <1>3, NoHandNews
<1> SUFFICES ASSUME dealt[t] PROVE HandEnds(t, Held(screen[t]), chan'[t], r)
  BY DEF HandKnown
<1>6. HandEnds(t, Held(screen[t]), chan[t], q)
  BY DEF HandKnown
<1> HIDE DEF ToPlayer, m, q, r
<1> QED
  BY <1>1, <1>2, <1>4, <1>5, <1>6, HandSendOne, HandSendTwo DEF ScreensRight

LEMMA HandReceive ==
  ASSUME HandsRight, ScreensRight', NEW s \in Seat, Receive(s)
  PROVE  HandsRight'
<1>1. /\ screen' = screen /\ TypeOK /\ TableTypeOK /\ ScreensRight /\ TypeOK' /\ TableTypeOK'
      /\ requests[s] # <<>> /\ requests' = [requests EXCEPT ![s] = Tail(@)]
  BY DEF Receive, HandsRight, ScreensRight
<1> DEFINE r == Head(requests[s])
<1>2. r \in Request /\ (HandleReady(s) \/ HandleGame(s, r))
  BY <1>1, ChannelTypes DEF Receive
<1>3. ASSUME NEW t \in Seat, ~ rushed[t] PROVE ChoicesKnown(t)'
  BY <1>1, <1>3, ChoicesTail DEF HandsRight
<1>4. ASSUME NEW t \in Seat, user'[t] = "none" PROVE HandKnown(t)'
  BY <1>1, <1>4 DEF HandKnown, TableTypeOK
<1>5. ~ rushed[s] /\ r.type = "PLAY" => r.cards = screen[s].mine
  <2>1. requests[s] \in Seq(Request)
    BY <1>1, ChannelTypes
  <2>2. r = requests[s][1] /\ 1 \in 1 .. Len(requests[s])
    <3> HIDE DEF Request
    <3> QED
      BY <1>1, <2>1
  <2> QED
    BY <2>2 DEF HandsRight, ChoicesKnown
<1> HIDE DEF r
<1>6. CASE HandleReady(s) /\ AllReady(user')
  <2>1. /\ OnGameStart /\ Send(ReadyMsgs(s, [t \in Seat |-> <<DealTo(t)>>]))
        /\ rushed' = [t \in Seat |-> rushed[t] /\ requests'[t] # <<>>]
    BY <1>6 DEF HandleReady
  <2>2. ASSUME NEW t \in Seat, ~ rushed'[t] PROVE ChoicesKnown(t)' /\ HandKnown(t)'
    <3>1. HandKnown(t)'
      BY <1>1, <1>6, <2>1, HandStart DEF HandKnown
    <3>2. CASE ~ rushed[t]
      BY <1>3, <3>1, <3>2
    <3>3. CASE rushed[t]
      <4>1. requests'[t] = <<>>
        BY <2>1, <2>2, <3>3
      <4>2. 1 .. Len(requests'[t]) = {}
        BY <4>1
      <4> QED
        BY <3>1, <4>2 DEF ChoicesKnown
    <3> QED
      BY <3>2, <3>3
  <2> QED
    BY <2>2 DEF HandsRight
<1>7. CASE HandleReady(s) /\ ~AllReady(user')
  <2>1. /\ Send(ReadyMsgs(s, [t \in Seat |-> <<>>])) /\ UNCHANGED <<vars, dealt, rushed>>
    BY <1>7 DEF HandleReady
  <2>2. hands' = hands
    BY <2>1 DEF vars
  <2>3. ASSUME NEW t \in Seat, HandKnown(t), user'[t] # "none" PROVE HandKnown(t)'
    <3>1. chan'[t] = chan[t] \o (IF t = s THEN <<ReadyNews>> \o <<>> ELSE <<>>)
      BY <2>1, <2>3 DEF Send, ReadyMsgs, ReadyNews
    <3>2. ReadyNews \in ToPlayer /\ ReadyNews.type # "DEAL" /\ ~ Own(t, ReadyNews)
      BY DEF ReadyNews, ToPlayer, Own
    <3>3. chan[t] \in Seq(ToPlayer) /\ <<ReadyNews>> \o <<>> = <<ReadyNews>>
      BY <1>1, ChannelTypes
    <3> HIDE DEF ToPlayer
    <3>4. chan'[t] = chan[t] \/ chan'[t] = chan[t] \o <<ReadyNews>>
      <4>1. CASE t = s
        BY <3>1, <3>3, <4>1
      <4>2. CASE t # s
        <5>1. chan'[t] = chan[t] \o <<>>
          BY <3>1, <4>2
        <5> QED
          BY <3>3, <5>1
      <4> QED
        BY <4>1, <4>2
    <3> SUFFICES ASSUME dealt[t]
                 PROVE  HandEnds(t, Held(screen[t]), chan'[t],
                                 [hand |-> hands[t], mine |-> screen[t].mine])
      BY <1>1, <2>1, <2>2 DEF HandKnown
    <3>5. HandEnds(t, Held(screen[t]), chan[t], [hand |-> hands[t], mine |-> screen[t].mine])
      BY <2>3 DEF HandKnown
    <3> QED
      BY <1>1, <3>2, <3>4, <3>5, NoHandNews, HandSendOne
  <2> QED
    BY <1>3, <1>4, <2>1, <2>3 DEF HandsRight
<1>8. CASE HandleGame(s, r)
  <2>1. user' = user /\ dealt' = dealt /\ rushed' = rushed
    BY <1>8 DEF HandleGame
  <2>2. ASSUME NEW t \in Seat, ~ rushed[t], user[t] # "none" PROVE HandKnown(t)'
    <3>1. HandKnown(t)
      BY <2>2 DEF HandsRight
    <3>2. CASE UNCHANGED vars /\ UNCHANGED chan
      BY <1>1, <2>1, <3>1, <3>2 DEF HandKnown, vars
    <3>3. CASE /\ r.grade \in Grades /\ Grab(s, r.grade, timer)
               /\ Send([q \in Seat |-> out'])
      <4>1. r.grade \in Int
        BY <3>3, GradesAssumption
      <4> QED
        BY <1>1, <2>1, <2>2, <3>1, <3>3, <4>1, HandGrab
    <3>4. CASE /\ r.type = "PLAY" /\ r.cards \in SUBSET Card /\ HandlePlay(s, r.cards)
               /\ Send([q \in Seat |-> out'])
      <4>1. t = s => r.cards = screen[s].mine
        BY <1>5, <2>2, <3>4
      <4> QED
        BY <1>1, <2>1, <2>2, <3>1, <3>4, <4>1, HandPlay
    <3> QED
      BY <1>1, <1>2, <1>8, <3>2, <3>3, <3>4, GameSteps
  <2> QED
    BY <1>3, <1>4, <2>1, <2>2 DEF HandsRight
<1> QED
  BY <1>2, <1>6, <1>7, <1>8

LEMMA HandDeliver ==
  ASSUME HandsRight, ScreensRight', NEW s \in Seat, Deliver(s)
  PROVE  HandsRight'
<1>1. /\ UNCHANGED <<vars, requests, dealt, rushed>> /\ TableTypeOK /\ chan[s] # <<>>
      /\ screen' = [screen EXCEPT ![s] = Shown(@, s, Head(chan[s]))]
      /\ chan' = [chan EXCEPT ![s] = Tail(@)]
  BY DEF Deliver, HandsRight, ScreensRight
<1>2. chan[s] \in Seq(ToPlayer) /\ Head(chan[s]) \in ToPlayer /\ screen[s] \in Screen
  BY <1>1, ChannelTypes DEF TableTypeOK
<1>3. /\ screen'[s] = Shown(screen[s], s, Head(chan[s])) /\ chan'[s] = Tail(chan[s])
      /\ \A t \in Seat : t # s => screen'[t] = screen[t] /\ chan'[t] = chan[t]
  BY <1>1 DEF TableTypeOK
<1>4. Held(screen'[s]) = Kept(Held(screen[s]), s, Head(chan[s]))
  BY <1>2, <1>3, HandOf
<1>5. screen'[s].mine = screen[s].mine
  BY <1>4 DEF Held, Kept
<1>6. ASSUME NEW t \in Seat, ~ rushed[t] PROVE ChoicesKnown(t)' /\ HandKnown(t)'
  <2>1. ChoicesKnown(t) /\ HandKnown(t) /\ hands' = hands
    BY <1>1, <1>6 DEF HandsRight, vars
  <2>2. CASE t # s
    BY <1>1, <1>3, <2>1, <2>2 DEF ChoicesKnown, HandKnown
  <2>3. CASE t = s
    <3>1. ChoicesKnown(s)'
      BY <1>1, <1>5, <2>1, <2>3 DEF ChoicesKnown
    <3>2. HandKnown(s)'
      BY <1>1, <1>2, <1>3, <1>4, <1>5, <2>1, <2>3, TailHand DEF HandKnown
    <3> QED
      BY <2>3, <3>1, <3>2
  <2> QED
    BY <2>2, <2>3
<1> QED
  BY <1>1, <1>6 DEF HandsRight

\* A choice that is made when no other one is on its way is the only one.
LEMMA HandChoose ==
  ASSUME HandsRight, ScreensRight', NEW s \in Seat, NEW S, OnTouchPutCard(s, S)
  PROVE  HandsRight'
<1> DEFINE req == [type |-> "PLAY", cards |-> S]
<1>1. /\ UNCHANGED <<vars, chan, dealt>> /\ TableTypeOK
      /\ requests' = [requests EXCEPT ![s] = Append(@, req)]
      /\ screen' = [screen EXCEPT ![s].mine = S]
      /\ rushed' = [rushed EXCEPT ![s] = @ \/ Pending(s)]
  BY DEF OnTouchPutCard, Press, HandsRight, ScreensRight
<1>2. /\ screen'[s] = [screen[s] EXCEPT !.mine = S] /\ requests'[s] = Append(requests[s], req)
      /\ rushed'[s] = (rushed[s] \/ Pending(s)) /\ screen[s] \in Screen
      /\ \A t \in Seat : t # s => /\ screen'[t] = screen[t] /\ requests'[t] = requests[t]
                                  /\ rushed'[t] = rushed[t]
  BY <1>1 DEF TableTypeOK
<1>3. screen'[s].mine = S /\ Held(screen'[s]) = [hand |-> screen[s].hand, mine |-> S]
  BY <1>2 DEF Held, Screen
<1>4. requests[s] \in Seq(Request) /\ chan[s] \in Seq(ToPlayer)
  BY <1>1, ChannelTypes
<1>5. ASSUME ~ rushed'[s] PROVE ChoicesKnown(s)'
  <2>1. ~ Pending(s)
    BY <1>2, <1>5
  <2>2. \A i \in 1 .. Len(requests[s]) : requests[s][i].type # "PLAY"
    <3>1. DOMAIN requests[s] = 1 .. Len(requests[s])
      <4> HIDE DEF Request
      <4> QED
        BY <1>4
    <3> QED
      BY <2>1, <3>1 DEF Pending
  <2> DEFINE D == Request \cup {req}
  <2>3. requests[s] \in Seq(D) /\ req \in D
    <3> HIDE DEF Request, req
    <3> QED
      BY <1>4
  <2> HIDE DEF D
  <2>4. /\ Len(Append(requests[s], req)) = Len(requests[s]) + 1 /\ Len(requests[s]) \in Nat
        /\ Append(requests[s], req)[Len(requests[s]) + 1] = req
        /\ \A i \in 1 .. Len(requests[s]) : Append(requests[s], req)[i] = requests[s][i]
    <3> HIDE DEF req
    <3> QED
      BY <2>3, AppendFacts
  <2>5. req.cards = S
    OBVIOUS
  <2> HIDE DEF req
  <2>6. ASSUME NEW i \in 1 .. Len(requests'[s]), requests'[s][i].type = "PLAY"
        PROVE  requests'[s][i].cards = S
    <3>1. i \in 1 .. Len(requests[s]) \/ i = Len(requests[s]) + 1
      BY <1>2, <2>4
    <3> QED
      BY <1>2, <2>2, <2>4, <2>5, <2>6, <3>1
  <2> QED
    BY <1>3, <2>6 DEF ChoicesKnown
<1>6. ASSUME ~ rushed'[s] PROVE HandKnown(s)'
  <2>1. ~ Pending(s) /\ ~ rushed[s]
    BY <1>2, <1>6
  <2>2. \A i \in 1 .. Len(chan[s]) : ~ Own(s, chan[s][i])
    <3>1. DOMAIN chan[s] = 1 .. Len(chan[s])
      <4> HIDE DEF ToPlayer
      <4> QED
        BY <1>4
    <3> QED
      BY <2>1, <3>1 DEF Pending, Own
  <2> SUFFICES ASSUME dealt[s]
               PROVE  HandEnds(s, [hand |-> screen[s].hand, mine |-> S], chan[s],
                               [hand |-> hands[s], mine |-> S])
    BY <1>1, <1>3 DEF HandKnown, vars
  <2>3. HandEnds(s, [hand |-> screen[s].hand, mine |-> screen[s].mine], chan[s],
                 [hand |-> hands[s], mine |-> screen[s].mine])
    BY <2>1 DEF HandsRight, HandKnown, Held
  <2> QED
    BY <1>4, <2>2, <2>3, ChooseHand
<1>7. ASSUME NEW t \in Seat, t # s, ~ rushed'[t] PROVE ChoicesKnown(t)' /\ HandKnown(t)'
  <2>1. ChoicesKnown(t) /\ HandKnown(t) /\ hands' = hands
    BY <1>1, <1>2, <1>7 DEF HandsRight, vars
  <2> QED
    BY <1>1, <1>2, <1>7, <2>1 DEF ChoicesKnown, HandKnown
<1> QED
  BY <1>5, <1>6, <1>7 DEF HandsRight

\* The other buttons are not choices.
LEMMA HandPress ==
  ASSUME HandsRight, ScreensRight', NEW s \in Seat, NEW r \in Request, r.type # "PLAY",
         Press(s, r), UNCHANGED <<screen, rushed>>
  PROVE  HandsRight'
<1>1. /\ UNCHANGED <<vars, chan, dealt, screen, rushed>> /\ TableTypeOK
      /\ requests' = [requests EXCEPT ![s] = Append(@, r)]
  BY DEF Press, HandsRight, ScreensRight
<1>2. ASSUME NEW t \in Seat, ~ rushed[t] PROVE ChoicesKnown(t)' /\ HandKnown(t)'
  <2>1. ChoicesKnown(t) /\ HandKnown(t) /\ hands' = hands
    BY <1>1, <1>2 DEF HandsRight, vars
  <2>2. HandKnown(t)'
    BY <1>1, <2>1 DEF HandKnown
  <2>3. CASE t # s
    BY <1>1, <2>1, <2>2, <2>3 DEF ChoicesKnown, TableTypeOK
  <2>4. CASE t = s
    <3>1. requests'[s] = Append(requests[s], r)
      BY <1>1 DEF TableTypeOK
    <3>2. requests[s] \in Seq(Request)
      BY <1>1, ChannelTypes
    <3> HIDE DEF Request
    <3>3. /\ Len(requests'[s]) = Len(requests[s]) + 1 /\ Len(requests[s]) \in Nat
          /\ requests'[s][Len(requests[s]) + 1] = r
          /\ \A i \in 1 .. Len(requests[s]) : requests'[s][i] = requests[s][i]
      BY <3>1, <3>2, AppendFacts
    <3>4. ASSUME NEW i \in 1 .. Len(requests'[s]), requests'[s][i].type = "PLAY"
          PROVE  requests'[s][i].cards = screen[s].mine
      <4>1. i \in 1 .. Len(requests[s]) \/ i = Len(requests[s]) + 1
        BY <3>3
      <4> QED
        BY <2>1, <2>4, <3>3, <3>4, <4>1 DEF ChoicesKnown
    <3> QED
      BY <1>1, <2>2, <2>4, <3>4 DEF ChoicesKnown
  <2> QED
    BY <2>3, <2>4
<1> QED
  BY <1>1, <1>2 DEF HandsRight

LEMMA HandNext == HandsRight /\ [TableNext]_tableVars => HandsRight'
<1> SUFFICES ASSUME HandsRight, [TableNext]_tableVars PROVE HandsRight'
  OBVIOUS
<1>1. ScreensRight'
  BY ScreensNext DEF HandsRight
<1>2. CASE UNCHANGED tableVars
  <2>1. UNCHANGED <<chan, screen, requests, dealt, rushed, hands>>
    BY <1>2 DEF tableVars, vars
  <2> QED
    BY <1>1, <2>1 DEF HandsRight, ChoicesKnown, HandKnown
<1>3. ASSUME NEW s \in Seat, Sit(s) PROVE HandsRight'
  <2>1. UNCHANGED <<chan, screen, requests, dealt, rushed, hands>>
    BY <1>3 DEF Sit, vars
  <2> QED
    BY <1>1, <2>1 DEF HandsRight, ChoicesKnown, HandKnown
<1>4. ASSUME NEW s \in Seat, Leave(s) PROVE HandsRight'
  <2>1. /\ requests'[s] = <<>> /\ ~ dealt'[s] /\ hands' = hands
        /\ \A t \in Seat : t # s => /\ requests'[t] = requests[t] /\ chan'[t] = chan[t]
                                    /\ screen'[t] = screen[t] /\ dealt'[t] = dealt[t]
                                    /\ rushed'[t] = rushed[t]
    BY <1>4 DEF Leave, vars, HandsRight, ScreensRight, TableTypeOK
  <2>2. 1 .. Len(requests'[s]) = {}
    BY <2>1
  <2>3. ChoicesKnown(s)' /\ HandKnown(s)'
    BY <2>1, <2>2 DEF ChoicesKnown, HandKnown
  <2>4. ASSUME NEW t \in Seat, t # s, ~ rushed'[t] PROVE ChoicesKnown(t)' /\ HandKnown(t)'
    BY <2>1, <2>4 DEF HandsRight, ChoicesKnown, HandKnown
  <2> QED
    BY <1>1, <2>3, <2>4 DEF HandsRight
<1>5. ASSUME NEW s \in Seat, OnTouchReady(s) PROVE HandsRight'
  <2>1. [type |-> "READY"] \in Request
    BY DEF Request
  <2> QED
    BY <1>1, <1>5, <2>1, HandPress DEF OnTouchReady
<1>6. ASSUME NEW s \in Seat, NEW g \in Grades, OnTouchCallLord(s, g) PROVE HandsRight'
  <2>1. [type |-> "GRAB", grade |-> g] \in Request
    BY DEF Request
  <2> QED
    BY <1>1, <1>6, <2>1, HandPress DEF OnTouchCallLord
<1> QED
  BY <1>1, <1>2, <1>3, <1>4, <1>5, <1>6, HandReceive, HandDeliver, HandChoose DEF TableNext

\* The hand of Caught is where a reading of the hands ends.
LEMMA CaughtHand ==
  ASSUME ScreensRight, NEW s \in Seat, NEW H, NEW x,
         HandEnds(s, Held(screen[s]), chan[s], [hand |-> H, mine |-> x])
  PROVE  Caught(s).hand = H
<1> DEFINE c == chan[s]
           N == Len(c)
<1>1. N \in Nat /\ \A n \in 1 .. N : c[n] \in ToPlayer
  BY CaughtReading
<1>2. PICK f : /\ Caught(s) = f[N] /\ f[0] = screen[s] /\ \A n \in 0 .. N : f[n] \in Screen
               /\ \A n \in 1 .. N : f[n] = Shown(f[n - 1], s, c[n])
  BY CaughtReading
<1> DEFINE b == [n \in 0 .. N |-> Held(f[n])]
<1>3. \A n \in 0 .. N : b[n] = Held(f[n])
  OBVIOUS
<1> HIDE DEF b, c, N
<1>4. ASSUME NEW n \in 1 .. N PROVE b[n] = Kept(b[n - 1], s, c[n])
  <2>1. n \in 0 .. N /\ n - 1 \in 0 .. N
    BY <1>1
  <2> QED
    BY <1>1, <1>2, <1>3, <2>1, HandOf
<1>5. 0 \in 0 .. N /\ N \in 0 .. N
  BY <1>1
<1>6. HandReading(b, s, Held(screen[s]), c)
  BY <1>2, <1>3, <1>4, <1>5 DEF HandReading, N
<1>7. Held(Caught(s)) = [hand |-> H, mine |-> x]
  BY <1>2, <1>3, <1>5, <1>6 DEF HandEnds, N, c
<1> QED
  BY <1>7 DEF Held

\* A player who made no choice while an earlier one was on its way sees, once
\* the messages have arrived, the cards it holds (HelloWorldScene.cpp:133-150,
\* 350).
THEOREM TableHandShown == TableSpec => []HandShown
<1>1. TableInit => HandsRight
  <2> SUFFICES ASSUME TableInit PROVE HandsRight
    OBVIOUS
  <2>1. ASSUME NEW s \in Seat PROVE ChoicesKnown(s) /\ HandKnown(s)
    <3>1. requests[s] = <<>> /\ ~ dealt[s]
      BY DEF TableInit
    <3>2. 1 .. Len(requests[s]) = {}
      BY <3>1
    <3> QED
      BY <3>1, <3>2 DEF ChoicesKnown, HandKnown
  <2> QED
    BY <2>1, ScreensInit DEF HandsRight
<1>2. HandsRight => HandShown
  <2> SUFFICES ASSUME HandsRight, NEW s \in Seat, dealt[s], ~ rushed[s]
               PROVE  Caught(s).hand = hands[s]
    BY DEF HandShown
  <2> QED
    BY CaughtHand DEF HandsRight, HandKnown
<1> QED
  BY <1>1, <1>2, HandNext, PTL DEF TableSpec
=============================================================================
