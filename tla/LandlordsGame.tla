--------------------------- MODULE LandlordsGame ---------------------------
(***************************************************************************)
(* The game logic that landlords_module plugs into a table of the server:  *)
(* LandlordsGame with its two states, DealState (deal and call the         *)
(* landlord) and PlayState (play the cards), and the players' hands.       *)
(*                                                                         *)
(* The module is driven by its host through three entries, one action      *)
(* each: OnGameStart, HandleMessage from the user of a seat (here split by *)
(* the message it carries into HandleGrab and HandlePlay), and OnTimeOut   *)
(* of the timer a DealState asks its host for.  A handler runs to its end  *)
(* before the next one starts: the server has one thread.                  *)
(*                                                                         *)
(* A message the code ignores (wrong turn, wrong state, cards not held,    *)
(* not a combination, too low) changes nothing and is a stuttering step.   *)
(* A message before the first OnGameStart is ChessServer's business.       *)
(***************************************************************************)
EXTENDS LandlordsCard, Sequences

CONSTANTS
  Deals,       \* what a shuffle can produce: records [hands, extra]
  Grades,      \* the grades a GrabLandlord message can carry
  TimersFire   \* does the host call back the timers it is asked for?

PLAYER_COUNT == 3
Seat   == 0 .. PLAYER_COUNT - 1
NoSeat == PLAYER_COUNT             \* the code's value for "nobody"

NextSeat(s) == (s + 1) % PLAYER_COUNT

\* No card is in two hands, or in a hand and among the extra cards.
Disjoint(hs, ex) == /\ \A s, t \in Seat : s # t => hs[s] \cap hs[t] = {}
                    /\ \A s \in Seat : hs[s] \cap ex = {}

ASSUME DealsAssumption ==
  \A d \in Deals : /\ d.hands \in [Seat -> SUBSET Card]
                   /\ d.extra \in SUBSET Card
                   /\ Disjoint(d.hands, d.extra)
                   /\ \A s \in Seat : d.hands[s] # {}
ASSUME GradesAssumption == Grades \subseteq Int
ASSUME TimersAssumption == TimersFire \in BOOLEAN

\* max_grade_ is an int8_t, the grade of a message an int32.
Int8(g) == ((g + 128) % 256) - 128

VARIABLES
  phase,      \* game_state_: "none" (null), "deal" or "play"
  hands,      \* players_[s].cards_
  extra,      \* extra_ of either state
  cur,        \* cur_ of either state
  start, maxGrade, who,      \* start_, max_grade_, who_ of DealState
  timer,      \* is a callback of DealState's timer pending?
  master, last, lastCard,    \* master_, last_, last_card_ of PlayState
  out,        \* the messages the last handler sent to the table, in order
  over,       \* history: a MSG_OVER has been sent since the last start
  calls       \* history: the grabs accepted since the last start, to MSG_OVER

dealVars == <<start, maxGrade, who, timer>>
playVars == <<master, last, lastCard>>
vars == <<phase, hands, extra, cur, dealVars, playVars, out, over, calls>>

-----------------------------------------------------------------------------
(* Messages to the table, without the cards of a deal.                     *)

\* Faulty: the message is filled in before the turn is passed on.
GrabMsgOldTurn(g, c) == [type |-> "GRAB", grade |-> g, cur |-> cur]

DealMsg(c)        == [type |-> "DEAL", cur |-> c]
GrabMsg(g, c)     == [type |-> "GRAB", grade |-> g, cur |-> c]
GrabDoneMsg(w, g) == [type |-> "GRAB_DONE", who |-> w, grade |-> g]
PlayMsg(w, S)     == [type |-> "PLAY", who |-> w, cards |-> S]
OverMsg           == [type |-> "OVER"]

\* Faulty: ~DealState does not clear the timer.
NoDealStateTimer == start' = NoSeat /\ maxGrade' = 0 /\ who' = NoSeat /\ timer' = timer
\* The fields of a state object that does not exist hold these values.
NoDealState == start' = NoSeat /\ maxGrade' = 0 /\ who' = NoSeat /\ timer' = FALSE
NoPlayState == master' = NoSeat /\ last' = NoSeat /\ lastCard' = {}

\* Faulty: the old timer is cleared and none is set.
InitGrabTimerCleared == timer' = FALSE
InitGrabTimer == timer' = TimersFire

Init ==
  /\ phase = "none" /\ cur = NoSeat
  /\ hands = [s \in Seat |-> {}] /\ extra = {}
  /\ start = NoSeat /\ maxGrade = 0 /\ who = NoSeat /\ timer = FALSE
  /\ master = NoSeat /\ last = NoSeat /\ lastCard = {}
  /\ out = <<>> /\ over = FALSE /\ calls = <<>>

\* A new DealState replaces whatever state there is, at any time; the host
\* then sends each seat its cards.
OnGameStart ==
  \E d \in Deals, s \in Seat :
    /\ phase' = "deal"
    /\ hands' = d.hands /\ extra' = d.extra
    /\ cur' = s /\ start' = s
    /\ maxGrade' = 0 /\ who' = NoSeat
    /\ InitGrabTimer
    /\ NoPlayState
    /\ out' = <<DealMsg(s)>>
    /\ over' = FALSE /\ calls' = <<>>

-----------------------------------------------------------------------------
(* DealState                                                               *)

\* The calling is over: a PlayState replaces this state, the caller leads.
\* The extra cards are handed to the PlayState and to no player.
GrabDone(top, high) ==
  /\ phase' = "play"
  /\ NoDealState
  /\ master' = top /\ cur' = top /\ last' = NoSeat /\ lastCard' = {}
  /\ out' = <<GrabDoneMsg(top, high)>>
  /\ UNCHANGED over

\* Everybody declined: the game is announced over and the state stays.
NobodyCalls(top, high, pending) ==
  /\ cur' = NextSeat(cur) /\ maxGrade' = high /\ who' = top
  /\ timer' = pending
  /\ out' = <<OverMsg>> /\ over' = TRUE
  /\ UNCHANGED <<phase, start, playVars>>

NextCalls(grade, top, high) ==
  /\ cur' = NextSeat(cur) /\ maxGrade' = high /\ who' = top
  /\ InitGrabTimer
  /\ out' = <<GrabMsg(grade, NextSeat(cur))>>
  /\ UNCHANGED <<phase, start, playVars, over>>

\* Faulty: an equal grade takes the landlord over.
HigherOrEqual(grade) == grade >= maxGrade
Higher(grade) == grade > maxGrade

\* pending: what the timer is if the handler does not touch it.
Grab(seat, grade, pending) ==
  /\ phase = "deal"
  /\ seat = cur
  /\ LET high  == IF Higher(grade) THEN Int8(grade) ELSE maxGrade
         top   == IF Higher(grade) THEN seat ELSE who
         round == NextSeat(cur) = start
         done  == high = 3 \/ (round /\ top < NoSeat)
     IN  \/ done /\ GrabDone(top, high)
         \/ ~done /\ round /\ NobodyCalls(top, high, pending)
         \/ ~done /\ ~round /\ NextCalls(grade, top, high)
  /\ calls' = IF over THEN calls
              ELSE Append(calls, [seat |-> seat, grade |-> grade])
  /\ UNCHANGED <<hands, extra>>

HandleGrab(seat, grade) == Grab(seat, grade, timer)

\* The callback passes for whoever is to call.
OnTimeOut == timer /\ Grab(cur, 0, FALSE)

-----------------------------------------------------------------------------
(* PlayState                                                               *)

\* Faulty: last_ is never reset.
PassTurnKeepsTop(l) == cur' = NextSeat(cur) /\ last' = l
\* The end of HandlePlay, l being last_ by then: when the turn is back at the
\* player of the last cards, that player leads a new trick.
PassTurn(l) == /\ cur'  = NextSeat(cur)
               /\ last' = IF NextSeat(cur) = l THEN NoSeat ELSE l

\* Faulty: the leader of a trick may pass as well.
AnybodyMayPass == TRUE
MayPass == last # NoSeat

Pass(seat) ==
  /\ phase = "play" /\ seat = cur
  /\ MayPass
  /\ out' = <<PlayMsg(seat, {})>>
  /\ PassTurn(last)
  /\ UNCHANGED <<phase, hands, extra, dealVars, master, lastCard, over, calls>>

\* Faulty: rm_cards is forgotten.
RmCardsForgotten(seat, S) == hands
RmCards(seat, S) == [hands EXCEPT ![seat] = @ \ S]

\* Faulty: no_cards is asked before rm_cards.
NoCardsBefore(seat, S) == hands[seat] = {}
NoCards(seat, S) == hands[seat] = S     \* after rm_cards, S being held

PlayCards(seat, S) ==
  /\ phase = "play" /\ seat = cur
  /\ S # {} /\ S \subseteq hands[seat]
  /\ IsValid(S)
  /\ last # NoSeat => Beats(S, lastCard)
  /\ lastCard' = S
  /\ hands' = RmCards(seat, S)
  /\ out' = IF NoCards(seat, S) THEN <<PlayMsg(seat, S), OverMsg>>
                                ELSE <<PlayMsg(seat, S)>>
  /\ over' = (over \/ NoCards(seat, S))
  /\ PassTurn(seat)
  /\ UNCHANGED <<phase, extra, dealVars, master, calls>>

HandlePlay(seat, S) == \/ S = {} /\ Pass(seat)
                       \/ PlayCards(seat, S)

-----------------------------------------------------------------------------
Calls == \E s \in Seat, g \in Grades : HandleGrab(s, g)
Plays == \E s \in Seat : \E S \in SUBSET hands[s] : HandlePlay(s, S)

Next == OnGameStart \/ Calls \/ OnTimeOut \/ Plays

Spec == Init /\ [][Next]_vars

-----------------------------------------------------------------------------
(* Safety                                                                  *)

Message ==      [type : {"DEAL"}, cur : Seat]
           \cup [type : {"GRAB"}, grade : Int, cur : Seat]
           \cup [type : {"GRAB_DONE"}, who : Seat, grade : Int]
           \cup [type : {"PLAY"}, who : Seat, cards : SUBSET Card]
           \cup [type : {"OVER"}]

\* The variables have their types, and a state object that does not exist
\* leaves no value behind.
TypeOK ==
  /\ phase \in {"none", "deal", "play"}
  /\ hands \in [Seat -> SUBSET Card] /\ extra \in SUBSET Card
  /\ cur \in Seat \cup {NoSeat} /\ (phase # "none" => cur \in Seat)
  /\ start \in Seat \cup {NoSeat} /\ (phase = "deal" => start \in Seat)
  /\ maxGrade \in -128..127
  /\ who \in Seat \cup {NoSeat} /\ (who = NoSeat => maxGrade = 0)
  /\ timer \in BOOLEAN /\ (timer => phase = "deal")
  /\ master \in Seat \cup {NoSeat} /\ (phase = "play" => master \in Seat)
  /\ last \in Seat \cup {NoSeat} /\ (phase # "play" => last = NoSeat)
  /\ lastCard \in SUBSET Card
  /\ out \in Seq(Message) /\ over \in BOOLEAN
  /\ calls \in Seq([seat : Seat, grade : Int])

\* A card is in one place at a time: a hand, the extra cards or the last
\* combination on the table (Deal, DealState.cpp:59-80; rm_cards in HandlePlay,
\* PlayState.cpp:60-61).
NoSharedCard == /\ Disjoint(hands, extra)
                /\ Disjoint(hands, lastCard)

\* The seats that called the most, and the first of them to do so.
Called(i) == calls[i].grade > 0
First(i)  == /\ Called(i)
             /\ \A j \in DOMAIN calls : calls[j].grade <= calls[i].grade
             /\ \A j \in 1 .. i - 1 : calls[j].grade < calls[i].grade

\* Until the game is announced over, every seat calls at most once and in turn
\* from the starting seat, and the landlord is the first of those who called
\* the most, with that call announced; while the calling lasts nobody has
\* called 3 (DealState.cpp:83-113).
TopCall ==
  ~over =>
    /\ Len(calls) <= PLAYER_COUNT
    /\ \A i \in DOMAIN calls :
         \A j \in DOMAIN calls : calls[j].seat = (calls[i].seat + j - i + 3) % 3
    /\ phase = "deal" =>
         /\ \A i \in DOMAIN calls : calls[i].grade # 3
         /\ calls # <<>> => cur # start /\ calls[1].seat = start
    /\ phase = "play" =>
         \E i \in DOMAIN calls : First(i) /\ calls[i].seat = master

\* What a client shows as the seat to act, from the message it received last
\* (HelloWorldScene.cpp:269-363): MSG_OVER leaves it as it was.
TurnTold(m) == CASE m.type \in {"DEAL", "GRAB"} -> m.cur
                 [] m.type = "GRAB_DONE"        -> m.who
                 [] m.type = "PLAY"             -> NextSeat(m.who)

\* "The client can compute who plays next" (PlayState.cpp:41): until the game
\* is announced over, the seat that the last message names to the clients is
\* the only seat the server accepts a message from.
ClientsKnowTurn == phase # "none" /\ ~over => /\ Len(out) = 1
                                              /\ TurnTold(out[1]) = cur

\* Until the game is announced over nobody has run out of cards, and the
\* player to act has a move the server accepts: to pass, or a combination to
\* lead with (PlayState.cpp:33-73).
CurCanAct ==
  phase = "play" /\ ~over =>
    /\ \A s \in Seat : hands[s] # {}
    /\ last # NoSeat \/ \E S \in SUBSET hands[cur] : S # {} /\ IsValid(S)

-----------------------------------------------------------------------------
(* The play implements the trick-taking of LandlordsTrick.                 *)

Tricks == INSTANCE LandlordsTrick WITH
  Deals  <- {d.hands : d \in Deals}, IsValid <- IsValid, Beats <- Beats,
  hand   <- hands,
  turn   <- IF phase = "play" THEN cur ELSE NoSeat,
  top    <- last,
  pile   <- IF last = NoSeat THEN {} ELSE lastCard,
  passes <- IF last = NoSeat THEN 0 ELSE (cur + 2 - last) % 3

\* Every behaviour of the game is one of LandlordsTrick: the test that ends a
\* trick, cur_ == last_ (PlayState.cpp:69-72), is "the two others passed".
TrickRefinement == Tricks!Spec

-----------------------------------------------------------------------------
(* Liveness.  A timer the host accepted fires if nothing cancels it, and a *)
(* player whose turn it is to play makes a move the server accepts; the    *)
(* second is an assumption on the players, PlayState sets no timer.        *)

LiveSpec == Spec /\ WF_vars(OnTimeOut) /\ WF_vars(Plays)

\* READY messages can start new games for ever; a round is only promised to
\* end if they cease.
StartsCease == <>[][~OnGameStart]_vars

\* A silent player does not stop the calling: it ends in a landlord or with
\* the game announced over (the 30 s timer of DealState.cpp:116-129).
GrabPhaseEnds == StartsCease => (phase = "deal" ~> over \/ phase = "play")

\* Play ends with the game announced over: the players cannot pass for ever
\* (PlayState.cpp:40, 69-72).
RoundEnds == StartsCease => (phase = "play" ~> over)

-----------------------------------------------------------------------------
(* What comments of the source say and the code does not do.               *)

\* The extra cards are for the landlord (DealState.h:35, PlayState.h:32).
ExtraGoesToLandlord ==
  [][phase = "deal" /\ phase' = "play" => extra \subseteq hands'[master']]_vars
=============================================================================
