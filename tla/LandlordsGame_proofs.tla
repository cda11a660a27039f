----------------------- MODULE LandlordsGame_proofs -----------------------
(***************************************************************************)
(* Proofs about LandlordsGame, for every set of deals and grades and for   *)
(* hosts with and without timers.                                          *)
(***************************************************************************)
EXTENDS LandlordsGame, SequenceTheorems, FiniteSetTheorems, TLAPS

\* The next seat is a seat, and another one; two steps on is the third.
LEMMA SeatArithmetic ==
  ASSUME NEW s \in Seat
  PROVE  /\ NextSeat(s) \in Seat
         /\ NextSeat(s) # s
         /\ s # NoSeat
BY DEF Seat, NoSeat, NextSeat, PLAYER_COUNT

\* What a message grade narrows to fits an int8_t.
LEMMA Int8Range == ASSUME NEW g \in Int PROVE Int8(g) \in -128 .. 127
BY DEF Int8

\* The messages the handlers send are messages.
LEMMA MessageTypes ==
  ASSUME NEW s \in Seat, NEW g \in Int, NEW S \in SUBSET Card
  PROVE  /\ DealMsg(s) \in Message
         /\ GrabMsg(g, s) \in Message
         /\ GrabDoneMsg(s, g) \in Message
         /\ PlayMsg(s, S) \in Message
         /\ OverMsg \in Message
BY DEF Message, DealMsg, GrabMsg, GrabDoneMsg, PlayMsg, OverMsg

LEMMA OneMessage ==
  ASSUME NEW m \in Message, NEW n \in Message
  PROVE  <<m>> \in Seq(Message) /\ <<m, n>> \in Seq(Message)
OBVIOUS

-----------------------------------------------------------------------------
(* Type correctness                                                        *)

LEMMA TypeInit == Init => TypeOK
BY DEF Init, TypeOK, Seat, NoSeat, PLAYER_COUNT

LEMMA TypeStart == TypeOK /\ OnGameStart => TypeOK'
<1> SUFFICES ASSUME TypeOK, NEW d \in Deals, NEW s \in Seat,
                    phase' = "deal", hands' = d.hands, extra' = d.extra,
                    cur' = s, start' = s, maxGrade' = 0, who' = NoSeat,
                    timer' = TimersFire, NoPlayState,
                    out' = <<DealMsg(s)>>, over' = FALSE, calls' = <<>>
             PROVE  TypeOK'
  BY DEF OnGameStart, InitGrabTimer
<1>1. out' \in Seq(Message)
  BY MessageTypes, OneMessage
<1>2. hands' \in [Seat -> SUBSET Card] /\ extra' \in SUBSET Card
  BY DealsAssumption
<1>3. calls' \in Seq([seat : Seat, grade : Int])
  OBVIOUS
<1>4. timer' \in BOOLEAN /\ (timer' => phase' = "deal")
  BY TimersAssumption
<1>5. cur' \in Seat /\ start' \in Seat /\ who' = NoSeat /\ lastCard' \in SUBSET Card
  BY DEF NoPlayState
<1>6. maxGrade' \in -128 .. 127
  OBVIOUS
<1>7. master' = NoSeat /\ last' = NoSeat
  BY DEF NoPlayState
<1>8. over' \in BOOLEAN
  OBVIOUS
<1> QED
  BY <1>1, <1>2, <1>3, <1>4, <1>5, <1>6, <1>7, <1>8 DEF TypeOK

\* A grab, by message or by timeout: one case per outcome.
LEMMA TypeGrab ==
  ASSUME TypeOK, NEW seat \in Seat, NEW grade \in Int, NEW pending \in BOOLEAN,
         Grab(seat, grade, pending)
  PROVE  TypeOK'
<1> DEFINE
           high == IF Higher(grade) THEN Int8(grade) ELSE maxGrade
           top  == IF Higher(grade) THEN seat ELSE who
<1>1. phase = "deal" /\ cur \in Seat /\ NextSeat(cur) \in Seat /\ start \in Seat
  BY SeatArithmetic DEF Grab, TypeOK
<1>2. high \in -128 .. 127 /\ top \in Seat \cup {NoSeat}
  BY Int8Range DEF TypeOK
<1>3. /\ hands' \in [Seat -> SUBSET Card] /\ extra' \in SUBSET Card
  BY DEF Grab, TypeOK
<1>4. calls' \in Seq([seat : Seat, grade : Int])
  <2> DEFINE C == [seat : Seat, grade : Int]
             c == [seat |-> seat, grade |-> grade]
  <2>1. c \in C
    OBVIOUS
  <2>2. calls' = calls \/ calls' = Append(calls, c)
    BY DEF Grab
  <2>3. calls \in Seq(C)
    BY DEF TypeOK
  <2>4. Append(calls, c) \in Seq(C)
    <3> HIDE DEF C, c
    <3> QED
      BY <2>1, <2>3, AppendProperties
  <2> QED
    BY <2>2, <2>3, <2>4
<1>5. (top = NoSeat => high = 0) /\ (high = 3 \/ top < NoSeat => top \in Seat)
  <2>1. top = NoSeat => high = 0
    BY DEF TypeOK, Seat, NoSeat, PLAYER_COUNT
  <2> QED
    BY <2>1, <1>2 DEF Seat, NoSeat, PLAYER_COUNT
<1>6. CASE (high = 3 \/ top < NoSeat) /\ GrabDone(top, high)
  <2>1. top \in Seat
    BY <1>5, <1>6
  <2>2. out' \in Seq(Message)
    BY <1>2, <1>6, <2>1, MessageTypes, OneMessage DEF GrabDone
  <2>3. /\ phase' = "play" /\ cur' \in Seat /\ master' \in Seat
        /\ start' = NoSeat /\ maxGrade' = 0 /\ who' = NoSeat
        /\ last' = NoSeat /\ lastCard' \in SUBSET Card
    BY <1>6, <2>1 DEF GrabDone, NoDealState
  <2>4. timer' \in BOOLEAN /\ (timer' => phase' = "deal")
    BY <1>6 DEF GrabDone, NoDealState
  <2>5. over' \in BOOLEAN
    BY <1>6 DEF GrabDone, TypeOK
  <2>6. maxGrade' \in -128 .. 127 /\ (who' = NoSeat => maxGrade' = 0)
    BY <2>3
  <2> QED
    BY <1>3, <1>4, <2>2, <2>3, <2>4, <2>5, <2>6 DEF TypeOK
<1>7. CASE NobodyCalls(top, high, pending)
  <2>1. out' \in Seq(Message)
    BY <1>1, <1>7, MessageTypes, OneMessage DEF NobodyCalls
  <2>2. /\ phase' = "deal" /\ cur' \in Seat /\ start' \in Seat
        /\ maxGrade' \in -128 .. 127 /\ who' \in Seat \cup {NoSeat}
        /\ (who' = NoSeat => maxGrade' = 0)
    BY <1>1, <1>2, <1>5, <1>7 DEF NobodyCalls
  <2>3. /\ master' \in Seat \cup {NoSeat} /\ last' = NoSeat
        /\ lastCard' \in SUBSET Card
    BY <1>1, <1>7 DEF NobodyCalls, playVars, TypeOK
  <2>4. timer' \in BOOLEAN /\ (timer' => phase' = "deal")
    BY <1>7, <2>2 DEF NobodyCalls
  <2>5. over' \in BOOLEAN
    BY <1>7 DEF NobodyCalls
  <2> QED
    BY <1>3, <1>4, <2>1, <2>2, <2>3, <2>4, <2>5 DEF TypeOK
<1>8. CASE NextCalls(grade, top, high)
  <2>1. out' \in Seq(Message)
    BY <1>1, <1>8, MessageTypes, OneMessage DEF NextCalls, InitGrabTimer
  <2>2. /\ phase' = "deal" /\ cur' \in Seat /\ start' \in Seat
        /\ maxGrade' \in -128 .. 127 /\ who' \in Seat \cup {NoSeat}
        /\ (who' = NoSeat => maxGrade' = 0)
    BY <1>1, <1>2, <1>5, <1>8 DEF NextCalls, InitGrabTimer
  <2>3. /\ master' \in Seat \cup {NoSeat} /\ last' = NoSeat
        /\ lastCard' \in SUBSET Card
    BY <1>1, <1>8 DEF NextCalls, InitGrabTimer, playVars, TypeOK
  <2>4. timer' \in BOOLEAN /\ (timer' => phase' = "deal")
    BY <1>8, <2>2, TimersAssumption DEF NextCalls, InitGrabTimer
  <2>5. over' \in BOOLEAN
    BY <1>8 DEF NextCalls, InitGrabTimer, TypeOK
  <2> QED
    BY <1>3, <1>4, <2>1, <2>2, <2>3, <2>4, <2>5 DEF TypeOK
<1> QED
  BY <1>6, <1>7, <1>8 DEF Grab

LEMMA TypePass ==
  ASSUME TypeOK, NEW seat \in Seat, Pass(seat)
  PROVE  TypeOK'
<1>1. /\ phase = "play" /\ cur = seat /\ cur \in Seat /\ NextSeat(cur) \in Seat
      /\ phase' = "play" /\ cur' \in Seat /\ last' \in Seat \cup {NoSeat}
  BY SeatArithmetic DEF Pass, PassTurn, TypeOK
<1>2. out' \in Seq(Message)
  <2>1. {} \in SUBSET Card
    OBVIOUS
  <2> QED
    BY <2>1, MessageTypes, OneMessage DEF Pass
<1>3. UNCHANGED <<hands, extra, dealVars, master, lastCard, over, calls>>
  BY DEF Pass
<1>4. timer' \in BOOLEAN /\ (timer' => phase' = "deal")
  BY <1>1, <1>3 DEF TypeOK, dealVars
<1>5. over' \in BOOLEAN
  BY <1>3 DEF TypeOK
<1> QED
  BY <1>1, <1>2, <1>3, <1>4, <1>5 DEF TypeOK, dealVars

LEMMA TypePlay ==
  ASSUME TypeOK, NEW seat \in Seat, NEW S, PlayCards(seat, S)
  PROVE  TypeOK'
<1>1. /\ phase = "play" /\ cur = seat /\ cur \in Seat /\ NextSeat(cur) \in Seat
      /\ phase' = "play" /\ cur' \in Seat /\ last' \in Seat \cup {NoSeat}
  BY SeatArithmetic DEF PlayCards, RmCards, NoCards, PassTurn, TypeOK
<1>2. S \in SUBSET Card
  BY DEF PlayCards, RmCards, NoCards, TypeOK
<1>3. out' \in Seq(Message)
  BY <1>2, MessageTypes, OneMessage DEF PlayCards, RmCards, NoCards
<1>4. hands' \in [Seat -> SUBSET Card] /\ lastCard' \in SUBSET Card
  BY <1>2 DEF PlayCards, RmCards, NoCards, TypeOK
<1>5. UNCHANGED <<extra, dealVars, master, calls>>
  BY DEF PlayCards, RmCards, NoCards
<1>6. timer' \in BOOLEAN /\ (timer' => phase' = "deal")
  BY <1>1, <1>5 DEF TypeOK, dealVars
<1>7. over' \in BOOLEAN
  BY DEF PlayCards, RmCards, NoCards, TypeOK
<1> QED
  BY <1>1, <1>3, <1>4, <1>5, <1>6, <1>7 DEF TypeOK, dealVars

LEMMA TypeStutter == TypeOK /\ UNCHANGED vars => TypeOK'
BY DEF TypeOK, vars, dealVars, playVars

\* The steps of Next, as the lemmas about them want them.
LEMMA NextCases ==
  ASSUME TypeOK, Next
  PROVE  \/ OnGameStart
         \/ \E s \in Seat, g \in Int, pending \in BOOLEAN : Grab(s, g, pending)
         \/ \E s \in Seat : Pass(s)
         \/ \E s \in Seat, S \in SUBSET Card : PlayCards(s, S)
<1>1. ASSUME Calls PROVE \E s \in Seat, g \in Int, p \in BOOLEAN : Grab(s, g, p)
  BY <1>1, GradesAssumption DEF Calls, HandleGrab, TypeOK
<1>2. ASSUME OnTimeOut
      PROVE  \E s \in Seat, g \in Int, p \in BOOLEAN : Grab(s, g, p)
  <2>1. cur \in Seat
    BY <1>2 DEF OnTimeOut, Grab, TypeOK
  <2>2. 0 \in Int /\ FALSE \in BOOLEAN
    OBVIOUS
  <2> QED
    BY <1>2, <2>1, <2>2, Zenon DEF OnTimeOut
<1>3. ASSUME Plays
      PROVE  \/ \E s \in Seat : Pass(s)
             \/ \E s \in Seat, S \in SUBSET Card : PlayCards(s, S)
  BY <1>3 DEF Plays, HandlePlay, TypeOK
<1> QED
  BY <1>1, <1>2, <1>3 DEF Next

LEMMA TypeNext == TypeOK /\ [Next]_vars => TypeOK'
<1> SUFFICES ASSUME TypeOK, [Next]_vars PROVE TypeOK'
  OBVIOUS
<1>1. CASE UNCHANGED vars
  BY <1>1, TypeStutter
<1>2. CASE Next
  BY <1>2, NextCases, TypeStart, TypeGrab, TypePass, TypePlay
<1> QED
  BY <1>1, <1>2

\* The variables always have their types: in particular an index that is used
\* as a seat is one, and a timer is only pending while a landlord is called.
THEOREM TypeCorrect == Spec => []TypeOK
BY TypeInit, TypeNext, PTL DEF Spec

-----------------------------------------------------------------------------
(* Cards are in one place at a time                                        *)

LEMMA SharedInit == Init => NoSharedCard
BY DEF Init, NoSharedCard, Disjoint

LEMMA SharedNext == TypeOK /\ NoSharedCard /\ [Next]_vars => NoSharedCard'
<1> SUFFICES ASSUME TypeOK, NoSharedCard, [Next]_vars PROVE NoSharedCard'
  OBVIOUS
<1>1. CASE UNCHANGED vars
  BY <1>1 DEF NoSharedCard, Disjoint, vars, playVars
<1>2. CASE OnGameStart
  BY <1>2, DealsAssumption DEF OnGameStart, InitGrabTimer, NoPlayState, NoSharedCard, Disjoint
<1>3. ASSUME NEW s \in Seat, NEW g \in Int, NEW p \in BOOLEAN, Grab(s, g, p)
      PROVE  NoSharedCard'
  <2>1. hands' = hands /\ extra' = extra
    BY <1>3 DEF Grab
  <2>2. lastCard' = {} \/ lastCard' = lastCard
    BY <1>3 DEF Grab, GrabDone, NobodyCalls, NextCalls, playVars
  <2> QED
    BY <2>1, <2>2 DEF NoSharedCard, Disjoint
<1>4. ASSUME NEW s \in Seat, Pass(s) PROVE NoSharedCard'
  BY <1>4 DEF Pass, NoSharedCard, Disjoint
<1>5. ASSUME NEW s \in Seat, NEW S \in SUBSET Card, PlayCards(s, S)
      PROVE  NoSharedCard'
  <2>1. /\ S \subseteq hands[s] /\ lastCard' = S /\ extra' = extra
        /\ \A t \in Seat : hands'[t] = IF t = s THEN hands[s] \ S ELSE hands[t]
    BY <1>5 DEF PlayCards, RmCards, NoCards, TypeOK
  <2>2. \A t \in Seat : hands'[t] \cap S = {}
    BY <2>1 DEF NoSharedCard, Disjoint
  <2>3. \A t \in Seat : hands'[t] \subseteq hands[t]
    BY <2>1
  <2> QED
    BY <2>1, <2>2, <2>3 DEF NoSharedCard, Disjoint
<1> QED
  BY <1>1, <1>2, <1>3, <1>4, <1>5, NextCases

\* Whatever is dealt and played, no card is ever held by two players, held and
\* on the table, or held and among the extra cards.
THEOREM CardsNotShared == Spec => []NoSharedCard
BY TypeInit, TypeNext, SharedInit, SharedNext, PTL DEF Spec

-----------------------------------------------------------------------------
(* The clients know whose turn it is                                       *)

LEMMA TurnInit == Init => ClientsKnowTurn
BY DEF Init, ClientsKnowTurn

LEMMA TurnNext == TypeOK /\ ClientsKnowTurn /\ [Next]_vars => ClientsKnowTurn'
<1> SUFFICES ASSUME TypeOK, ClientsKnowTurn, [Next]_vars PROVE ClientsKnowTurn'
  OBVIOUS
<1> USE DEF TurnTold
<1>1. CASE UNCHANGED vars
  BY <1>1 DEF ClientsKnowTurn, vars
<1>2. CASE OnGameStart
  BY <1>2 DEF OnGameStart, InitGrabTimer, DealMsg, ClientsKnowTurn
<1>3. ASSUME NEW s \in Seat, NEW g \in Int, NEW p \in BOOLEAN, Grab(s, g, p)
      PROVE  ClientsKnowTurn'
  <2>1. ASSUME NEW top, NEW high, GrabDone(top, high) PROVE ClientsKnowTurn'
    BY <2>1 DEF GrabDone, GrabDoneMsg, ClientsKnowTurn
  <2>2. ASSUME NEW top, NEW high, NobodyCalls(top, high, p) PROVE ClientsKnowTurn'
    BY <2>2 DEF NobodyCalls, ClientsKnowTurn
  <2>3. ASSUME NEW top, NEW high, NextCalls(g, top, high) PROVE ClientsKnowTurn'
    BY <2>3 DEF NextCalls, InitGrabTimer, GrabMsg, ClientsKnowTurn
  <2> QED
    BY <1>3, <2>1, <2>2, <2>3 DEF Grab
<1>4. ASSUME NEW s \in Seat, Pass(s) PROVE ClientsKnowTurn'
  BY <1>4 DEF Pass, PassTurn, PlayMsg, ClientsKnowTurn
<1>5. ASSUME NEW s \in Seat, NEW S \in SUBSET Card, PlayCards(s, S)
      PROVE  ClientsKnowTurn'
  BY <1>5 DEF PlayCards, RmCards, NoCards, PassTurn, PlayMsg, ClientsKnowTurn
<1> QED
  BY <1>1, <1>2, <1>3, <1>4, <1>5, NextCases

\* Until the game is announced over, what the clients work out from the last
\* message is the seat whose messages the server accepts.
THEOREM TurnsKnown == Spec => []ClientsKnowTurn
BY TypeInit, TypeNext, TurnInit, TurnNext, PTL DEF Spec

-----------------------------------------------------------------------------
(* The player to act can act                                               *)

\* Any card on its own is a combination: no recogniser need be ruled out, for
\* DoAnalyse answers INVALID only if IsDanzhang refuses too.
LEMMA SingleIsValid == ASSUME NEW c PROVE IsValid({c})
<1>1. IsDanzhang({c})
  BY FS_Singleton DEF IsDanzhang
<1> QED
  BY <1>1 DEF IsValid, Analyse, ZhadanData, FeijiData, LianduiData, ShunziData,
              SanzhiData, DuiziData, DanzhangData, Data

\* What CurCanAct says of play holds from the deal on.
HandsFull == phase # "none" /\ ~over => \A s \in Seat : hands[s] # {}

LEMMA FullNext == TypeOK /\ HandsFull /\ [Next]_vars => HandsFull'
<1> SUFFICES ASSUME TypeOK, HandsFull, [Next]_vars PROVE HandsFull'
  OBVIOUS
<1>1. CASE UNCHANGED vars
  BY <1>1 DEF HandsFull, vars
<1>2. CASE OnGameStart
  BY <1>2, DealsAssumption DEF OnGameStart, InitGrabTimer, HandsFull
<1>3. ASSUME NEW s \in Seat, NEW g \in Int, NEW p \in BOOLEAN, Grab(s, g, p)
      PROVE  HandsFull'
  <2>1. phase # "none" /\ hands' = hands
    BY <1>3 DEF Grab
  <2>2. ~over' => ~over
    BY <1>3 DEF Grab, GrabDone, NobodyCalls, NextCalls
  <2> QED
    BY <2>1, <2>2 DEF HandsFull
<1>4. ASSUME NEW s \in Seat, Pass(s) PROVE HandsFull'
  BY <1>4 DEF Pass, HandsFull
<1>5. ASSUME NEW s \in Seat, NEW S \in SUBSET Card, PlayCards(s, S)
      PROVE  HandsFull'
  <2>1. /\ phase # "none" /\ S \subseteq hands[s]
        /\ \A t \in Seat : hands'[t] = IF t = s THEN hands[s] \ S ELSE hands[t]
    BY <1>5 DEF PlayCards, RmCards, NoCards, TypeOK
  <2>2. ~over' => ~over /\ hands[s] # S
    BY <1>5 DEF PlayCards, RmCards, NoCards
  <2> QED
    BY <2>1, <2>2 DEF HandsFull
<1> QED
  BY <1>1, <1>2, <1>3, <1>4, <1>5, NextCases

LEMMA FullCanAct == TypeOK /\ HandsFull => CurCanAct
<1> SUFFICES ASSUME TypeOK, HandsFull, phase = "play", ~over
             PROVE  /\ \A s \in Seat : hands[s] # {}
                    /\ \E S \in SUBSET hands[cur] : S # {} /\ IsValid(S)
  BY DEF CurCanAct
<1>1. \A s \in Seat : hands[s] # {}
  BY DEF HandsFull
<1>2. PICK c \in hands[cur] : TRUE
  BY <1>1 DEF TypeOK
<1>3. {c} \in SUBSET hands[cur] /\ {c} # {}
  BY <1>2
<1> QED
  BY <1>1, <1>3, SingleIsValid

\* The game cannot get stuck before it is announced over: nobody runs out of
\* cards unannounced and the player to act always has a move.
THEOREM NeverStuck == Spec => []CurCanAct
<1>1. Init => HandsFull
  BY DEF Init, HandsFull
<1> QED
  BY <1>1, TypeInit, TypeNext, FullNext, FullCanAct, PTL DEF Spec

-----------------------------------------------------------------------------
(* The game implements LandlordsTrick                                      *)

LEMMA TrickInit == Init => Tricks!Init
BY DEF Init, Tricks!Init, Tricks!Seat, Tricks!NoSeat, Tricks!PLAYER_COUNT,
       Seat, NoSeat, PLAYER_COUNT

\* The seats of the two modules are the same.
LEMMA SameSeats == /\ Tricks!Seat = Seat /\ Tricks!NoSeat = NoSeat
                   /\ \A s : Tricks!NextSeat(s) = NextSeat(s)
BY DEF Tricks!Seat, Tricks!NoSeat, Tricks!NextSeat, Tricks!PLAYER_COUNT,
       Seat, NoSeat, NextSeat, PLAYER_COUNT

LEMMA TrickStart == TypeOK /\ OnGameStart => Tricks!Deal
BY SameSeats DEF OnGameStart, InitGrabTimer, NoPlayState, Tricks!Deal, Tricks!NoTrick

LEMMA TrickGrab ==
  ASSUME TypeOK, NEW s \in Seat, NEW g \in Int, NEW p \in BOOLEAN, Grab(s, g, p)
  PROVE  Tricks!Begin \/ UNCHANGED Tricks!vars
<1>1. phase = "deal" /\ last = NoSeat /\ hands' = hands
  BY DEF Grab, TypeOK
<1>2. ASSUME NEW top, NEW high, GrabDone(top, high) PROVE Tricks!Begin
  <2>1. cur' \in Seat
    BY <1>2, TypeGrab DEF TypeOK, GrabDone
  <2> QED
    BY <1>1, <1>2, <2>1, SameSeats DEF GrabDone, Tricks!Begin
<1>3. ASSUME NEW top, NEW high, NobodyCalls(top, high, p)
      PROVE  UNCHANGED Tricks!vars
  BY <1>1, <1>3 DEF NobodyCalls, playVars, Tricks!vars
<1>4. ASSUME NEW top, NEW high, NextCalls(g, top, high)
      PROVE  UNCHANGED Tricks!vars
  BY <1>1, <1>4 DEF NextCalls, InitGrabTimer, playVars, Tricks!vars
<1> QED
  BY <1>2, <1>3, <1>4 DEF Grab

\* The player of the best combination is never the one to act.
NotOwnTop == last # NoSeat => cur # last

LEMMA NotOwnTopNext == TypeOK /\ NotOwnTop /\ [Next]_vars => NotOwnTop'
<1> SUFFICES ASSUME TypeOK, NotOwnTop, [Next]_vars PROVE NotOwnTop'
  OBVIOUS
<1>1. CASE UNCHANGED vars
  BY <1>1 DEF NotOwnTop, vars, playVars
<1>2. CASE OnGameStart
  BY <1>2 DEF OnGameStart, InitGrabTimer, NoPlayState, NotOwnTop
<1>3. ASSUME NEW s \in Seat, NEW g \in Int, NEW p \in BOOLEAN, Grab(s, g, p)
      PROVE  NotOwnTop'
  <2>1. last = NoSeat
    BY <1>3 DEF Grab, TypeOK
  <2> QED
    BY <1>3, <2>1 DEF Grab, GrabDone, NobodyCalls, NextCalls, playVars, NotOwnTop
<1>4. ASSUME NEW s \in Seat, Pass(s) PROVE NotOwnTop'
  BY <1>4 DEF Pass, PassTurn, NotOwnTop
<1>5. ASSUME NEW s \in Seat, NEW S \in SUBSET Card, PlayCards(s, S)
      PROVE  NotOwnTop'
  BY <1>5 DEF PlayCards, RmCards, NoCards, PassTurn, NotOwnTop
<1> QED
  BY <1>1, <1>2, <1>3, <1>4, <1>5, NextCases

\* The test that ends a trick, as arithmetic on the seats: the turn comes back
\* to the player of the best combination after exactly two passes.
LEMMA PassArithmetic ==
  ASSUME NEW c \in Seat, NEW l \in Seat, c # l
  PROVE  /\ NextSeat(c) = l => (c + 2 - l) % 3 = 1
         /\ NextSeat(c) # l => /\ (c + 2 - l) % 3 = 0
                               /\ (NextSeat(c) + 2 - l) % 3 = 1
BY DEF Seat, NextSeat, PLAYER_COUNT

LEMMA TrickPass ==
  ASSUME TypeOK, NotOwnTop, NEW s \in Seat, Pass(s)
  PROVE  Tricks!FirstPass \/ Tricks!EndTrick
<1>1. /\ phase = "play" /\ phase' = "play" /\ cur \in Seat /\ last \in Seat
      /\ last # NoSeat /\ cur # last /\ hands' = hands /\ lastCard' = lastCard
      /\ cur' = NextSeat(cur)
  BY DEF Pass, MayPass, PassTurn, NotOwnTop, TypeOK
<1>2. CASE NextSeat(cur) = last
  <2>1. last' = NoSeat
    BY <1>2 DEF Pass, PassTurn
  <2>2. (cur + 2 - last) % 3 = 1
    BY <1>1, <1>2, PassArithmetic
  <2> QED
    BY <1>1, <1>2, <2>1, <2>2, SameSeats DEF Tricks!EndTrick, Tricks!NoTrick
<1>3. CASE NextSeat(cur) # last
  <2>1. last' = last
    BY <1>3 DEF Pass, PassTurn
  <2>2. (cur + 2 - last) % 3 = 0 /\ (cur' + 2 - last') % 3 = 1
    BY <1>1, <1>3, <2>1, PassArithmetic
  <2> QED
    BY <1>1, <2>1, <2>2, SameSeats DEF Tricks!FirstPass
<1> QED
  BY <1>2, <1>3

LEMMA TrickPlay ==
  ASSUME TypeOK, NEW s \in Seat, NEW S \in SUBSET Card, PlayCards(s, S)
  PROVE  Tricks!Play
<1>1. /\ phase = "play" /\ phase' = "play" /\ s = cur /\ cur \in Seat
      /\ cur # NoSeat /\ NextSeat(cur) # cur
      /\ cur' = NextSeat(cur) /\ last' = cur
  BY SeatArithmetic DEF PlayCards, RmCards, NoCards, PassTurn, TypeOK
<1>2. (cur' + 2 - last') % 3 = 0
  BY <1>1 DEF Seat, NextSeat, PLAYER_COUNT
<1>3. /\ S \in SUBSET hands[cur] /\ S # {} /\ IsValid(S)
      /\ last # NoSeat => Beats(S, lastCard)
      /\ hands' = [hands EXCEPT ![cur] = @ \ S] /\ lastCard' = S
  BY <1>1 DEF PlayCards, RmCards, NoCards
<1> QED
  BY <1>1, <1>2, <1>3, SameSeats DEF Tricks!Play

LEMMA TrickNext ==
  TypeOK /\ NotOwnTop /\ [Next]_vars => [Tricks!Next]_(Tricks!vars)
<1> SUFFICES ASSUME TypeOK, NotOwnTop, [Next]_vars
             PROVE  [Tricks!Next]_(Tricks!vars)
  OBVIOUS
<1>1. CASE UNCHANGED vars
  <2>1. UNCHANGED <<phase, hands, cur, last, lastCard>>
    BY <1>1 DEF vars, playVars
  <2> QED
    BY <2>1 DEF Tricks!vars
<1>2. CASE Next
  BY <1>2, NextCases, TrickStart, TrickGrab, TrickPass, TrickPlay DEF Tricks!Next
<1> QED
  BY <1>1, <1>2

\* The play is trick-taking: whoever leads or beats holds the cards, a beaten
\* combination is really beaten, and the trick goes to the player of its best
\* combination when, and only when, the two others have passed in a row.
THEOREM GameImplementsTricks == Spec => TrickRefinement
<1>1. Init => NotOwnTop
  BY DEF Init, NotOwnTop
<1> QED
  BY <1>1, TypeInit, TypeNext, NotOwnTopNext, TrickInit, TrickNext, PTL
  DEF Spec, TrickRefinement, Tricks!Spec
-----------------------------------------------------------------------------
(* The highest call wins                                                   *)

\* The calls so far are those of the seats from `from` on, one each.
InTurn(from) == \A i \in 1 .. Len(calls) : calls[i].seat = (from + i - 1) % 3

\* What DealState remembers of the calls: the turn, the highest grade above 0
\* and who named it first.
CallInv ==
  /\ phase = "none" => calls = <<>>
  /\ phase = "deal" /\ ~over =>
       /\ Len(calls) \in 0 .. 2 /\ InTurn(start)
       /\ cur = (start + Len(calls)) % 3
       /\ maxGrade \in 0 .. 2
       /\ \A i \in 1 .. Len(calls) : calls[i].grade <= maxGrade
       /\ who # NoSeat => \E i \in 1 .. Len(calls) :
                            First(i) /\ calls[i].seat = who /\ calls[i].grade = maxGrade
  /\ phase = "play" /\ ~over =>
       /\ Len(calls) \in 1 .. 3
       /\ \E from \in Seat : InTurn(from)
       /\ \E i \in 1 .. Len(calls) : First(i) /\ calls[i].seat = master

LEMMA InTurnAround ==
  ASSUME NEW from \in Seat, NEW i \in 1 .. 3, NEW j \in 1 .. 3
  PROVE  (from + j - 1) % 3 = (((from + i - 1) % 3) + j - i + 3) % 3
BY DEF Seat, PLAYER_COUNT

LEMMA TurnArithmetic ==
  ASSUME NEW from \in Seat, NEW n \in 0 .. 2
  PROVE  /\ n = 0 => (from + n) % 3 = from
         /\ n # 0 => (from + n) % 3 # from
         /\ NextSeat((from + n) % 3) = (from + (n + 1)) % 3
         /\ n = 2 => (from + (n + 1)) % 3 = from
BY DEF Seat, NextSeat, PLAYER_COUNT

LEMMA CallsMeanTopCall == TypeOK /\ CallInv => TopCall
<1> SUFFICES ASSUME TypeOK, CallInv, ~over PROVE TopCall
  BY DEF TopCall
<1>1. DOMAIN calls = 1 .. Len(calls) /\ Len(calls) \in 0 .. 3
  BY DEF TypeOK, CallInv
<1>2. calls = <<>> \/ \E from \in Seat : InTurn(from)
  BY DEF TypeOK, CallInv
<1>3. ASSUME NEW i \in DOMAIN calls, NEW j \in DOMAIN calls
      PROVE  calls[j].seat = (calls[i].seat + j - i + 3) % 3
  <2>1. i \in 1 .. 3 /\ j \in 1 .. 3 /\ i \in 1 .. Len(calls) /\ j \in 1 .. Len(calls)
    BY <1>1
  <2>2. PICK from \in Seat : InTurn(from)
    BY <1>1, <1>2
  <2>3. calls[i].seat = (from + i - 1) % 3 /\ calls[j].seat = (from + j - 1) % 3
    BY <2>1, <2>2 DEF InTurn, PLAYER_COUNT
  <2> QED
    BY <2>1, <2>3, InTurnAround
<1>4. ASSUME phase = "deal" PROVE \A i \in DOMAIN calls : calls[i].grade # 3
  BY <1>1, <1>4 DEF CallInv, TypeOK
<1>5. ASSUME phase = "deal", calls # <<>> PROVE cur # start /\ calls[1].seat = start
  <2>1. Len(calls) \in 1 .. 2 /\ start \in Seat
    BY <1>5, EmptySeq DEF CallInv, TypeOK
  <2>2. calls[1].seat = (start + 0) % 3
    BY <1>5, <2>1 DEF CallInv, InTurn, PLAYER_COUNT
  <2>3. cur = (start + Len(calls)) % 3
    BY <1>5 DEF CallInv
  <2>4. 0 \in 0 .. 2 /\ Len(calls) \in 0 .. 2 /\ Len(calls) # 0
    BY <2>1
  <2>5. (start + 0) % 3 = start
    BY <2>1, <2>4, TurnArithmetic
  <2>6. (start + Len(calls)) % 3 # start
    BY <2>1, <2>4, TurnArithmetic
  <2> QED
    BY <2>2, <2>3, <2>5, <2>6
<1>6. ASSUME phase = "play"
      PROVE  \E i \in DOMAIN calls : First(i) /\ calls[i].seat = master
  BY <1>1, <1>6 DEF CallInv
<1>7. Len(calls) <= PLAYER_COUNT
  BY <1>1 DEF PLAYER_COUNT
<1> QED
  BY <1>3, <1>4, <1>5, <1>6, <1>7, Zenon DEF TopCall

\* What DealState then remembers of the highest call.
HighOf(g) == IF Higher(g) THEN Int8(g) ELSE maxGrade
TopOf(s, g) == IF Higher(g) THEN s ELSE who

\* A call of at most 3 is added to those before.
LEMMA CallAdded ==
  ASSUME TypeOK, CallInv, ~over, NEW s \in Seat, NEW g \in -128 .. 3,
         NEW p \in BOOLEAN, Grab(s, g, p), NEW n \in Nat, n = Len(calls)
  PROVE  /\ n <= 2 /\ Len(calls') = n + 1
         /\ \A i \in 1 .. n + 1 : /\ calls'[i].seat = (start + i - 1) % 3
                                  /\ calls'[i].grade <= HighOf(g)
         /\ HighOf(g) \in 0 .. 3
         /\ TopOf(s, g) # NoSeat => \E i \in 1 .. n + 1 :
              First(i)' /\ calls'[i].seat = TopOf(s, g) /\ calls'[i].grade = HighOf(g)
<1> DEFINE c == [seat |-> s, grade |-> g]
           C == [seat : Seat, grade : Int]
<1>1. /\ phase = "deal" /\ s = cur /\ calls' = Append(calls, c)
      /\ calls \in Seq(C) /\ n \in 0 .. 2
      /\ cur = (start + n) % 3 /\ maxGrade \in 0 .. 2
  BY DEF Grab, TypeOK, CallInv
<1>2. /\ Len(calls') = n + 1 /\ DOMAIN calls' = 1 .. n + 1
      /\ \A i \in 1 .. n : calls'[i] = calls[i]
      /\ calls'[n + 1] = c
  <2> HIDE DEF c, C
  <2> QED
    BY <1>1
<1>3. HighOf(g) = IF g > maxGrade THEN g ELSE maxGrade
  BY <1>1 DEF HighOf, Higher, Int8
<1>4. ASSUME NEW i \in 1 .. n
      PROVE  /\ calls[i].seat = (start + i - 1) % 3
             /\ calls[i].grade <= maxGrade /\ calls[i].grade \in Int
  <2>1. calls[i] \in C
    <3> HIDE DEF C
    <3> QED
      BY <1>1, ElementOfSeq
  <2>2. calls[i].seat = (start + i - 1) % 3 /\ calls[i].grade <= maxGrade
    BY <1>1 DEF CallInv, InTurn
  <2> QED
    BY <2>1, <2>2
<1>5. ASSUME NEW i \in 1 .. n + 1
      PROVE  /\ calls'[i].seat = (start + i - 1) % 3
             /\ calls'[i].grade <= HighOf(g) /\ calls'[i].grade \in Int
  <2>1. CASE i \in 1 .. n
    BY <1>1, <1>2, <1>3, <1>4, <2>1
  <2>2. CASE i = n + 1
    <3>1. calls'[i].seat = cur /\ calls'[i].grade = g
      BY <1>1, <1>2, <2>2
    <3>2. start + n = start + i - 1
      BY <1>1, <2>2 DEF TypeOK, Seat
    <3> QED
      BY <1>1, <1>3, <3>1, <3>2
  <2> QED
    BY <2>1, <2>2
<1>6. ASSUME g > maxGrade, NEW i \in Nat, i = n + 1 PROVE First(i)'
  <2>1. calls'[i].grade = g /\ g > 0 /\ HighOf(g) = g
    BY <1>1, <1>2, <1>3, <1>6
  <2>2. \A j \in 1 .. n + 1 : calls'[j].grade <= g
    BY <1>5, <2>1
  <2>3. \A j \in 1 .. i - 1 : calls'[j].grade < g
    BY <1>1, <1>2, <1>4, <1>6
  <2> QED
    BY <1>2, <2>1, <2>2, <2>3 DEF First, Called
<1>7. ASSUME NEW i \in 1 .. n, First(i), calls[i].grade = maxGrade, ~(g > maxGrade)
      PROVE  First(i)'
  <2>1. calls'[i].grade = maxGrade /\ maxGrade > 0 /\ HighOf(g) = maxGrade
    BY <1>2, <1>3, <1>7 DEF First, Called
  <2>2. \A j \in 1 .. n + 1 : calls'[j].grade <= maxGrade
    BY <1>5, <2>1
  <2>3. \A j \in 1 .. i - 1 : calls'[j].grade < maxGrade
    BY <1>1, <1>2, <1>7 DEF First
  <2> QED
    BY <1>2, <2>1, <2>2, <2>3 DEF First, Called
<1>8. ASSUME TopOf(s, g) # NoSeat
      PROVE  \E i \in 1 .. n + 1 :
               First(i)' /\ calls'[i].seat = TopOf(s, g) /\ calls'[i].grade = HighOf(g)
  <2>1. CASE g > maxGrade
    <3>1. TopOf(s, g) = s /\ HighOf(g) = g
      BY <1>3, <2>1 DEF Higher, TopOf
    <3>2. PICK i \in 1 .. n + 1 : i = n + 1
      OBVIOUS
    <3>3. calls'[i].seat = s /\ calls'[i].grade = g
      BY <1>2, <3>2
    <3>4. First(i)'
      BY <1>6, <2>1, <3>2
    <3> QED
      BY <3>1, <3>3, <3>4
  <2>2. CASE ~(g > maxGrade)
    <3>1. TopOf(s, g) = who /\ HighOf(g) = maxGrade
      BY <1>3, <2>2 DEF Higher, TopOf
    <3>2. PICK i \in 1 .. n : First(i) /\ calls[i].seat = who /\ calls[i].grade = maxGrade
      BY <1>1, <1>8, <3>1 DEF CallInv
    <3>3. i \in 1 .. n + 1 /\ calls'[i] = calls[i]
      BY <1>2
    <3>4. First(i)'
      BY <1>7, <2>2, <3>2
    <3> QED
      BY <3>1, <3>2, <3>3, <3>4
  <2> QED
    BY <2>1, <2>2
<1>9. HighOf(g) \in 0 .. 3
  BY <1>1, <1>3
<1>10. n <= 2
  BY <1>1
<1> QED
  BY <1>2, <1>5, <1>8, <1>9, <1>10, Zenon

LEMMA CallsGrab ==
  ASSUME TypeOK, CallInv, NEW s \in Seat, NEW g \in -128 .. 3, NEW p \in BOOLEAN,
         Grab(s, g, p)
  PROVE  CallInv'
<1>1. /\ over \in BOOLEAN /\ start \in Seat /\ s = cur /\ phase = "deal"
  BY DEF Grab, TypeOK
<1>2. CASE over
  <2>1. over' /\ phase' # "none"
    BY <1>1, <1>2 DEF Grab, GrabDone, NobodyCalls, NextCalls
  <2> QED
    BY <2>1 DEF CallInv
<1>3. CASE ~over
  <2> DEFINE high == HighOf(g)
             top  == TopOf(s, g)
  <2>1. PICK n \in 0 .. 2 : n = Len(calls)
    BY <1>1, <1>3 DEF CallInv
  <2>2. /\ Len(calls') = n + 1
        /\ \A i \in 1 .. n + 1 : /\ calls'[i].seat = (start + i - 1) % 3
                                 /\ calls'[i].grade <= high
        /\ high \in 0 .. 3
        /\ top # NoSeat => \E i \in 1 .. n + 1 :
             First(i)' /\ calls'[i].seat = top /\ calls'[i].grade = high
    <3>1. n \in Nat
      OBVIOUS
    <3> QED
      BY <1>3, <2>1, <3>1, CallAdded, Zenon
  <2>3. cur = (start + n) % 3
    BY <1>1, <1>3, <2>1 DEF CallInv
  <2>4. (top = NoSeat => high = 0) /\ (high = 3 \/ top < NoSeat => top # NoSeat)
    BY DEF TypeOK, Seat, NoSeat, PLAYER_COUNT, HighOf, TopOf
  <2>5. PICK from \in Seat : from = start
    BY <1>1
  <2>6. \A i \in 1 .. Len(calls') : calls'[i].seat = (from + i - 1) % 3
    BY <2>2, <2>5
  <2> HIDE DEF high, top
  <2>7. CASE (high = 3 \/ top < NoSeat) /\ GrabDone(top, high)
    <3>1. phase' = "play" /\ master' = top /\ top # NoSeat
      BY <2>4, <2>7 DEF GrabDone
    <3>2. Len(calls') \in 1 .. 3
      BY <2>2
    <3>3. \E i \in 1 .. Len(calls') : First(i)' /\ calls'[i].seat = master'
      BY <2>2, <3>1
    <3>4. InTurn(from)'
      BY <2>6 DEF InTurn
    <3> QED
      BY <3>1, <3>2, <3>3, <3>4 DEF CallInv
  <2>8. CASE NobodyCalls(top, high, p)
    BY <1>1, <2>8 DEF NobodyCalls, CallInv
  <2>9. CASE high # 3 /\ NextSeat(cur) # start /\ NextCalls(g, top, high)
    <3>1. /\ phase' = "deal" /\ start' = start /\ cur' = NextSeat(cur)
          /\ maxGrade' = high /\ who' = top
      BY <1>1, <2>9 DEF NextCalls
    <3>2. NextSeat(cur) = (start + (n + 1)) % 3 /\ n # 2
      BY <1>1, <2>3, <2>9, TurnArithmetic
    <3>3. Len(calls') \in 0 .. 2 /\ cur' = (start' + Len(calls')) % 3
      <4>1. n + 1 \in 0 .. 2
        BY <3>2
      <4> QED
        BY <2>2, <3>1, <3>2, <4>1
    <3>4. InTurn(start)'
      BY <2>5, <2>6, <3>1 DEF InTurn
    <3>5. high \in 0 .. 2
      BY <2>2, <2>9
    <3>6. \A i \in 1 .. Len(calls') : calls'[i].grade <= maxGrade'
      BY <2>2, <3>1
    <3>7. who' # NoSeat => \E i \in 1 .. Len(calls') :
            First(i)' /\ calls'[i].seat = who' /\ calls'[i].grade = maxGrade'
      BY <2>2, <3>1
    <3> QED
      BY <3>1, <3>3, <3>4, <3>5, <3>6, <3>7 DEF CallInv
  <2> QED
    BY <2>7, <2>8, <2>9 DEF Grab, high, top, HighOf, TopOf
<1> QED
  BY <1>1, <1>2, <1>3
\* The calls of the messages, and the 0 of a timeout, are at most 3.
LEMMA CallsNext ==
  ASSUME \A g \in Grades : g \in -128 .. 3
  PROVE  TypeOK /\ CallInv /\ [Next]_vars => CallInv'
<1> SUFFICES ASSUME TypeOK, CallInv, [Next]_vars PROVE CallInv'
  OBVIOUS
<1>1. CASE UNCHANGED vars
  BY <1>1 DEF CallInv, InTurn, First, Called, vars, dealVars, playVars
<1>2. CASE OnGameStart
  <2>1. /\ phase' = "deal" /\ calls' = <<>> /\ maxGrade' = 0 /\ who' = NoSeat
        /\ \E s \in Seat : cur' = s /\ start' = s
    BY <1>2 DEF OnGameStart
  <2>2. Len(calls') = 0 /\ cur' = (start' + 0) % 3 /\ 0 \in 0 .. 2
    BY <2>1, TurnArithmetic DEF Seat, PLAYER_COUNT
  <2> QED
    BY <2>1, <2>2 DEF CallInv, InTurn
<1>3. CASE Calls
  <2>1. PICK s \in Seat, g \in Grades : Grab(s, g, timer)
    BY <1>3 DEF Calls, HandleGrab
  <2>2. g \in -128 .. 3 /\ timer \in BOOLEAN
    BY DEF TypeOK
  <2> QED
    BY <2>1, <2>2, CallsGrab
<1>4. CASE OnTimeOut
  <2>1. Grab(cur, 0, FALSE)
    BY <1>4 DEF OnTimeOut
  <2>2. cur \in Seat
    BY <2>1 DEF Grab, TypeOK
  <2>3. 0 \in -128 .. 3 /\ FALSE \in BOOLEAN
    OBVIOUS
  <2> QED
    BY <2>1, <2>2, <2>3, CallsGrab, Zenon
<1>5. CASE Plays
  <2>1. /\ phase = "play" /\ phase' = phase /\ calls' = calls /\ master' = master
        /\ ~over' => ~over
    <3>1. PICK s, S : Pass(s) \/ PlayCards(s, S)
      BY <1>5 DEF Plays, HandlePlay
    <3>2. CASE Pass(s)
      BY <3>2 DEF Pass
    <3>3. CASE PlayCards(s, S)
      BY <3>3 DEF PlayCards
    <3> QED
      BY <3>1, <3>2, <3>3
  <2> QED
    BY <2>1 DEF CallInv, InTurn, First, Called
<1> QED
  BY <1>1, <1>2, <1>3, <1>4, <1>5 DEF Next

\* If nobody can call more than 3, as with the buttons of the clients, then the
\* landlord is the first of those who called the most, each seat having called
\* at most once and in turn.
THEOREM HighestCallWins ==
  ASSUME \A g \in Grades : g \in -128 .. 3
  PROVE  Spec => []TopCall
<1>1. Init => CallInv
  BY DEF Init, CallInv
<1>2. TypeOK /\ CallInv /\ [Next]_vars => CallInv'
  BY CallsNext
<1> QED
  BY <1>1, <1>2, TypeInit, TypeNext, CallsMeanTopCall, PTL DEF Spec
============================================================================
