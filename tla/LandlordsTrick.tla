-------------------------- MODULE LandlordsTrick --------------------------
(***************************************************************************)
(* What the play of a game promises, without calling, messages or the end  *)
(* of the game: three players take turns; somebody leads a combination,    *)
(* the others beat it or pass, and when the two others have passed in a    *)
(* row the trick ends and the player of its best combination leads.        *)
(* LandlordsGame is shown to implement this.                               *)
(***************************************************************************)
EXTENDS Integers

CONSTANTS Deals,         \* the hands that can be dealt
          IsValid(_),    \* is a set of cards a combination?
          Beats(_, _)    \* does a combination beat another one?

PLAYER_COUNT == 3
Seat   == 0 .. PLAYER_COUNT - 1
NoSeat == PLAYER_COUNT
NextSeat(s) == (s + 1) % PLAYER_COUNT

VARIABLES hand,      \* the cards of each seat
          turn,      \* whose turn it is, NoSeat when nobody plays
          top,       \* who played the best combination of the trick, if any
          pile,      \* that combination
          passes     \* passes since it was played

vars == <<hand, turn, top, pile, passes>>

NoTrick == top' = NoSeat /\ pile' = {} /\ passes' = 0

Init == /\ hand = [s \in Seat |-> {}]
        /\ turn = NoSeat /\ top = NoSeat /\ pile = {} /\ passes = 0

\* New hands, at any time.
Deal == hand' \in Deals /\ turn' = NoSeat /\ NoTrick

\* The landlord is settled and leads.
Begin == /\ turn = NoSeat
         /\ turn' \in Seat
         /\ UNCHANGED <<hand, top, pile, passes>>

Play == /\ turn \in Seat
        /\ \E S \in SUBSET hand[turn] :
             /\ S # {} /\ IsValid(S)
             /\ top # NoSeat => Beats(S, pile)
             /\ hand' = [hand EXCEPT ![turn] = @ \ S]
             /\ pile' = S
        /\ top' = turn /\ passes' = 0
        /\ turn' = NextSeat(turn)

FirstPass == /\ turn \in Seat /\ top # NoSeat /\ passes = 0
             /\ passes' = 1 /\ turn' = NextSeat(turn)
             /\ UNCHANGED <<hand, top, pile>>

EndTrick == /\ turn \in Seat /\ top # NoSeat /\ passes = 1
            /\ turn' = top
            /\ NoTrick
            /\ UNCHANGED hand

Next == Deal \/ Begin \/ Play \/ FirstPass \/ EndTrick

Spec == Init /\ [][Next]_vars
=============================================================================
