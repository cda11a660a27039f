---------------------------- MODULE MCGameTable ----------------------------
(***************************************************************************)
(* GameTable on a deal small enough for every interleaving of three        *)
(* players, their requests and what they are told, and large enough for a  *)
(* trick with a choice, a pass and a card that beats another.              *)
(***************************************************************************)
EXTENDS GameTable

TinyDeal == [hands |-> [s \in Seat |-> CASE s = 0 -> {5, 7} [] s = 1 -> {6} [] s = 2 -> {8}],
             extra |-> {9}]
TinyDeals == {TinyDeal}

\* what the two buttons call
ButtonGrades == {0, 3}

\* What a step reads: out has been copied into the queues, calls and master are
\* never read, last_card_ only while it has to be beaten, and my_out_cards_ only
\* while a choice may still be answered.
TableView ==
  <<phase, hands, cur, start, maxGrade, who, last, over, user, requests, chan,
    dealt, rushed, IF last = NoSeat THEN {} ELSE lastCard,
    [s \in Seat |-> IF Pending(s) THEN screen[s] ELSE [screen[s] EXCEPT !.mine = {}]]>>
=============================================================================
