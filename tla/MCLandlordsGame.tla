-------------------------- MODULE MCLandlordsGame --------------------------
(***************************************************************************)
(* LandlordsGame on small deals, chosen so that singles, pairs, a triple   *)
(* with a single, a bomb and the rocket are played and beaten, some hands  *)
(* can only pass, and any of the players can run out first.                *)
(***************************************************************************)
EXTENDS LandlordsGame

Deal3(a, b, c, ex) ==
  [hands |-> [s \in Seat |-> CASE s = 0 -> a [] s = 1 -> b [] s = 2 -> c],
   extra |-> ex]

\* a bomb of 3s; a pair of 4s and a queen; the rocket
BombDeal  == Deal3({0, 13, 26, 39}, {1, 14, 9}, {52, 53}, {2, 15, 28})
\* pairs and singles that beat each other across the seats
PairsDeal == Deal3({7, 20, 5}, {8, 21, 6}, {9, 22}, {4, 17, 30})
\* a triple and a single against a higher triple and a single
TripleDeal == Deal3({3, 16, 29, 10}, {4, 17, 30, 11}, {36}, {0, 1, 2})

OneDeal  == {PairsDeal}
AllDeals == {BombDeal, PairsDeal, TripleDeal}

\* a refusal and the grades of the protocol (landlords_proto.proto:20)
AllGrades == {0, 1, 2, 3}
=============================================================================
