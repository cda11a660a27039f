-------------------------- MODULE MCLandlordsCard --------------------------
(***************************************************************************)
(* Enumerates combinations of cards and checks the algorithms of           *)
(* LandlordsCard on each.  A hand is grown card by card; within a rank the *)
(* cards are taken in suit order, since no algorithm looks at a suit, so   *)
(* every multiset of ranks from RankPool is met once.                      *)
(***************************************************************************)
EXTENDS LandlordsCard

CONSTANTS
  RankPool,   \* the ranks below the jokers that hands are made of
  SizeBound   \* bound: no hand is larger

ASSUME RankPoolAssumption == RankPool \subseteq 0..12 /\ SizeBound \in Nat

VARIABLE hand

\* The next card of a rank that a hand has n cards of.
NextOfRank(r, n) == r + 13 * n

Pool(S) == {NextOfRank(r, Count(S, r)) : r \in {q \in RankPool : Count(S, q) < 4}}
             \cup {52, 53}

Init == hand = {}

\* LandlordsCard::SetCards on a combination with one more card.
AddCard == \E c \in Pool(hand) \ hand :
             /\ Cardinality(hand) < SizeBound
             /\ \A d \in hand : Rank(c) >= Rank(d)
             /\ hand' = hand \cup {c}

Next == AddCard
Spec == Init /\ [][Next]_hand

-----------------------------------------------------------------------------
Says(S) == [ZHADAN   |-> IsZhadan(S),  FEIJI  |-> IsFeiji(S),
            LIANDUI  |-> IsLiandui(S), SHUNZI |-> IsShunzi(S),
            SANZHI   |-> IsSanzhi(S),  DUIZI  |-> IsDuizi(S),
            DANZHANG |-> IsDanzhang(S)]

\* The order of DoAnalyse's functor table decides nothing: no combination is
\* accepted by two recognisers (LandlordsCard.cpp:34-51).
OrderIrrelevant ==
  \A t, u \in DOMAIN Says(hand) : Says(hand)[t] /\ Says(hand)[u] => t = u

\* Reference definition, from the data to the cards: what a combination with
\* the data d consists of.  Triples(r, n) are the ranks r..r+n-1.
Chain(S, d, n) == \A r \in d.rank .. d.rank + d.count - 1 : Count(S, r) = n
Describes(d, S) ==
  CASE d.type = "DANZHANG" -> Cardinality(S) = 1 /\ Count(S, d.rank) = 1
    [] d.type = "DUIZI"    -> Cardinality(S) = 2 /\ Count(S, d.rank) = 2
    [] d.type = "SANZHI"   ->
         /\ Cardinality(S) = 3 + d.sub
         /\ \E r \in 0..12 : Count(S, r) = 3
         /\ d.sub = 2 => \E r \in 0..12 : Count(S, r) = 2
    [] d.type = "SHUNZI"   ->
         d.count >= 5 /\ Cardinality(S) = d.count /\ Chain(S, d, 1)
    [] d.type = "LIANDUI"  ->
         d.count >= 3 /\ Cardinality(S) = 2 * d.count /\ Chain(S, d, 2)
    [] d.type = "FEIJI"    ->
         /\ d.count >= 2 /\ Chain(S, d, 3)
         /\ Cardinality(S) = (3 + d.sub) * d.count
         /\ d.sub = 2 => \A c \in S : Count(S, Rank(c)) \in {2, 3}
    [] d.type = "ZHADAN"   ->
         IF d.rank = InvalidRank THEN S = {52, 53}
         ELSE Cardinality(S) = 4 /\ Count(S, d.rank) = 4
    [] OTHER -> TRUE

\* Whatever DoAnalyse records is true of the cards it was given: the named
\* groups are there, in a chain below the 2 where one is named, and nothing
\* else is, so that two combinations that can be compared have equally many
\* cards (LandlordsCard.cpp:54-187; the rank of a triple is TripleDecides).
AnalyseSound == /\ Describes(Analyse(hand), hand)
                /\ Analyse(hand).count > 0
                     => Analyse(hand).rank + Analyse(hand).count <= 12

\* A triple is compared by the rank of its triple, whatever it carries:
\* CardTypeData.h:67-99 calls the third form a triple that carries a pair.
TripleDecides ==
  Analyse(hand).type = "SANZHI" => Count(hand, Analyse(hand).rank) = 3

-----------------------------------------------------------------------------
(* Beating, over all the data that a set of cards can have.                *)

Chains(type, n, subs) ==
  {Data(type, r, k, s) : r \in 0..11, k \in n, s \in subs}
AllData ==
  {d \in {Data("DANZHANG", r, 0, 0) : r \in 0..14}
         \cup {Data("DUIZI", r, 0, 0) : r \in 0..12}
         \cup {Data("SANZHI", r, 0, s) : r \in 0..12, s \in 0..2}
         \cup Chains("SHUNZI", 5..12, {0})
         \cup Chains("LIANDUI", 3..12, {0})
         \cup Chains("FEIJI", 2..12, 0..2)
         \cup {Data("ZHADAN", r, 0, 0) : r \in (0..12) \cup {InvalidRank}} :
     d.count > 0 => d.rank + d.count <= 12}
Beaten == [d \in AllData |-> {e \in AllData : Greater(d, e)}]

\* Beating is a strict order: nothing beats itself, and what beats a
\* combination beats everything that one beats, so a trick has a unique
\* winner and cannot go round in a circle (CardTypeData.h, all operator>).
BeatsIsStrictOrder ==
  LET d == Analyse(hand)
  IN  d # Invalid => /\ d \in AllData
                     /\ d \notin Beaten[d]
                     /\ \A e \in Beaten[d] : Beaten[e] \subseteq Beaten[d]

-----------------------------------------------------------------------------
(* The examples of landlords_module/main.cpp, as a check of the model.     *)

CardTestCase == {<<52, 13>>, <<9, 9>>, <<27, 1>>, <<49, 10>>}

CardTypeCheckTestCase ==
  [FEIJI    |-> {{5, 18, 31, 19, 45, 6}, {5, 18, 31, 19, 45, 6, 10, 11},
                 {5, 18, 31, 19, 45, 6, 10, 23}, {5, 18, 31, 19, 45, 6, 10, 23, 12, 25}},
   INVALID  |-> {{5, 18, 31, 19, 45, 6, 10, 23, 12, 26}, {5, 18, 31, 20, 46, 7}},
   DANZHANG |-> {{3}},
   DUIZI    |-> {{3, 16}},
   SANZHI   |-> {{3, 16, 29}, {3, 16, 29, 30}, {3, 16, 29, 30, 43}},
   SHUNZI   |-> {{0, 1, 2, 3, 4, 18}, {0, 1, 2, 3, 4, 18, 32}},
   LIANDUI  |-> {{5, 6, 7, 18, 32, 46}},
   ZHADAN   |-> {{3, 29, 42, 16}, {52, 53}}]

\* The pairs that the tests expect to be greater, and those they expect not to.
CardCompareTestCase ==
  [greater |-> {<<{3, 29, 42, 16}, {3, 16, 29}>>, <<{8}, {7}>>, <<{8, 21}, {7, 33}>>,
                <<{8, 21, 34}, {7, 33, 46}>>, <<{7, 8, 9, 10, 11}, {6, 7, 8, 9, 10}>>,
                <<{6, 7, 8, 9, 10, 11}, {5, 6, 7, 8, 9, 10}>>,
                <<{7, 20, 8, 21, 9, 22}, {6, 19, 7, 20, 8, 21}>>},
   not     |-> {<<{3, 16, 29}, {4, 17}>>, <<{3, 16, 29}, {3, 29, 42, 16}>>,
                <<{8, 21, 34, 4}, {7, 33, 46}>>,
                <<{6, 7, 8, 9, 10, 11}, {5, 6, 7, 8, 9}>>,
                <<{7, 20, 8, 21, 9, 22, 10, 23}, {6, 19, 7, 20, 8, 21}>>}]

ASSUME TestsPass ==
  /\ \A e \in CardTestCase : Rank(e[1]) = e[2]
  /\ \A t \in DOMAIN CardTypeCheckTestCase :
       \A S \in CardTypeCheckTestCase[t] : Analyse(S).type = t
  /\ \A e \in CardCompareTestCase.greater : Beats(e[1], e[2])
  /\ \A e \in CardCompareTestCase.not : ~Beats(e[1], e[2])
=============================================================================
