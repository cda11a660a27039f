--------------------------- MODULE LandlordsCard ---------------------------
(***************************************************************************)
(* The card algorithms of landlords_module: what a played combination is   *)
(* (LandlordsCard::DoAnalyse) and when it beats another one                *)
(* (LandlordsCard::operator>, CardTypeData.h).                             *)
(*                                                                         *)
(* A card is its value, 0..53 (Card.h).  A combination is a SET of cards:  *)
(* PlayState::HandlePlay only analyses cards that have_cards found in a    *)
(* hand, and no two cards of a hand are equal.                             *)
(*                                                                         *)
(* In this module and the others, an operator whose comment begins with    *)
(* "Faulty" is a plausible bug of the operator that follows it.  The       *)
(* specification does not use it; PROJECT.json puts it in the other's      *)
(* place to see that the properties notice.                                *)
(***************************************************************************)
EXTENDS Integers, FiniteSets, FiniteSetsExt

Card == 0..53

\* Card::rank(): 0.._12 are 3,4,...,K,A,2; the jokers rank above them.
Rank(c) == CASE c = 52 -> 13
             [] c = 53 -> 14
             [] OTHER  -> c % 13

InvalidRank == 15

RanksOf(S)      == {Rank(c) : c \in S}
Count(S, r)     == Cardinality({c \in S : Rank(c) = r})
RanksWith(S, n) == {r \in RanksOf(S) : Count(S, r) = n}

\* Faulty: a chain may go up to the 2.
IsContinuousToTwo(R) == R # {} /\ R \subseteq 0..12 /\ R = Min(R)..Max(R)
\* is_continuous, on a sorted vector without repetitions: the ranks are
\* consecutive and none is above the ace.  Its callers rule out repetitions.
IsContinuous(R) == R # {} /\ R \subseteq 0..11 /\ R = Min(R)..Max(R)

(***************************************************************************)
(* CardTypeData and its subclasses: one record.  count is the length of a  *)
(* chain, sub the SubType (how many cards each triple carries); the types  *)
(* that have no such field hold 0 there.                                   *)
(***************************************************************************)
Data(type, rank, count, sub) ==
  [type |-> type, rank |-> rank, count |-> count, sub |-> sub]

Invalid == Data("INVALID", InvalidRank, 0, 0)

-----------------------------------------------------------------------------
(* The recognisers, each with the data it records when it says yes.        *)

IsDanzhang(S)   == Cardinality(S) = 1
DanzhangData(S) == Data("DANZHANG", Min(RanksOf(S)), 0, 0)

\* Faulty: any two cards.
IsDuiziAnyTwo(S) == Cardinality(S) = 2
IsDuizi(S)      == Cardinality(S) = 2 /\ Cardinality(RanksOf(S)) = 1
DuiziData(S)    == Data("DUIZI", Min(RanksOf(S)), 0, 0)

\* With five cards the pair is looked up in a second variable named iter that
\* hides the first one, and the rank recorded is the pair's.
IsSanzhi(S) == /\ Cardinality(S) \in 3..5
               /\ RanksWith(S, 3) # {}
               /\ Cardinality(S) = 5 => RanksWith(S, 2) # {}
SanzhiData(S) ==
  LET size == Cardinality(S)
  IN  Data("SANZHI", Min(RanksWith(S, IF size = 5 THEN 2 ELSE 3)), 0, size - 3)

IsShunzi(S) == /\ Cardinality(S) >= 5
               /\ Cardinality(RanksOf(S)) = Cardinality(S)
               /\ IsContinuous(RanksOf(S))
ShunziData(S) == Data("SHUNZI", Min(RanksOf(S)), Cardinality(S), 0)

IsLiandui(S) == /\ Cardinality(S) >= 6
                /\ RanksWith(S, 2) = RanksOf(S)
                /\ IsContinuous(RanksOf(S))
LianduiData(S) == Data("LIANDUI", Min(RanksOf(S)), Cardinality(RanksOf(S)), 0)

\* The cards that are not in the triples, per triple: none, one each (any
\* cards), or a pair each.
FeijiSub(S) ==
  LET n    == Cardinality(RanksWith(S, 3))
      rest == Cardinality(S) - 3 * n
  IN  CASE rest = 0 -> 0
        [] rest = n -> 1
        [] rest = 2 * n /\ Cardinality(RanksWith(S, 2)) = n -> 2
        [] OTHER -> -1
IsFeiji(S) == /\ Cardinality(S) >= 6
              /\ Cardinality(RanksWith(S, 3)) >= 2
              /\ IsContinuous(RanksWith(S, 3))
              /\ FeijiSub(S) # -1
FeijiData(S) == Data("FEIJI", Min(RanksWith(S, 3)),
                     Cardinality(RanksWith(S, 3)), FeijiSub(S))

IsRocket(S) == S = {52, 53}
IsZhadan(S) == \/ IsRocket(S)
               \/ Cardinality(S) = 4 /\ Cardinality(RanksOf(S)) = 1
ZhadanData(S) == Data("ZHADAN", IF IsRocket(S) THEN InvalidRank
                                               ELSE Min(RanksOf(S)), 0, 0)

\* DoAnalyse: the functor table is tried in this order and the first
\* recogniser that says yes decides; card_type() is INVALID if none does.
Analyse(S) ==
  IF      IsZhadan(S)   THEN ZhadanData(S)
  ELSE IF IsFeiji(S)    THEN FeijiData(S)
  ELSE IF IsLiandui(S)  THEN LianduiData(S)
  ELSE IF IsShunzi(S)   THEN ShunziData(S)
  ELSE IF IsSanzhi(S)   THEN SanzhiData(S)
  ELSE IF IsDuizi(S)    THEN DuiziData(S)
  ELSE IF IsDanzhang(S) THEN DanzhangData(S)
  ELSE Invalid

\* Faulty: the rocket beats every bomb, itself included.
ZhadanGreaterAny(d, e) == d.rank = InvalidRank \/ d.rank > e.rank
\* CardTypeDataZhadan::operator>: the rocket has no rank and beats every bomb.
ZhadanGreater(d, e) == /\ e.rank # InvalidRank
                       /\ d.rank = InvalidRank \/ d.rank > e.rank

\* LandlordsCard::operator> on the data of two valid combinations.
Greater(d, e) ==
  \/ d.type # e.type /\ d.type = "ZHADAN"
  \/ d.type = e.type /\ d.type = "ZHADAN" /\ ZhadanGreater(d, e)
  \/ /\ d.type = e.type /\ d.type # "ZHADAN"
     /\ d.sub = e.sub /\ d.count = e.count
     /\ d.rank > e.rank

IsValid(S)  == Analyse(S).type # "INVALID"
Beats(S, T) == Greater(Analyse(S), Analyse(T))
=============================================================================
