----------------------- MODULE LandlordsCard_proofs -----------------------
(***************************************************************************)
(* Proofs about the card algorithms, for every set of cards of the pack,   *)
(* whatever ranks the enumeration of MCLandlordsCard draws from and        *)
(* however large it lets a combination grow.                               *)
(***************************************************************************)
EXTENDS MCLandlordsCard, FiniteSetTheorems, WellFoundedInduction, TLAPS

-----------------------------------------------------------------------------
(* Induction on a number, said with sets: a set of numbers has a least     *)
(* element, and one that holds 0 and every successor holds them all.       *)

LEMMA LeastNat ==
  ASSUME NEW T, T \subseteq Nat, T # {}
  PROVE  \E m \in T : \A k \in T : m <= k
<1>1. IsWellFoundedOn(OpToRel(<, Nat), Nat)
  BY NatLessThanWellFounded
<1>2. \A x, y \in Nat : y < x => <<y, x>> \in OpToRel(<, Nat)
  BY DEF OpToRel
<1> DEFINE R == OpToRel(<, Nat)
<1> HIDE DEF R
<1>3. IsWellFoundedOn(R, Nat) /\ \A x, y \in Nat : y < x => <<y, x>> \in R
  BY <1>1, <1>2 DEF R
<1>4. PICK x \in T : \A y \in T : ~ (<<y, x>> \in R)
  BY <1>3, WFMin
<1>5. ASSUME NEW k \in T PROVE x <= k
  <2>1. x \in Nat /\ k \in Nat /\ ~ (k < x)
    BY <1>3, <1>4, Zenon
  <2> QED
    BY <2>1
<1> QED
  BY <1>5

LEMMA SetInduction ==
  ASSUME NEW T, 0 \in T, \A n \in Nat : n \in T => n + 1 \in T
  PROVE  Nat \subseteq T
<1> SUFFICES ASSUME Nat \ T # {} PROVE FALSE
  OBVIOUS
<1>1. PICK m \in Nat \ T : \A k \in Nat \ T : m <= k
  BY LeastNat
<1>2. m - 1 \in Nat
  BY <1>1
<1> QED
  BY <1>1, <1>2

-----------------------------------------------------------------------------
(* Ranks, and how many cards have them                                     *)

LEMMA RankRange ==
  ASSUME NEW c \in Card
  PROVE  /\ Rank(c) \in 0 .. 14
         /\ Rank(c) = 13 <=> c = 52
         /\ Rank(c) = 14 <=> c = 53
<1>1. CASE c = 52
  BY <1>1 DEF Rank
<1>2. CASE c = 53
  BY <1>2 DEF Rank
<1>3. CASE c # 52 /\ c # 53
  <2>1. Rank(c) = c % 13
    BY <1>3 DEF Rank
  <2> QED
    BY <2>1, <1>3 DEF Card
<1> QED
  BY <1>1, <1>2, <1>3

LEMMA RanksRange == ASSUME NEW S \in SUBSET Card PROVE RanksOf(S) \subseteq 0 .. 14
BY RankRange DEF RanksOf

LEMMA CardsFinite ==
  ASSUME NEW S \in SUBSET Card
  PROVE  IsFiniteSet(S) /\ Cardinality(S) \in Nat
<1>1. IsFiniteSet(0 .. 53)
  <2>1. 0 \in Int /\ 53 \in Int
    OBVIOUS
  <2> QED
    BY <2>1, FS_Interval, Zenon
<1> QED
  BY <1>1, FS_Subset, FS_CardinalityType DEF Card

LEMMA RanksFinite ==
  ASSUME NEW R \in SUBSET (0 .. 14)
  PROVE  IsFiniteSet(R) /\ Cardinality(R) \in Nat /\ Cardinality(R) <= 15
<1>1. IsFiniteSet(0 .. 14) /\ Cardinality(0 .. 14) = 15
  <2> DEFINE a == 0  b == 14
  <2>1. a \in Int /\ b \in Int /\ ~ (a > b) /\ b - a + 1 = 15
    OBVIOUS
  <2> HIDE DEF a, b
  <2>2. IsFiniteSet(a .. b) /\ Cardinality(a .. b) = 15
    BY <2>1, FS_Interval
  <2> QED
    BY <2>2 DEF a, b
<1> QED
  BY <1>1, FS_Subset, FS_CardinalityType

LEMMA CountBounds ==
  ASSUME NEW S \in SUBSET Card, NEW r
  PROVE  /\ Count(S, r) \in Nat
         /\ Count(S, r) <= Cardinality(S)
         /\ Count(S, r) # 0 <=> r \in RanksOf(S)
<1> DEFINE G == {c \in S : Rank(c) = r}
<1>1. G \in SUBSET S /\ G \in SUBSET Card
  OBVIOUS
<1>2. IsFiniteSet(G) /\ Cardinality(G) \in Nat /\ Cardinality(G) <= Cardinality(S)
  BY <1>1, CardsFinite, FS_Subset
<1>3. Cardinality(G) = 0 <=> G = {}
  BY <1>2, FS_EmptySet
<1> QED
  BY <1>2, <1>3 DEF Count, RanksOf

\* There is one card of each joker.
LEMMA JokersAreSingle ==
  ASSUME NEW S \in SUBSET Card, NEW r \in RanksOf(S), Count(S, r) > 1
  PROVE  r \in 0 .. 12
<1> SUFFICES ASSUME r \notin 0 .. 12 PROVE FALSE
  OBVIOUS
<1>1. r \in {13, 14}
  BY RanksRange
<1>2. PICK c : {d \in S : Rank(d) = r} \subseteq {c}
  BY <1>1, RankRange
<1>3. IsFiniteSet({c}) /\ Cardinality({c}) = 1
  BY FS_Singleton
<1>4. Cardinality({d \in S : Rank(d) = r}) <= 1
  BY <1>2, <1>3, FS_Subset
<1> QED
  BY <1>4, CountBounds DEF Count

LEMMA MinOfRanks ==
  ASSUME NEW R \in SUBSET (0 .. 14), R # {}
  PROVE  Min(R) \in R /\ \A y \in R : Min(R) <= y
<1>1. R \subseteq Nat
  OBVIOUS
<1>2. \E x \in R : \A y \in R : x <= y
  BY <1>1, LeastNat, Zenon
<1> QED
  BY <1>2 DEF Min

LEMMA MaxOfRanks ==
  ASSUME NEW R \in SUBSET (0 .. 14), R # {}
  PROVE  Max(R) \in R /\ \A y \in R : Max(R) >= y
<1> DEFINE T == {14 - x : x \in R}
<1>1. T \subseteq Nat /\ T # {}
  <2>1. \A x \in R : 14 - x \in Nat
    OBVIOUS
  <2> QED
    BY <2>1
<1>2. PICK m \in T : \A k \in T : m <= k
  BY <1>1, LeastNat
<1>3. PICK x \in R : m = 14 - x
  BY <1>2
<1>4. ASSUME NEW y \in R PROVE x >= y
  <2>1. m <= 14 - y
    BY <1>2
  <2> QED
    BY <2>1, <1>3
<1> QED
  BY <1>4 DEF Max

\* A chain is as long as its length says, and ends at the ace or below.
LEMMA Chained ==
  ASSUME NEW R, IsContinuous(R)
  PROVE  /\ R \in SUBSET (0 .. 11) /\ R # {}
         /\ Min(R) \in R /\ Min(R) \in 0 .. 11 /\ Cardinality(R) \in 1 .. 12
         /\ Min(R) + Cardinality(R) <= 12
         /\ R = Min(R) .. Min(R) + Cardinality(R) - 1
<1>1. R \in SUBSET (0 .. 11) /\ R # {} /\ R = Min(R) .. Max(R)
  BY DEF IsContinuous
<1>2. R \in SUBSET (0 .. 14)
  BY <1>1
<1>3. Min(R) \in R /\ Max(R) \in R /\ Max(R) >= Min(R)
  BY <1>1, <1>2, MinOfRanks, MaxOfRanks
<1>4. Min(R) \in 0 .. 11 /\ Max(R) \in 0 .. 11
  BY <1>1, <1>3
<1>5. Cardinality(Min(R) .. Max(R)) = Max(R) - Min(R) + 1
  BY <1>3, <1>4, FS_Interval
<1>6. Cardinality(R) = Max(R) - Min(R) + 1
  BY <1>1, <1>5
<1>7. Min(R) + Cardinality(R) - 1 = Max(R)
  BY <1>4, <1>6
<1>8. Cardinality(R) \in 1 .. 12 /\ Min(R) + Cardinality(R) <= 12
  BY <1>3, <1>4, <1>6
<1>9. R = Min(R) .. Min(R) + Cardinality(R) - 1
  BY <1>1, <1>7, Zenon
<1> QED
  BY <1>1, <1>3, <1>4, <1>8, <1>9, Zenon

\* k cards of each of some ranks are k times as many cards.
LEMMA GroupsSize ==
  ASSUME NEW S \in SUBSET Card, NEW k \in Nat, NEW R \in SUBSET (0 .. 14),
         \A r \in R : Count(S, r) = k
  PROVE  Cardinality({c \in S : Rank(c) \in R}) = k * Cardinality(R)
<1> DEFINE In(Q) == {c \in S : Rank(c) \in Q}
           T == {n \in Nat : \A Q \in SUBSET R : Cardinality(Q) = n => Cardinality(In(Q)) = k * n}
<1>1. 0 \in T
  <2> SUFFICES ASSUME NEW Q \in SUBSET R, Cardinality(Q) = 0
               PROVE  Cardinality(In(Q)) = k * 0
    OBVIOUS
  <2>1. Q = {}
    BY RanksFinite, FS_EmptySet
  <2>2. In(Q) = {}
    BY <2>1
  <2> QED
    BY <2>2, FS_EmptySet
<1>2. ASSUME NEW n \in Nat, n \in T PROVE n + 1 \in T
  <2> SUFFICES ASSUME NEW Q \in SUBSET R, Cardinality(Q) = n + 1
               PROVE  Cardinality(In(Q)) = k * (n + 1)
    OBVIOUS
  <2>1. Q \in SUBSET (0 .. 14) /\ IsFiniteSet(Q)
    BY RanksFinite
  <2>2. PICK r : r \in Q
    <3>1. Cardinality({}) = 0 /\ n + 1 # 0
      BY FS_EmptySet
    <3>2. Q # {}
      BY <3>1, Zenon
    <3> QED
      BY <3>2
  <2> DEFINE P == Q \ {r}  A == In(P)  B == {c \in S : Rank(c) = r}
  <2>3. Cardinality(P) = n /\ P \in SUBSET R
    BY <2>1, <2>2, FS_RemoveElement
  <2>4. Cardinality(A) = k * n
    BY <1>2, <2>3
  <2>5. Cardinality(B) = k
    BY <2>2 DEF Count
  <2>6. In(Q) = A \cup B /\ A \cap B = {}
    BY <2>2
  <2>7. IsFiniteSet(A) /\ IsFiniteSet(B)
    <3>1. A \in SUBSET Card /\ B \in SUBSET Card
      OBVIOUS
    <3> QED
      BY <3>1, CardsFinite
  <2>8. Cardinality(A \cup B) = Cardinality(A) + Cardinality(B)
    <3>1. Cardinality(A \cup B) = Cardinality(A) + Cardinality(B) - Cardinality(A \cap B)
      BY <2>7, FS_Union
    <3>2. Cardinality(A \cap B) = 0
      BY <2>6, FS_EmptySet
    <3>3. Cardinality(A) \in Nat /\ Cardinality(B) \in Nat
      BY <2>7, FS_CardinalityType
    <3> QED
      BY <3>1, <3>2, <3>3
  <2>9. k * (n + 1) = k * n + k
    OBVIOUS
  <2> HIDE DEF A, B, In
  <2> QED
    BY <2>4, <2>5, <2>6, <2>8, <2>9
<1>3. Nat \subseteq T
  <2> HIDE DEF T
  <2> QED
    BY <1>1, <1>2, SetInduction
<1>4. Cardinality(R) \in T
  BY <1>3, RanksFinite
<1> QED
  BY <1>4

\* All the cards of a combination that has one rank have it.
LEMMA OneRank ==
  ASSUME NEW S \in SUBSET Card, Cardinality(RanksOf(S)) = 1
  PROVE  /\ Min(RanksOf(S)) \in 0 .. 14
         /\ RanksOf(S) = {Min(RanksOf(S))}
         /\ Count(S, Min(RanksOf(S))) = Cardinality(S)
<1> DEFINE m == Min(RanksOf(S))
<1>1. PICK r : RanksOf(S) = {r}
  BY RanksRange, RanksFinite, FS_Singleton
<1>2. m \in RanksOf(S)
  BY <1>1, RanksRange, MinOfRanks
<1>3. RanksOf(S) = {m} /\ m \in 0 .. 14
  BY <1>1, <1>2, RanksRange
<1>4. {c \in S : Rank(c) = m} = S
  BY <1>3 DEF RanksOf
<1> QED
  BY <1>3, <1>4 DEF Count

\* Where there are as many ranks as cards, no two cards have the same one.
LEMMA AllRanksDiffer ==
  ASSUME NEW S \in SUBSET Card, Cardinality(RanksOf(S)) = Cardinality(S), NEW r \in RanksOf(S)
  PROVE  Count(S, r) = 1
<1> DEFINE f == [c \in S |-> Rank(c)]
<1>1. f \in Surjection(S, RanksOf(S))
  BY DEF Surjection, RanksOf
<1>2. f \in Injection(S, RanksOf(S))
  <2> HIDE DEF f
  <2> QED
    BY <1>1, CardsFinite, FS_Surjection
<1>3. PICK c \in S : Rank(c) = r
  BY DEF RanksOf
<1>4. {d \in S : Rank(d) = r} = {c}
  <2>1. ASSUME NEW d \in S, Rank(d) = r PROVE d = c
    <3>1. f[d] = f[c]
      BY <2>1, <1>3
    <3> HIDE DEF f
    <3> QED
      BY <3>1, <1>2, <1>3 DEF Injection, IsInjective
  <2> QED
    BY <2>1, <1>3
<1>5. Cardinality({c}) = 1
  BY FS_Singleton
<1> QED
  BY <1>4, <1>5 DEF Count

\* Two ranks make a combination of more than one rank.
LEMMA RocketRanks == RanksOf({52, 53}) = {13, 14} /\ Cardinality({13, 14}) = 2
                     /\ Cardinality({52, 53}) = 2
<1>1. Rank(52) = 13 /\ Rank(53) = 14
  BY RankRange DEF Card
<1>2. RanksOf({52, 53}) = {13, 14}
  BY <1>1 DEF RanksOf
<1>3. Cardinality({13} \cup {14}) = 2
  <2>1. IsFiniteSet({13}) /\ Cardinality({13}) = 1
    BY FS_Singleton
  <2> QED
    BY <2>1, FS_AddElement
<1>4. Cardinality({52} \cup {53}) = 2
  <2>1. IsFiniteSet({52}) /\ Cardinality({52}) = 1
    BY FS_Singleton
  <2> QED
    BY <2>1, FS_AddElement
<1>5. {13} \cup {14} = {13, 14} /\ {52} \cup {53} = {52, 53}
  OBVIOUS
<1> QED
  BY <1>2, <1>3, <1>4, <1>5

-----------------------------------------------------------------------------
(* What each recogniser knows of the cards it says yes to                  *)

LEMMA DanzhangFacts ==
  ASSUME NEW S \in SUBSET Card, IsDanzhang(S)
  PROVE  /\ Min(RanksOf(S)) \in 0 .. 14
         /\ Count(S, Min(RanksOf(S))) = 1
<1>1. PICK c : S = {c}
  BY CardsFinite, FS_Singleton DEF IsDanzhang
<1>2. RanksOf(S) = {Rank(c)}
  BY <1>1 DEF RanksOf
<1>3. Cardinality(RanksOf(S)) = 1
  BY <1>2, FS_Singleton
<1> QED
  BY <1>3, OneRank DEF IsDanzhang

LEMMA DuiziFacts ==
  ASSUME NEW S \in SUBSET Card, IsDuizi(S)
  PROVE  /\ Min(RanksOf(S)) \in 0 .. 12
         /\ Count(S, Min(RanksOf(S))) = 2
<1>1. Count(S, Min(RanksOf(S))) = 2 /\ Min(RanksOf(S)) \in RanksOf(S)
  BY OneRank DEF IsDuizi
<1> QED
  BY <1>1, JokersAreSingle

\* A rank that a combination has two or three cards of.
LEMMA RanksWithFacts ==
  ASSUME NEW S \in SUBSET Card, NEW n \in {2, 3}
  PROVE  /\ RanksWith(S, n) \in SUBSET (0 .. 12)
         /\ RanksWith(S, n) \in SUBSET (0 .. 14)
         /\ \A r \in RanksWith(S, n) : r \in RanksOf(S) /\ Count(S, r) = n
         /\ RanksWith(S, n) # {} => Min(RanksWith(S, n)) \in RanksWith(S, n)
<1>1. \A r \in RanksWith(S, n) : r \in RanksOf(S) /\ Count(S, r) = n
  BY DEF RanksWith
<1>2. RanksWith(S, n) \in SUBSET (0 .. 12)
  BY <1>1, JokersAreSingle
<1>3. RanksWith(S, n) \in SUBSET (0 .. 14)
  BY <1>2
<1> QED
  BY <1>1, <1>2, <1>3, MinOfRanks

LEMMA SanzhiFacts ==
  ASSUME NEW S \in SUBSET Card, IsSanzhi(S)
  PROVE  /\ SanzhiData(S).rank \in 0 .. 12
         /\ Cardinality(S) - 3 \in 0 .. 2
         /\ \E r \in 0 .. 12 : Count(S, r) = 3
         /\ Cardinality(S) = 5 => \E r \in 0 .. 12 : Count(S, r) = 2
<1>1. RanksWith(S, 3) # {} /\ Cardinality(S) \in 3 .. 5
      /\ (Cardinality(S) = 5 => RanksWith(S, 2) # {})
  BY DEF IsSanzhi
<1>2. Min(RanksWith(S, 3)) \in 0 .. 12 /\ \E r \in 0 .. 12 : Count(S, r) = 3
  BY <1>1, RanksWithFacts
<1>3. Cardinality(S) = 5 => Min(RanksWith(S, 2)) \in 0 .. 12 /\ \E r \in 0 .. 12 : Count(S, r) = 2
  BY <1>1, RanksWithFacts
<1>4. SanzhiData(S).rank = Min(RanksWith(S, IF Cardinality(S) = 5 THEN 2 ELSE 3))
  BY DEF SanzhiData, Data
<1> QED
  BY <1>1, <1>2, <1>3, <1>4

LEMMA ShunziFacts ==
  ASSUME NEW S \in SUBSET Card, IsShunzi(S)
  PROVE  LET m == Min(RanksOf(S))  n == Cardinality(S)
         IN  /\ m \in 0 .. 11 /\ n \in 5 .. 12 /\ m + n <= 12
             /\ \A r \in m .. m + n - 1 : Count(S, r) = 1
<1> DEFINE R == RanksOf(S)
<1>1. IsContinuous(R) /\ Cardinality(R) = Cardinality(S) /\ Cardinality(S) >= 5
  BY DEF IsShunzi
<1> HIDE DEF R
<1>2. /\ R \in SUBSET (0 .. 11) /\ Min(R) \in R /\ Cardinality(R) \in 1 .. 12
      /\ Min(R) + Cardinality(R) <= 12 /\ R = Min(R) .. Min(R) + Cardinality(R) - 1
  BY <1>1, Chained
<1>3. \A r \in R : Count(S, r) = 1
  BY <1>1, AllRanksDiffer DEF R
<1>4. \A r \in Min(R) .. Min(R) + Cardinality(S) - 1 : Count(S, r) = 1
  BY <1>1, <1>2, <1>3, Zenon
<1>5. Min(R) \in 0 .. 11 /\ Cardinality(S) \in 1 .. 12 /\ Min(R) + Cardinality(S) <= 12
  BY <1>1, Chained
<1>6. Cardinality(S) \in 5 .. 12
  BY <1>1, <1>5
<1> QED
  BY <1>4, <1>5, <1>6 DEF R

LEMMA LianduiFacts ==
  ASSUME NEW S \in SUBSET Card, IsLiandui(S)
  PROVE  LET m == Min(RanksOf(S))  n == Cardinality(RanksOf(S))
         IN  /\ m \in 0 .. 11 /\ n \in 3 .. 12 /\ m + n <= 12
             /\ Cardinality(S) = 2 * n
             /\ \A r \in m .. m + n - 1 : Count(S, r) = 2
<1> DEFINE R == RanksOf(S)
<1>1. IsContinuous(R) /\ RanksWith(S, 2) = R /\ Cardinality(S) >= 6
  BY DEF IsLiandui
<1>2. \A r \in R : Count(S, r) = 2
  BY <1>1, RanksWithFacts
<1>3. {c \in S : Rank(c) \in R} = S
  BY DEF RanksOf
<1> HIDE DEF R
<1>4. /\ R \in SUBSET (0 .. 11) /\ Min(R) \in R /\ Cardinality(R) \in 1 .. 12
      /\ Min(R) + Cardinality(R) <= 12 /\ R = Min(R) .. Min(R) + Cardinality(R) - 1
  BY <1>1, Chained
<1>5. R \in SUBSET (0 .. 14)
  BY <1>4
<1>6. Cardinality(S) = 2 * Cardinality(R)
  BY <1>2, <1>3, <1>5, GroupsSize
<1>7. \A r \in Min(R) .. Min(R) + Cardinality(R) - 1 : Count(S, r) = 2
  BY <1>2, <1>4, Zenon
<1>8. Min(R) \in 0 .. 11 /\ Cardinality(R) \in 1 .. 12
  BY <1>1, Chained
<1>9. Cardinality(R) \in 3 .. 12
  BY <1>1, <1>6, <1>8
<1> QED
  BY <1>4, <1>6, <1>7, <1>8, <1>9 DEF R

LEMMA FeijiFacts ==
  ASSUME NEW S \in SUBSET Card, IsFeiji(S)
  PROVE  LET R == RanksWith(S, 3)  m == Min(R)  n == Cardinality(R)
         IN  /\ m \in 0 .. 11 /\ n \in 2 .. 12 /\ m + n <= 12
             /\ \A r \in m .. m + n - 1 : Count(S, r) = 3
             /\ FeijiSub(S) \in 0 .. 2
             /\ Cardinality(S) = (3 + FeijiSub(S)) * n
             /\ FeijiSub(S) = 2 => \A c \in S : Count(S, Rank(c)) \in {2, 3}
<1> DEFINE R == RanksWith(S, 3)  P == RanksWith(S, 2)  n == Cardinality(R)
           rest == Cardinality(S) - 3 * n
<1>1. IsContinuous(R) /\ n >= 2 /\ FeijiSub(S) # -1
  BY DEF IsFeiji
<1>2. \A r \in R : Count(S, r) = 3
  BY RanksWithFacts
<1>3. \A r \in P : Count(S, r) = 2
  BY RanksWithFacts
<1>4. R \in SUBSET (0 .. 14) /\ P \in SUBSET (0 .. 14)
  BY RanksWithFacts
<1>5. Cardinality({c \in S : Rank(c) \in R}) = 3 * n
  BY <1>2, <1>4, GroupsSize
<1>6. Cardinality({c \in S : Rank(c) \in P}) = 2 * Cardinality(P)
  BY <1>3, <1>4, GroupsSize
<1>7. /\ Min(R) \in R /\ R \in SUBSET (0 .. 11) /\ n \in 1 .. 12
      /\ Min(R) \in 0 .. 11 /\ Min(R) + n <= 12 /\ R = Min(R) .. Min(R) + n - 1
  <2> HIDE DEF R
  <2> QED
    BY <1>1, Chained
<1>8. \A r \in Min(R) .. Min(R) + n - 1 : Count(S, r) = 3
  BY <1>2, <1>7, Zenon
<1>9. Cardinality(S) \in Nat
  BY CardsFinite
<1>10. FeijiSub(S) = CASE rest = 0 -> 0
                       [] rest = n -> 1
                       [] rest = 2 * n /\ Cardinality(P) = n -> 2
                       [] OTHER -> -1
  BY DEF FeijiSub
<1> HIDE DEF R, P
<1>11. \/ FeijiSub(S) = 0 /\ rest = 0
       \/ FeijiSub(S) = 1 /\ rest = n
       \/ FeijiSub(S) = 2 /\ rest = 2 * n /\ Cardinality(P) = n
  BY <1>1, <1>10
<1>12. FeijiSub(S) \in 0 .. 2 /\ Cardinality(S) = (3 + FeijiSub(S)) * n
  <2>1. n \in Nat
    BY <1>4, RanksFinite
  <2> HIDE DEF n
  <2>2. CASE FeijiSub(S) = 0 /\ rest = 0
    BY <2>1, <2>2, <1>9
  <2>3. CASE FeijiSub(S) = 1 /\ rest = n
    BY <2>1, <2>3, <1>9
  <2>4. CASE FeijiSub(S) = 2 /\ rest = 2 * n
    BY <2>1, <2>4, <1>9
  <2> QED
    BY <1>11, <2>2, <2>3, <2>4
<1>13. ASSUME FeijiSub(S) = 2, NEW c \in S PROVE Count(S, Rank(c)) \in {2, 3}
  <2> DEFINE A == {d \in S : Rank(d) \in R}  B == {d \in S : Rank(d) \in P}
  <2>1. Cardinality(A) = 3 * n /\ Cardinality(B) = 2 * n /\ Cardinality(S) = 5 * n
    BY <1>5, <1>6, <1>7, <1>9, <1>11, <1>13
  <2>2. A \cap B = {}
    BY <1>2, <1>3
  <2>3. IsFiniteSet(A) /\ IsFiniteSet(B) /\ IsFiniteSet(S)
    <3>1. A \in SUBSET S /\ B \in SUBSET S
      OBVIOUS
    <3> QED
      BY <3>1, CardsFinite, FS_Subset
  <2>4. A \cup B \in SUBSET S
    OBVIOUS
  <2>5. c \in A \cup B
    <3> HIDE DEF A, B
    <3>1. Cardinality(A \cup B) = Cardinality(A) + Cardinality(B) - Cardinality(A \cap B)
      BY <2>3, FS_Union
    <3>2. Cardinality(A \cap B) = 0
      BY <2>2, FS_EmptySet
    <3>3. Cardinality(A \cup B) = Cardinality(S)
      BY <3>1, <3>2, <2>1, <1>7
    <3> QED
      BY <3>3, <2>3, <2>4, FS_Subset
  <2> QED
    BY <2>5, <1>2, <1>3
<1> QED
  BY <1>1, <1>7, <1>8, <1>12, <1>13 DEF R

LEMMA ZhadanFacts ==
  ASSUME NEW S \in SUBSET Card, IsZhadan(S), ~ IsRocket(S)
  PROVE  /\ Min(RanksOf(S)) \in 0 .. 12
         /\ Count(S, Min(RanksOf(S))) = 4
         /\ Cardinality(S) = 4
         /\ RanksOf(S) = {Min(RanksOf(S))}
<1>1. Cardinality(S) = 4 /\ Cardinality(RanksOf(S)) = 1
  BY DEF IsZhadan
<1>2. Count(S, Min(RanksOf(S))) = 4 /\ Min(RanksOf(S)) \in RanksOf(S) /\ RanksOf(S) = {Min(RanksOf(S))}
  BY <1>1, OneRank
<1> QED
  BY <1>1, <1>2, JokersAreSingle

-----------------------------------------------------------------------------
(* No combination is accepted by two recognisers                           *)

\* What tells the recognisers apart: the sizes, how many ranks there are, and
\* whether some rank, or every rank, has two or three cards.
LEMMA Apart ==
  ASSUME NEW S \in SUBSET Card
  PROVE  /\ Cardinality(S) \in Nat
         /\ IsZhadan(S) => \/ Cardinality(S) = 2 /\ Cardinality(RanksOf(S)) = 2
                           \/ Cardinality(S) = 4 /\ RanksWith(S, 3) = {}
         /\ IsFeiji(S) => Cardinality(S) >= 6 /\ RanksWith(S, 3) # {}
         /\ IsLiandui(S) => Cardinality(S) >= 6 /\ RanksWith(S, 2) # {} /\ RanksWith(S, 3) = {}
         /\ IsShunzi(S) => Cardinality(S) >= 5 /\ RanksWith(S, 2) = {} /\ RanksWith(S, 3) = {}
         /\ IsSanzhi(S) => Cardinality(S) \in 3 .. 5 /\ RanksWith(S, 3) # {}
         /\ IsDuizi(S) => Cardinality(S) = 2 /\ Cardinality(RanksOf(S)) = 1
         /\ IsDanzhang(S) => Cardinality(S) = 1
<1>1. Cardinality(S) \in Nat
  BY CardsFinite
<1>2. ASSUME IsZhadan(S)
      PROVE  \/ Cardinality(S) = 2 /\ Cardinality(RanksOf(S)) = 2
             \/ Cardinality(S) = 4 /\ RanksWith(S, 3) = {}
  <2>1. CASE IsRocket(S)
    BY <2>1, RocketRanks DEF IsRocket
  <2>2. CASE ~ IsRocket(S)
    <3>1. Cardinality(S) = 4 /\ \A r \in RanksOf(S) : Count(S, r) = 4
      BY <1>2, <2>2, ZhadanFacts
    <3> QED
      BY <3>1 DEF RanksWith
  <2> QED
    BY <2>1, <2>2
<1>3. ASSUME IsFeiji(S) PROVE Cardinality(S) >= 6 /\ RanksWith(S, 3) # {}
  BY <1>3 DEF IsFeiji, IsContinuous
<1>4. ASSUME IsLiandui(S)
      PROVE  Cardinality(S) >= 6 /\ RanksWith(S, 2) # {} /\ RanksWith(S, 3) = {}
  <2>1. Cardinality(S) >= 6 /\ RanksWith(S, 2) # {} /\ RanksWith(S, 2) = RanksOf(S)
    BY <1>4 DEF IsLiandui, IsContinuous
  <2> QED
    BY <2>1 DEF RanksWith
<1>5. ASSUME IsShunzi(S)
      PROVE  Cardinality(S) >= 5 /\ RanksWith(S, 2) = {} /\ RanksWith(S, 3) = {}
  <2>1. Cardinality(S) >= 5 /\ \A r \in RanksOf(S) : Count(S, r) = 1
    BY <1>5, AllRanksDiffer DEF IsShunzi
  <2> QED
    BY <2>1 DEF RanksWith
<1>6. ASSUME IsSanzhi(S) PROVE Cardinality(S) \in 3 .. 5 /\ RanksWith(S, 3) # {}
  BY <1>6 DEF IsSanzhi
<1>7. ASSUME IsDuizi(S) PROVE Cardinality(S) = 2 /\ Cardinality(RanksOf(S)) = 1
  BY <1>7 DEF IsDuizi
<1>8. ASSUME IsDanzhang(S) PROVE Cardinality(S) = 1
  BY <1>8 DEF IsDanzhang
<1> QED
  BY <1>1, <1>2, <1>3, <1>4, <1>5, <1>6, <1>7, <1>8

LEMMA OneRecogniser ==
  ASSUME NEW S \in SUBSET Card, NEW t \in DOMAIN Says(S), NEW u \in DOMAIN Says(S),
         Says(S)[t], Says(S)[u]
  PROVE  t = u
<1>1. t \in {"ZHADAN", "FEIJI", "LIANDUI", "SHUNZI", "SANZHI", "DUIZI", "DANZHANG"}
      /\ u \in {"ZHADAN", "FEIJI", "LIANDUI", "SHUNZI", "SANZHI", "DUIZI", "DANZHANG"}
  BY DEF Says
<1>2. /\ Says(S)["ZHADAN"] = IsZhadan(S) /\ Says(S)["FEIJI"] = IsFeiji(S)
      /\ Says(S)["LIANDUI"] = IsLiandui(S) /\ Says(S)["SHUNZI"] = IsShunzi(S)
      /\ Says(S)["SANZHI"] = IsSanzhi(S) /\ Says(S)["DUIZI"] = IsDuizi(S)
      /\ Says(S)["DANZHANG"] = IsDanzhang(S)
  BY DEF Says
<1> DEFINE says == Says(S)
<1> HIDE DEF says
<1> SUFFICES ASSUME says[t], says[u] PROVE t = u
  BY DEF says
<1>3. /\ says["ZHADAN"] = IsZhadan(S) /\ says["FEIJI"] = IsFeiji(S)
      /\ says["LIANDUI"] = IsLiandui(S) /\ says["SHUNZI"] = IsShunzi(S)
      /\ says["SANZHI"] = IsSanzhi(S) /\ says["DUIZI"] = IsDuizi(S)
      /\ says["DANZHANG"] = IsDanzhang(S)
  BY <1>2 DEF says
<1>4. CASE says["ZHADAN"]
  <2>1. IsZhadan(S)
    BY <1>3, <1>4
  <2>2. ~ IsFeiji(S) /\ ~ IsLiandui(S) /\ ~ IsShunzi(S) /\ ~ IsSanzhi(S) /\ ~ IsDuizi(S)
        /\ ~ IsDanzhang(S)
    BY <2>1, Apart
  <2> QED
    BY <2>2, <1>1, <1>3
<1>5. CASE says["FEIJI"]
  <2>1. IsFeiji(S)
    BY <1>3, <1>5
  <2>2. ~ IsZhadan(S) /\ ~ IsLiandui(S) /\ ~ IsShunzi(S) /\ ~ IsSanzhi(S) /\ ~ IsDuizi(S)
        /\ ~ IsDanzhang(S)
    BY <2>1, Apart
  <2> QED
    BY <2>2, <1>1, <1>3
<1>6. CASE says["LIANDUI"]
  <2>1. IsLiandui(S)
    BY <1>3, <1>6
  <2>2. ~ IsZhadan(S) /\ ~ IsFeiji(S) /\ ~ IsShunzi(S) /\ ~ IsSanzhi(S) /\ ~ IsDuizi(S)
        /\ ~ IsDanzhang(S)
    BY <2>1, Apart
  <2> QED
    BY <2>2, <1>1, <1>3
<1>7. CASE says["SHUNZI"]
  <2>1. IsShunzi(S)
    BY <1>3, <1>7
  <2>2. ~ IsZhadan(S) /\ ~ IsFeiji(S) /\ ~ IsLiandui(S) /\ ~ IsSanzhi(S) /\ ~ IsDuizi(S)
        /\ ~ IsDanzhang(S)
    BY <2>1, Apart
  <2> QED
    BY <2>2, <1>1, <1>3
<1>8. CASE says["SANZHI"]
  <2>1. IsSanzhi(S)
    BY <1>3, <1>8
  <2>2. ~ IsZhadan(S) /\ ~ IsFeiji(S) /\ ~ IsLiandui(S) /\ ~ IsShunzi(S) /\ ~ IsDuizi(S)
        /\ ~ IsDanzhang(S)
    BY <2>1, Apart
  <2> QED
    BY <2>2, <1>1, <1>3
<1>9. CASE says["DUIZI"]
  <2>1. IsDuizi(S)
    BY <1>3, <1>9
  <2>2. ~ IsZhadan(S) /\ ~ IsFeiji(S) /\ ~ IsLiandui(S) /\ ~ IsShunzi(S) /\ ~ IsSanzhi(S)
        /\ ~ IsDanzhang(S)
    BY <2>1, Apart
  <2> QED
    BY <2>2, <1>1, <1>3
<1>10. CASE says["DANZHANG"]
  <2>1. IsDanzhang(S)
    BY <1>3, <1>10
  <2>2. ~ IsZhadan(S) /\ ~ IsFeiji(S) /\ ~ IsLiandui(S) /\ ~ IsShunzi(S) /\ ~ IsSanzhi(S)
        /\ ~ IsDuizi(S)
    BY <2>1, Apart
  <2> QED
    BY <2>2, <1>1, <1>3
<1> QED
  BY <1>1, <1>4, <1>5, <1>6, <1>7, <1>8, <1>9, <1>10

-----------------------------------------------------------------------------
(* What is recorded is true of the cards                                   *)

\* The data that Analyse can record, with what is true of the cards then.
LEMMA Recorded ==
  ASSUME NEW S \in SUBSET Card
  PROVE  \/ Analyse(S) = Invalid
         \/ Analyse(S) = ZhadanData(S) /\ IsZhadan(S)
         \/ Analyse(S) = FeijiData(S) /\ IsFeiji(S)
         \/ Analyse(S) = LianduiData(S) /\ IsLiandui(S)
         \/ Analyse(S) = ShunziData(S) /\ IsShunzi(S)
         \/ Analyse(S) = SanzhiData(S) /\ IsSanzhi(S)
         \/ Analyse(S) = DuiziData(S) /\ IsDuizi(S)
         \/ Analyse(S) = DanzhangData(S) /\ IsDanzhang(S)
BY DEF Analyse

Sound(d, S) == Describes(d, S) /\ (d.count > 0 => d.rank + d.count <= 12)
Listed(d) == d # Invalid => d \in AllData

\* What a chain of a length, that ends at the ace or below, is recorded as.
LEMMA ChainData ==
  ASSUME NEW type, NEW N, NEW subs, NEW m \in 0 .. 11, NEW n \in N, NEW s \in subs,
         n \in 1 .. 12, m + n <= 12
  PROVE  /\ Data(type, m, n, s) \in Chains(type, N, subs)
         /\ Data(type, m, n, s).count > 0 =>
              Data(type, m, n, s).rank + Data(type, m, n, s).count <= 12
<1>1. Data(type, m, n, s) \in Chains(type, N, subs)
  BY DEF Chains
<1>2. Data(type, m, n, s).count = n /\ Data(type, m, n, s).rank = m
  BY DEF Data
<1> QED
  BY <1>1, <1>2

LEMMA ZhadanSound ==
  ASSUME NEW S \in SUBSET Card, IsZhadan(S)
  PROVE  Sound(ZhadanData(S), S) /\ Listed(ZhadanData(S))
<1>1. CASE IsRocket(S)
  <2>1. ZhadanData(S) = Data("ZHADAN", InvalidRank, 0, 0)
    BY <1>1 DEF ZhadanData
  <2>2. S = {52, 53}
    BY <1>1 DEF IsRocket
  <2> QED
    BY <2>1, <2>2 DEF Sound, Listed, Describes, Data, AllData, InvalidRank
<1>2. CASE ~ IsRocket(S)
  <2> DEFINE m == Min(RanksOf(S))
  <2>1. ZhadanData(S) = Data("ZHADAN", m, 0, 0)
    BY <1>2 DEF ZhadanData
  <2>2. m \in 0 .. 12 /\ Count(S, m) = 4 /\ Cardinality(S) = 4
    BY <1>2, ZhadanFacts
  <2> HIDE DEF m
  <2> QED
    BY <2>1, <2>2 DEF Sound, Listed, Describes, Data, AllData, InvalidRank
<1> QED
  BY <1>1, <1>2

LEMMA DanzhangSound ==
  ASSUME NEW S \in SUBSET Card, IsDanzhang(S)
  PROVE  Sound(DanzhangData(S), S) /\ Listed(DanzhangData(S))
<1> DEFINE m == Min(RanksOf(S))
<1>1. DanzhangData(S) = Data("DANZHANG", m, 0, 0)
  BY DEF DanzhangData
<1>2. m \in 0 .. 14 /\ Count(S, m) = 1 /\ Cardinality(S) = 1
  BY DanzhangFacts DEF IsDanzhang
<1> HIDE DEF m
<1> QED
  BY <1>1, <1>2 DEF Sound, Listed, Describes, Data, AllData

LEMMA DuiziSound ==
  ASSUME NEW S \in SUBSET Card, IsDuizi(S)
  PROVE  Sound(DuiziData(S), S) /\ Listed(DuiziData(S))
<1> DEFINE m == Min(RanksOf(S))
<1>1. DuiziData(S) = Data("DUIZI", m, 0, 0)
  BY DEF DuiziData
<1>2. m \in 0 .. 12 /\ Count(S, m) = 2 /\ Cardinality(S) = 2
  BY DuiziFacts DEF IsDuizi
<1> HIDE DEF m
<1> QED
  BY <1>1, <1>2 DEF Sound, Listed, Describes, Data, AllData

LEMMA SanzhiSound ==
  ASSUME NEW S \in SUBSET Card, IsSanzhi(S)
  PROVE  Sound(SanzhiData(S), S) /\ Listed(SanzhiData(S))
<1>1. PICK m : SanzhiData(S) = Data("SANZHI", m, 0, Cardinality(S) - 3)
  BY DEF SanzhiData
<1>2. SanzhiData(S).rank = m
  BY <1>1 DEF Data
<1>3. m \in 0 .. 12 /\ Cardinality(S) - 3 \in 0 .. 2 /\ Cardinality(S) \in Nat
  BY <1>2, SanzhiFacts, CardsFinite
<1>4. Describes(SanzhiData(S), S)
  BY <1>1, <1>3, SanzhiFacts DEF Describes, Data
<1>5. SanzhiData(S).count = 0
  BY <1>1 DEF Data
<1>6. Listed(SanzhiData(S))
  BY <1>1, <1>3 DEF Listed, Data, AllData
<1> QED
  BY <1>4, <1>5, <1>6 DEF Sound

LEMMA ShunziSound ==
  ASSUME NEW S \in SUBSET Card, IsShunzi(S)
  PROVE  Sound(ShunziData(S), S) /\ Listed(ShunziData(S))
<1> DEFINE m == Min(RanksOf(S))  n == Cardinality(S)
<1>1. ShunziData(S) = Data("SHUNZI", m, n, 0)
  BY DEF ShunziData
<1>2. /\ m \in 0 .. 11 /\ n \in 5 .. 12 /\ m + n <= 12
      /\ \A r \in m .. m + n - 1 : Count(S, r) = 1
  BY ShunziFacts
<1>3. Cardinality(S) = n
  OBVIOUS
<1> HIDE DEF m, n
<1>4. Data("SHUNZI", m, n, 0) \in AllData
  <2> DEFINE d == Data("SHUNZI", m, n, 0)
  <2>1. d \in Chains("SHUNZI", 5 .. 12, {0}) /\ (d.count > 0 => d.rank + d.count <= 12)
    <3>1. n \in 1 .. 12 /\ 0 \in {0}
      BY <1>2
    <3> QED
      BY <1>2, <3>1, ChainData, Zenon
  <2> HIDE DEF d
  <2>2. d \in AllData
    BY <2>1 DEF AllData
  <2> QED
    BY <2>2 DEF d
<1>5. Describes(ShunziData(S), S)
  BY <1>1, <1>2, <1>3 DEF Describes, Data, Chain
<1> QED
  BY <1>1, <1>2, <1>4, <1>5 DEF Sound, Listed, Data

LEMMA LianduiSound ==
  ASSUME NEW S \in SUBSET Card, IsLiandui(S)
  PROVE  Sound(LianduiData(S), S) /\ Listed(LianduiData(S))
<1> DEFINE m == Min(RanksOf(S))  n == Cardinality(RanksOf(S))
<1>1. LianduiData(S) = Data("LIANDUI", m, n, 0)
  BY DEF LianduiData
<1>2. /\ m \in 0 .. 11 /\ n \in 3 .. 12 /\ m + n <= 12 /\ Cardinality(S) = 2 * n
      /\ \A r \in m .. m + n - 1 : Count(S, r) = 2
  BY LianduiFacts
<1> HIDE DEF m, n
<1>3. Data("LIANDUI", m, n, 0) \in AllData
  <2> DEFINE d == Data("LIANDUI", m, n, 0)
  <2>1. d \in Chains("LIANDUI", 3 .. 12, {0}) /\ (d.count > 0 => d.rank + d.count <= 12)
    <3>1. n \in 1 .. 12 /\ 0 \in {0}
      BY <1>2
    <3> QED
      BY <1>2, <3>1, ChainData, Zenon
  <2> HIDE DEF d
  <2>2. d \in AllData
    BY <2>1 DEF AllData
  <2> QED
    BY <2>2 DEF d
<1>4. Describes(LianduiData(S), S)
  BY <1>1, <1>2 DEF Describes, Data, Chain
<1> QED
  BY <1>1, <1>2, <1>3, <1>4 DEF Sound, Listed, Data

LEMMA FeijiSound ==
  ASSUME NEW S \in SUBSET Card, IsFeiji(S)
  PROVE  Sound(FeijiData(S), S) /\ Listed(FeijiData(S))
<1> DEFINE m == Min(RanksWith(S, 3))  n == Cardinality(RanksWith(S, 3))  s == FeijiSub(S)
<1>1. FeijiData(S) = Data("FEIJI", m, n, s)
  BY DEF FeijiData
<1>2. /\ m \in 0 .. 11 /\ n \in 2 .. 12 /\ m + n <= 12 /\ s \in 0 .. 2
      /\ Cardinality(S) = (3 + s) * n
      /\ \A r \in m .. m + n - 1 : Count(S, r) = 3
      /\ s = 2 => \A c \in S : Count(S, Rank(c)) \in {2, 3}
  BY FeijiFacts
<1> HIDE DEF m, n, s
<1>3. Data("FEIJI", m, n, s) \in AllData
  <2> DEFINE d == Data("FEIJI", m, n, s)
  <2>1. d \in Chains("FEIJI", 2 .. 12, 0 .. 2) /\ (d.count > 0 => d.rank + d.count <= 12)
    <3>1. n \in 1 .. 12 /\ s \in 0 .. 2
      BY <1>2
    <3> QED
      BY <1>2, <3>1, ChainData, Zenon
  <2> HIDE DEF d
  <2>2. d \in AllData
    BY <2>1 DEF AllData
  <2> QED
    BY <2>2 DEF d
<1>4. Describes(FeijiData(S), S)
  BY <1>1, <1>2 DEF Describes, Data, Chain
<1> QED
  BY <1>1, <1>2, <1>3, <1>4 DEF Sound, Listed, Data

LEMMA RecordedSound ==
  ASSUME NEW S \in SUBSET Card
  PROVE  Sound(Analyse(S), S) /\ Listed(Analyse(S))
<1>1. Sound(Invalid, S) /\ Listed(Invalid)
  BY DEF Sound, Listed, Describes, Invalid, Data
<1> QED
  BY <1>1, Recorded, ZhadanSound, FeijiSound, LianduiSound, ShunziSound, SanzhiSound,
     DuiziSound, DanzhangSound

-----------------------------------------------------------------------------
(* Beating                                                                 *)

LEMMA AllDataTypes ==
  ASSUME NEW d \in AllData
  PROVE  d.rank \in Nat
BY DEF AllData, Chains, Data, InvalidRank

LEMMA NothingBeatsItself == ASSUME NEW d \in AllData PROVE ~ Greater(d, d)
BY AllDataTypes DEF Greater, ZhadanGreater

LEMMA BeatingIsTransitive ==
  ASSUME NEW d \in AllData, NEW e \in AllData, NEW f \in AllData,
         Greater(d, e), Greater(e, f)
  PROVE  Greater(d, f)
<1>1. d.rank \in Nat /\ e.rank \in Nat /\ f.rank \in Nat
  BY AllDataTypes
<1> QED
  BY <1>1 DEF Greater, ZhadanGreater

-----------------------------------------------------------------------------
(* The theorems                                                            *)

\* Every combination that the enumeration meets is a set of cards.
HandOK == hand \subseteq Card

LEMMA HandIsCards == Spec => []HandOK
<1>1. Init => HandOK
  BY DEF Init, HandOK
<1>2. HandOK /\ [Next]_hand => HandOK'
  <2> SUFFICES ASSUME HandOK, Next PROVE HandOK'
    BY DEF HandOK
  <2>1. PICK c \in Pool(hand) : hand' = hand \cup {c}
    BY DEF Next, AddCard
  <2>2. c \in Card
    <3>1. CASE c \in {52, 53}
      BY <3>1 DEF Card
    <3>2. CASE c \notin {52, 53}
      <4>1. PICK r \in RankPool : Count(hand, r) < 4 /\ c = NextOfRank(r, Count(hand, r))
        BY <2>1, <3>2 DEF Pool
      <4>2. Count(hand, r) \in Nat
        BY CountBounds DEF HandOK
      <4> QED
        BY <4>1, <4>2, RankPoolAssumption DEF NextOfRank, Card
    <3> QED
      BY <3>1, <3>2
  <2> QED
    BY <2>1, <2>2 DEF HandOK
<1> QED
  BY <1>1, <1>2, PTL DEF Spec

\* Whatever combination is analysed, at most one recogniser says yes to it, so
\* the order in which DoAnalyse tries them does not matter
\* (LandlordsCard.cpp:34-51).
THEOREM CardOrderIrrelevant == Spec => []OrderIrrelevant
<1>1. HandOK => OrderIrrelevant
  <2> SUFFICES ASSUME HandOK, NEW t \in DOMAIN Says(hand), NEW u \in DOMAIN Says(hand),
                      Says(hand)[t], Says(hand)[u]
               PROVE  t = u
    BY DEF OrderIrrelevant
  <2> QED
    BY OneRecogniser DEF HandOK
<1> QED
  BY <1>1, HandIsCards, PTL

\* The data that DoAnalyse records describe the cards: the groups it names are
\* there, in a chain that ends below the 2, and there are no other cards than
\* these and the ones they carry (LandlordsCard.cpp:54-187).
THEOREM CardAnalyseSound == Spec => []AnalyseSound
<1>1. HandOK => AnalyseSound
  BY RecordedSound DEF HandOK, AnalyseSound, Sound
<1> QED
  BY <1>1, HandIsCards, PTL

\* Beating is irreflexive and transitive on what any combination can be recorded
\* as, so a trick has one winner (CardTypeData.h, all operator>).
THEOREM CardBeatsIsStrictOrder == Spec => []BeatsIsStrictOrder
<1>1. HandOK => BeatsIsStrictOrder
  <2> SUFFICES ASSUME HandOK, NEW d, d = Analyse(hand), d # Invalid
               PROVE  /\ d \in AllData
                      /\ d \notin Beaten[d]
                      /\ \A e \in Beaten[d] : Beaten[e] \subseteq Beaten[d]
    BY DEF BeatsIsStrictOrder
  <2>1. d \in AllData
    BY RecordedSound DEF HandOK, Listed
  <2>2. \A e \in AllData : Beaten[e] = {f \in AllData : Greater(e, f)}
    BY DEF Beaten
  <2>3. d \notin Beaten[d]
    BY <2>1, <2>2, NothingBeatsItself
  <2>4. ASSUME NEW e \in Beaten[d], NEW f \in Beaten[e] PROVE f \in Beaten[d]
    <3>1. e \in AllData /\ Greater(d, e)
      BY <2>1, <2>2
    <3>2. f \in AllData /\ Greater(e, f)
      BY <3>1, <2>2
    <3> QED
      BY <3>1, <3>2, <2>1, <2>2, BeatingIsTransitive
  <2> QED
    BY <2>1, <2>3, <2>4
<1> QED
  BY <1>1, HandIsCards, PTL
=============================================================================
