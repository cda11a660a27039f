----------------------- MODULE LandlordsProto_proofs -----------------------
(***************************************************************************)
(* Proofs about LandlordsProto, for all values of the fields and messages  *)
(* of any length.                                                          *)
(***************************************************************************)
EXTENDS LandlordsProto, SequenceTheorems, WellFoundedInduction, NaturalsInduction, TLAPS

ItemType == [field : Int, kind : Kind, values : Seq(Int)]

\* An item of one integer has it.
Wire == {it \in ItemType : it.kind = "varint" => it.values # <<>>}

\* An object a method may have left behind.
Clean(o) == o \in Object /\ \A f \in Field \ o.has : o.value[f] = 0

LEMMA ClassFields ==
  ASSUME type \in DOMAIN ClassOf
  PROVE  C.repeated \subseteq {1, 2} /\ C.scalar \subseteq Field
BY DEF C, ClassOf, Class, DealCard, GrabLandlord, GrabLandlordOver, PlayCard, GameOver,
       DealCardFields, GrabLandlordFields, GrabLandlordOverFields, PlayCardFields,
       GameOverFields, Field

-----------------------------------------------------------------------------
(* The methods keep what is not set at its default                         *)

LEMMA NewClean == Clean(New)
<1>1. <<>> \in Seq(Int) /\ 0 \in Int
  OBVIOUS
<1> QED
  BY <1>1 DEF Clean, New, Object

LEMMA SetClean ==
  ASSUME NEW o, Clean(o), NEW f \in Field, NEW v \in Int
  PROVE  Clean(Set(o, f, v))
BY DEF Clean, Set, Object

LEMMA ListClean ==
  ASSUME NEW o, Clean(o), NEW f \in Field, NEW l \in Seq(Int)
  PROVE  Clean([o EXCEPT !.list[f] = l])
BY DEF Clean, Object

LEMMA ClearFieldClean ==
  ASSUME NEW o, Clean(o), NEW f \in Field
  PROVE  Clean(ClearField(o, f))
<1>1. <<>> \in Seq(Int) /\ 0 \in Int
  OBVIOUS
<1> QED
  BY <1>1 DEF Clean, ClearField, Object

\* An object without a set field has only defaults, so Clear makes a new one.
LEMMA ClearIsNew ==
  ASSUME NEW o, Clean(o)
  PROVE  Clear(o) = New
<1>1. CASE o.has = {}
  <2>1. o.value = [f \in Field |-> 0]
    BY <1>1 DEF Clean, Object
  <2>2. Clear(o) = [New EXCEPT !.value = o.value]
    BY <1>1 DEF Clear
  <2> QED
    BY <2>1, <2>2 DEF New
<1>2. CASE o.has # {}
  BY <1>2 DEF Clear, New
<1> QED
  BY <1>1, <1>2

\* A copy is what it was made of: New is empty, and what is not set is 0.
LEMMA CopyIsEqual ==
  ASSUME NEW o, Clean(o), NEW from, Clean(from)
  PROVE  CopyFrom(o, from) = from
<1>1. CopyFrom(o, from) = MergeFrom(New, from)
  BY ClearIsNew DEF CopyFrom
<1>2. from.has = New.has \cup from.has
  BY DEF New
<1>3. from.value = [f \in Field |-> IF f \in from.has THEN from.value[f] ELSE New.value[f]]
  BY DEF New, Clean, Object
<1>4. from.list = [f \in Field |-> New.list[f] \o from.list[f]]
  <2>1. \A f \in Field : <<>> \o from.list[f] = from.list[f]
    BY ConcatEmptySeq DEF Clean, Object
  <2>2. from.list = [f \in Field |-> from.list[f]]
    BY DEF Clean, Object
  <2> QED
    BY <2>1, <2>2 DEF New
<1>5. from = [has |-> from.has, value |-> from.value, list |-> from.list]
  BY DEF Clean, Object
<1> QED
  BY <1>1, <1>2, <1>3, <1>4, <1>5 DEF MergeFrom

-----------------------------------------------------------------------------
(* What may be on the wire                                                 *)

LEMMA VarintGood == ASSUME NEW f \in Field, NEW v \in Int PROVE Varint(f, v) \in Wire
<1>1. <<v>> \in Seq(Int) /\ <<v>> # <<>>
  OBVIOUS
<1> QED
  BY <1>1 DEF Varint, Item, Wire, ItemType, Kind, Field

LEMMA ItemsGood ==
  ASSUME NEW c, NEW o, Clean(o), NEW f \in Field
  PROVE  Items(c, o, f) \in Seq(Wire)
<1>1. o.list[f] \in Seq(Int) /\ o.value[f] \in Int
  BY DEF Clean, Object
<1>2. CASE f \in c.repeated
  <2>1. PICK n \in Nat : n = Len(o.list[f])
    BY <1>1
  <2>2. DOMAIN o.list[f] = 1 .. n
    BY <1>1, <2>1
  <2>3. \A i \in 1 .. n : Varint(f, o.list[f][i]) \in Wire
    BY <1>1, <2>1, VarintGood
  <2> HIDE DEF Wire
  <2>4. [i \in 1 .. n |-> Varint(f, o.list[f][i])] \in Seq(Wire)
    BY <2>3, SeqDef
  <2> QED
    BY <1>2, <2>2, <2>4 DEF Items
<1>3. CASE f \notin c.repeated
  <2>1. Varint(f, o.value[f]) \in Wire
    BY <1>1, VarintGood
  <2> HIDE DEF Wire
  <2>2. <<Varint(f, o.value[f])>> \in Seq(Wire) /\ <<>> \in Seq(Wire)
    BY <2>1
  <2> QED
    BY <1>3, <2>2 DEF Items
<1> QED
  BY <1>2, <1>3

LEMMA ForeignGood ==
  ASSUME type \in DOMAIN ClassOf
  PROVE  \A x \in Foreign(C) \cup Broken : x \in Wire
<1>1. <<1>> \in Seq(Int) /\ <<>> \in Seq(Int) /\ <<1>> # <<>>
  OBVIOUS
<1>2. C.repeated \subseteq Int /\ C.scalar \subseteq Int
  BY ClassFields DEF Field
<1>3. \A f \in Int, k \in {"bytes", "fixed", "cut", "end_group"}, vs \in {<<>>, <<1>>} :
        Item(f, k, vs) \in Wire
  BY <1>1 DEF Item, Wire, ItemType, Kind
<1>4. Item(5, "varint", <<1>>) \in Wire
  BY <1>1 DEF Item, Wire, ItemType, Kind
<1> HIDE DEF Wire
<1> QED
  BY <1>2, <1>3, <1>4 DEF Foreign, Broken

LEMMA WiresGood ==
  ASSUME type \in DOMAIN ClassOf, NEW o, Clean(o), NEW w \in Wires(C, o)
  PROVE  w \in Seq(Wire)
<1>1. /\ Items(C, o, 1) \in Seq(Wire) /\ Items(C, o, 2) \in Seq(Wire)
      /\ Items(C, o, 3) \in Seq(Wire) /\ Items(C, o, 4) \in Seq(Wire)
  BY ItemsGood DEF Field
<1>2. <<Item(1, "bytes", o.list[1])>> \in Seq(Wire)
  <2>1. Item(1, "bytes", o.list[1]) \in Wire
    BY DEF Clean, Object, Item, Wire, ItemType, Kind, Field
  <2> HIDE DEF Wire
  <2> QED
    BY <2>1
<1>3. \A x \in Foreign(C) \cup Broken : x \in Wire
  BY ForeignGood
<1> HIDE DEF Wire
<1>4. Write(C, o) \in Seq(Wire) /\ Packed(C, o) \in Seq(Wire)
  BY <1>1, <1>2, ConcatProperties DEF Write, Packed
<1>5. SerializeProtoPacket(C, o) \in Seq(Wire)
  BY <1>4 DEF SerializeProtoPacket
<1>6. ASSUME NEW p \in Seq(Wire), NEW i \in 1 .. Len(p) + 1, NEW x \in Wire
      PROVE  InsertAt(p, i, x) \in Seq(Wire)
  <2>1. SubSeq(p, 1, i - 1) \in Seq(Wire) /\ SubSeq(p, i, Len(p)) \in Seq(Wire)
    <3>1. \A j \in 1 .. Len(p) : p[j] \in Wire
      BY <1>6, ElementOfSeq
    <3> QED
      BY <3>1, SubSeqProperties
  <2>2. <<x>> \in Seq(Wire)
    BY <1>6
  <2> QED
    BY <2>1, <2>2, ConcatProperties DEF InsertAt
<1> QED
  BY <1>3, <1>4, <1>5, <1>6 DEF Wires

-----------------------------------------------------------------------------
(* The inductive invariant                                                 *)

IInv == /\ type \in DOMAIN ClassOf
        /\ Clean(out) /\ Clean(in)
        /\ wire \in Seq(Wire)
        /\ parsing \in {"no", "reading", "ok", "malformed", "refused"}

LEMMA InvInit == Init => IInv
BY NewClean DEF Init, IInv

LEMMA InvFill ==
  ASSUME IInv, NEW o, Clean(o), Fill(o)
  PROVE  IInv'
BY DEF IInv, Fill, Clean

\* A method of the object that is written leaves it clean.
LEMMA InvMethods ==
  ASSUME IInv, SetField \/ AddElement \/ SetElement \/ ClearOne \/ ClearAll \/ Copy
  PROVE  IInv'
<1>1. Clean(out) /\ Clean(in) /\ C.repeated \subseteq Field /\ C.scalar \subseteq Field
  BY ClassFields DEF IInv, Field
<1>2. CASE SetField
  <2>1. PICK f \in C.scalar, v \in Values : Fill(Set(out, f, v))
    BY <1>2 DEF SetField
  <2> QED
    BY <1>1, <2>1, SetClean, InvFill, ValuesAssumption
<1>3. CASE AddElement
  <2>1. PICK f \in C.repeated, v \in Values : Fill(Add(out, f, v))
    BY <1>3 DEF AddElement
  <2>2. Append(out.list[f], v) \in Seq(Int)
    BY <1>1, ValuesAssumption DEF Clean, Object
  <2>3. Clean(Add(out, f, v))
    BY <1>1, <2>2, ListClean DEF Add
  <2> QED
    BY <2>1, <2>3, InvFill
<1>4. CASE SetElement
  <2>1. PICK f, v, i : /\ f \in C.repeated /\ v \in Values
                       /\ i \in DOMAIN out.list[f]
                       /\ Fill([out EXCEPT !.list[f][i] = v])
    BY <1>4 DEF SetElement
  <2>2. [out.list[f] EXCEPT ![i] = v] \in Seq(Int)
    <3>1. out.list[f] \in Seq(Int) /\ i \in DOMAIN out.list[f] /\ v \in Int
      BY <1>1, <2>1, ValuesAssumption DEF Clean, Object
    <3> QED
      BY <3>1, ExceptSeq
  <2>3. [out EXCEPT !.list[f][i] = v] = [out EXCEPT !.list[f] = [out.list[f] EXCEPT ![i] = v]]
    OBVIOUS
  <2>4. Clean([out EXCEPT !.list[f][i] = v])
    BY <1>1, <2>1, <2>2, <2>3, ListClean
  <2> QED
    BY <2>1, <2>4, InvFill
<1>5. CASE ClearOne
  <2>1. PICK f \in C.scalar \cup C.repeated : Fill(ClearField(out, f))
    BY <1>5 DEF ClearOne
  <2> QED
    BY <1>1, <2>1, ClearFieldClean, InvFill
<1>6. CASE ClearAll
  BY <1>1, <1>6, ClearIsNew, NewClean, InvFill DEF ClearAll
<1>7. CASE Copy
  BY <1>1, <1>7, CopyIsEqual, InvFill DEF Copy
<1> QED
  BY <1>2, <1>3, <1>4, <1>5, <1>6, <1>7

LEMMA InvSend == ASSUME IInv, Send PROVE IInv'
<1>1. wire' \in Seq(Wire)
  BY WiresGood DEF Send, IInv
<1>2. Clean(in)'
  <2>1. Clean(Clear(in))
    BY ClearIsNew, NewClean DEF IInv
  <2> QED
    BY <2>1 DEF Send, Clean
<1> QED
  BY <1>1, <1>2 DEF Send, IInv, Clean

LEMMA InvReadItem == ASSUME IInv, ReadItem PROVE IInv'
<1> DEFINE it == Head(wire)
<1>1. it \in Wire /\ Tail(wire) \in Seq(Wire)
  <2>1. wire \in Seq(Wire) /\ wire # <<>>
    BY DEF ReadItem, IInv
  <2> HIDE DEF Wire
  <2> QED
    BY <2>1, HeadTailProperties
<1>2. Clean(in) /\ C.repeated \subseteq Field /\ C.scalar \subseteq Field
  BY ClassFields DEF IInv, Field
<1>3. CASE Stop("malformed")
  BY <1>3 DEF Stop, IInv, Clean
<1>4. ASSUME Known(C, it) PROVE Clean(Taken(C, in, it))
  <2>1. CASE it.field \in C.repeated
    <3>1. in.list[it.field] \o it.values \in Seq(Int)
      <4>1. in.list[it.field] \in Seq(Int) /\ it.values \in Seq(Int)
        BY <1>1, <1>2, <2>1 DEF Clean, Object, Wire, ItemType
      <4> QED
        BY <4>1, ConcatProperties
    <3> QED
      BY <1>2, <2>1, <3>1, ListClean DEF Taken
  <2>2. CASE it.field \notin C.repeated
    <3>1. it.field \in C.scalar /\ it.values \in Seq(Int) /\ it.values # <<>>
      BY <1>1, <1>4, <2>2 DEF Known, Wire, ItemType
    <3>2. it.values[1] \in Int
      BY <3>1, EmptySeq
    <3> QED
      BY <1>2, <2>2, <3>1, <3>2, SetClean DEF Taken
  <2> QED
    BY <2>1, <2>2
<1>5. CASE /\ in' = (IF Known(C, it) THEN Taken(C, in, it) ELSE in)
           /\ wire' = Tail(wire) /\ UNCHANGED <<type, out, parsing>>
  <2>1. Clean(in)'
    BY <1>2, <1>4, <1>5 DEF Clean
  <2> QED
    BY <1>1, <1>5, <2>1 DEF IInv, Clean
<1> QED
  BY <1>3, <1>5 DEF ReadItem

LEMMA InvNext == IInv /\ [Next]_vars => IInv'
<1> SUFFICES ASSUME IInv, [Next]_vars PROVE IInv'
  OBVIOUS
<1>1. CASE UNCHANGED vars
  BY <1>1 DEF vars, IInv, Clean
<1>2. CASE Swap
  BY <1>2 DEF Swap, IInv, Clean
<1>3. CASE EndOfInput
  <2>1. <<>> \in Seq(Wire)
    OBVIOUS
  <2> QED
    BY <1>3, <2>1 DEF EndOfInput, Stop, IInv, Clean
<1> QED
  BY <1>1, <1>2, <1>3, InvMethods, InvSend, InvReadItem DEF Next

LEMMA Invariance == Spec => []IInv
BY InvInit, InvNext, PTL DEF Spec

-----------------------------------------------------------------------------
\* Whatever is filled in, copied, swapped and parsed, and with whatever else on
\* the wire, a field that is not set holds its default.
THEOREM UnsetFields == Spec => []UnsetIsDefault
<1>1. IInv => UnsetIsDefault
  <2>1. Seq(Wire) \subseteq Seq(ItemType)
    BY DEF Wire
  <2> QED
    BY <2>1 DEF IInv, UnsetIsDefault, Clean, ItemType
<1> QED
  BY <1>1, Invariance, PTL

\* A copy shows nothing of what its object held before, however often the
\* objects are used again.
THEOREM CopiesAreEqual == Spec => []CopiesEqual
<1>1. IInv => CopiesEqual
  BY CopyIsEqual DEF IInv, CopiesEqual
<1> QED
  BY <1>1, Invariance, PTL

-----------------------------------------------------------------------------
(* Sums                                                                    *)

\* What holds at 0 and is carried from each position to the next holds up to N.
LEMMA Climb ==
  ASSUME NEW N \in Nat, NEW T, 0 \in T, \A n \in 1 .. N : n - 1 \in T => n \in T
  PROVE  0 .. N \subseteq T
<1> DEFINE R == OpToRel(<, Nat)
           Out == {n \in 0 .. N : n \notin T}
<1> SUFFICES ASSUME Out # {} PROVE FALSE
  OBVIOUS
<1>1. IsWellFoundedOn(R, Nat)
  BY NatLessThanWellFounded
<1>6. Out \subseteq Nat /\ Out # {}
  OBVIOUS
<1>2. \A x, y \in Nat : y < x => <<y, x>> \in R
  BY DEF OpToRel
<1> HIDE DEF R
<1>3. PICK m \in Out : \A y \in Out : ~ (<<y, m>> \in R)
  <2> HIDE DEF Out
  <2> QED
    BY <1>1, <1>6, WFMin
<1>4. m \in 1 .. N /\ m - 1 \in 0 .. N /\ m - 1 \in Nat /\ m - 1 < m
  BY <1>3
<1>5. m - 1 \notin Out
  BY <1>2, <1>3, <1>4, <1>6
<1> QED
  BY <1>3, <1>4, <1>5

\* The sums of the first n of some numbers, for every n.
UpTo(up, ns) == /\ up \in [0 .. Len(ns) -> Nat] /\ up[0] = 0
                /\ \A n \in 1 .. Len(ns) : up[n] = up[n - 1] + ns[n]

LEMMA UpToExists ==
  ASSUME NEW ns \in Seq(Nat)
  PROVE  \E up : UpTo(up, ns)
<1> DEFINE N == Len(ns)
           W(n, up) == up[0] = 0 /\ \A i \in 1 .. n : up[i] = up[i - 1] + ns[i]
           T == {n \in 0 .. N : \E up \in [0 .. n -> Nat] : W(n, up)}
<1>1. N \in Nat /\ \A i \in 1 .. N : ns[i] \in Nat
  OBVIOUS
<1> HIDE DEF N
<1>2. 0 \in T
  <2>1. \E up \in [0 .. 0 -> Nat] : W(0, up)
    <3> WITNESS [i \in 0 .. 0 |-> 0] \in [0 .. 0 -> Nat]
    <3> QED
      OBVIOUS
  <2>2. 0 \in 0 .. N
    BY <1>1
  <2> QED
    BY <2>1, <2>2
<1>3. ASSUME NEW n \in 1 .. N, n - 1 \in T PROVE n \in T
  <2>1. PICK up \in [0 .. n - 1 -> Nat] : W(n - 1, up)
    BY <1>3
  <2> DEFINE next == up[n - 1] + ns[n]
             on == [i \in 0 .. n |-> IF i = n THEN next ELSE up[i]]
  <2>2. n - 1 \in 0 .. n - 1 /\ 0 \in 0 .. n - 1 /\ ns[n] \in Nat
    BY <1>1
  <2>3. next \in Nat
    BY <2>1, <2>2
  <2>4. on \in [0 .. n -> Nat] /\ on[n] = next /\ \A i \in 0 .. n - 1 : on[i] = up[i]
    BY <2>1, <2>3
  <2> HIDE DEF on
  <2>5. on[0] = 0
    BY <2>1, <2>2, <2>4
  <2>6. ASSUME NEW i \in 1 .. n PROVE on[i] = on[i - 1] + ns[i]
    <3>1. i - 1 \in 0 .. n - 1 /\ (i = n \/ (i \in 1 .. n - 1 /\ i \in 0 .. n - 1))
      OBVIOUS
    <3> QED
      BY <2>1, <2>4, <3>1
  <2>7. W(n, on)
    BY <2>5, <2>6
  <2>8. \E u \in [0 .. n -> Nat] : W(n, u)
    <3> HIDE DEF W
    <3> QED
      BY <2>4, <2>7
  <2>9. n \in 0 .. N
    BY <1>1
  <2> HIDE DEF W
  <2> QED
    BY <2>8, <2>9
<1>4. N \in T
  <2> HIDE DEF T
  <2>1. 0 .. N \subseteq T
    BY <1>1, <1>2, <1>3, Climb
  <2> QED
    BY <1>1, <2>1
<1> QED
  BY <1>4 DEF UpTo, N

\* The total is the last of them.
LEMMA TotalIsLast ==
  ASSUME NEW ns \in Seq(Nat), NEW up, UpTo(up, ns)
  PROVE  Total(ns) = up[Len(ns)] /\ Total(ns) \in Nat
<1> DEFINE N == Len(ns)
           f[i \in 0 .. N] == IF i = 0 THEN 0 ELSE f[i - 1] + ns[i]
           T == {n \in 0 .. N : f[n] = up[n]}
<1>1. Total(ns) = f[N]
  BY DEF Total
<1>2. N \in Nat
  OBVIOUS
<1>3. up \in [0 .. N -> Nat] /\ up[0] = 0 /\ \A n \in 1 .. N : up[n] = up[n - 1] + ns[n]
  BY DEF UpTo
<1> HIDE DEF f, N
<1>4. up = [i \in 0 .. N |-> IF i = 0 THEN 0 ELSE up[i - 1] + ns[i]]
  BY <1>2, <1>3
<1>5. f = [i \in 0 .. N |-> IF i = 0 THEN 0 ELSE f[i - 1] + ns[i]]
  BY <1>4 DEF f
<1>6. f[0] = 0 /\ \A n \in 1 .. N : f[n] = f[n - 1] + ns[n]
  <2>1. 0 \in 0 .. N /\ \A n \in 1 .. N : n \in 0 .. N /\ n # 0
    BY <1>2
  <2> QED
    BY <1>5, <2>1, Zenon
<1>7. 0 \in T
  BY <1>2, <1>3, <1>6
<1>8. ASSUME NEW n \in 1 .. N, n - 1 \in T PROVE n \in T
  BY <1>2, <1>3, <1>6, <1>8
<1>9. N \in T
  <2> HIDE DEF T
  <2>1. 0 .. N \subseteq T
    BY <1>2, <1>7, <1>8, Climb
  <2> QED
    BY <1>2, <2>1
<1> QED
  BY <1>1, <1>2, <1>3, <1>9 DEF N

LEMMA TotalOfNone == Total(<<>>) = 0
<1> DEFINE up == [n \in 0 .. 0 |-> 0]
<1>1. <<>> \in Seq(Nat) /\ Len(<<>>) = 0 /\ UpTo(up, <<>>)
  BY DEF UpTo
<1> HIDE DEF up
<1>2. Total(<<>>) = up[0]
  BY <1>1, TotalIsLast
<1> QED
  BY <1>2 DEF up

LEMMA TotalOfOne == ASSUME NEW k \in Nat PROVE Total(<<k>>) = k
<1> DEFINE up == [n \in 0 .. 1 |-> IF n = 0 THEN 0 ELSE k]
           ns == <<k>>
<1>1. ns \in Seq(Nat) /\ Len(ns) = 1 /\ ns[1] = k
  OBVIOUS
<1>2. UpTo(up, ns)
  BY <1>1 DEF UpTo
<1>3. up[1] = k
  OBVIOUS
<1> HIDE DEF up, ns
<1>4. Total(ns) = k
  BY <1>1, <1>2, <1>3, TotalIsLast
<1> QED
  BY <1>4 DEF ns

LEMMA TotalOfBoth ==
  ASSUME NEW a \in Seq(Nat), NEW b \in Seq(Nat)
  PROVE  Total(a \o b) = Total(a) + Total(b)
<1> DEFINE c == a \o b
           m == Len(a)
           k == Len(b)
<1>1. /\ c \in Seq(Nat) /\ m \in Nat /\ k \in Nat /\ Len(c) = m + k
      /\ \A n \in 1 .. m : c[n] = a[n]
      /\ \A n \in m + 1 .. m + k : c[n] = b[n - m]
  OBVIOUS
<1>2. PICK x : UpTo(x, a)
  BY UpToExists
<1>3. PICK y : UpTo(y, b)
  BY UpToExists
<1> DEFINE z == [n \in 0 .. m + k |-> IF n <= m THEN x[n] ELSE x[m] + y[n - m]]
<1>4. /\ x \in [0 .. m -> Nat] /\ x[0] = 0 /\ \A n \in 1 .. m : x[n] = x[n - 1] + a[n]
      /\ y \in [0 .. k -> Nat] /\ y[0] = 0 /\ \A n \in 1 .. k : y[n] = y[n - 1] + b[n]
  BY <1>2, <1>3 DEF UpTo
<1>5. /\ Total(a) = x[m] /\ Total(b) = y[k]
  BY <1>2, <1>3, TotalIsLast
<1> HIDE DEF c, m, k
<1>6. /\ z \in [0 .. m + k -> Nat] /\ \A n \in 0 .. m : z[n] = x[n]
      /\ \A n \in 0 .. k : z[m + n] = x[m] + y[n]
  <2>1. ASSUME NEW n \in 0 .. m PROVE z[n] = x[n] /\ x[n] \in Nat /\ n \in 0 .. m + k
    BY <1>1, <1>4
  <2>2. ASSUME NEW n \in 0 .. k PROVE z[m + n] = x[m] + y[n]
    <3>1. m + n \in 0 .. m + k /\ (m + n) - m = n /\ (m + n <= m => n = 0) /\ x[m] \in Nat
      BY <1>1, <1>4
    <3>2. x[m] + y[0] = x[m]
      BY <1>4, <3>1
    <3>3. CASE n = 0
      BY <1>1, <3>1, <3>2, <3>3
    <3>4. CASE n # 0
      BY <3>1, <3>4
    <3> QED
      BY <3>3, <3>4
  <2>3. ASSUME NEW n \in 0 .. m + k PROVE z[n] \in Nat
    <3>1. CASE n <= m
      BY <1>1, <1>4, <3>1
    <3>2. CASE ~(n <= m)
      <4>1. n - m \in 0 .. k /\ m \in 0 .. m
        BY <1>1, <3>2
      <4>2. x[m] \in Nat /\ y[n - m] \in Nat
        BY <1>4, <4>1
      <4> QED
        BY <3>2, <4>2
    <3> QED
      BY <3>1, <3>2
  <2> QED
    BY <2>1, <2>2, <2>3
<1> HIDE DEF z
<1>7. ASSUME NEW n \in 1 .. m + k PROVE z[n] = z[n - 1] + c[n]
  <2>1. CASE n \in 1 .. m
    BY <1>1, <1>4, <1>6, <2>1
  <2>2. CASE n \in m + 1 .. m + k
    <3> DEFINE i == n - m
    <3>1. /\ i \in 1 .. k /\ i - 1 \in 0 .. k /\ i \in 0 .. k /\ n = m + i /\ n - 1 = m + (i - 1)
          /\ c[n] = b[i]
      BY <1>1, <2>2
    <3> HIDE DEF i
    <3>2. z[n] = x[m] + y[i] /\ z[n - 1] = x[m] + y[i - 1] /\ y[i] = y[i - 1] + b[i]
      BY <1>4, <1>6, <3>1
    <3>3. x[m] \in Nat /\ y[i - 1] \in Nat /\ b[i] \in Nat
      <4>1. m \in 0 .. m
        BY <1>1
      <4>2. b[i] \in Nat
        BY <3>1 DEF k
      <4> QED
        BY <1>4, <3>1, <4>1, <4>2
    <3> QED
      BY <3>1, <3>2, <3>3
  <2> QED
    BY <1>1, <2>1, <2>2
<1>8. UpTo(z, c)
  BY <1>1, <1>4, <1>6, <1>7 DEF UpTo
<1>9. Total(c) = z[m + k]
  BY <1>1, <1>8, TotalIsLast
<1> QED
  BY <1>1, <1>5, <1>6, <1>9 DEF c

LEMMA TotalOneMoreEach ==
  ASSUME NEW a \in Seq(Nat), NEW b \in Seq(Nat), Len(b) = Len(a),
         \A n \in 1 .. Len(a) : b[n] = 1 + a[n]
  PROVE  Total(b) = Len(a) + Total(a)
<1> DEFINE m == Len(a)
<1>1. PICK x : UpTo(x, a)
  BY UpToExists
<1> DEFINE z == [n \in 0 .. m |-> n + x[n]]
<1>2. /\ x \in [0 .. m -> Nat] /\ x[0] = 0 /\ \A n \in 1 .. m : x[n] = x[n - 1] + a[n]
      /\ m \in Nat /\ \A n \in 1 .. m : a[n] \in Nat /\ b[n] = 1 + a[n]
  BY <1>1 DEF UpTo
<1>3. Total(a) = x[m]
  BY <1>1, TotalIsLast
<1>4. UpTo(z, b)
  <2> HIDE DEF m
  <2>1. z \in [0 .. m -> Nat] /\ z[0] = 0
    BY <1>2
  <2>2. ASSUME NEW n \in 1 .. m PROVE z[n] = z[n - 1] + b[n]
    <3>1. n \in 0 .. m /\ n - 1 \in 0 .. m
      BY <1>2
    <3>2. z[n] = n + x[n] /\ z[n - 1] = (n - 1) + x[n - 1] /\ x[n - 1] \in Nat
      BY <1>2, <3>1
    <3>3. x[n] = x[n - 1] + a[n] /\ b[n] = 1 + a[n] /\ a[n] \in Nat
      BY <1>2
    <3> HIDE DEF z
    <3> QED
      BY <3>2, <3>3
  <2> QED
    BY <2>1, <2>2 DEF UpTo, m
<1>5. Total(b) = z[m]
  BY <1>4, TotalIsLast
<1> QED
  BY <1>2, <1>3, <1>5

-----------------------------------------------------------------------------
(* Sizes                                                                   *)

\* An object has no fields but those of its class.
Member(c, o) == /\ o.has \subseteq c.scalar
                /\ \A f \in Field \ c.repeated : o.list[f] = <<>>

LEMMA Int32SizeNat ==
  ASSUME NEW v \in Int
  PROVE  Int32Size(v) \in Nat /\ Int32Size(v) > 0
BY DEF Int32Size

LEMMA SizesNat ==
  ASSUME NEW vs \in Seq(Int)
  PROVE  /\ [i \in DOMAIN vs |-> Int32Size(vs[i])] \in Seq(Nat)
         /\ Len([i \in DOMAIN vs |-> Int32Size(vs[i])]) = Len(vs)
         /\ Sizes(vs) \in Nat
<1> DEFINE ns == [i \in DOMAIN vs |-> Int32Size(vs[i])]
           N == Len(vs)
<1>1. N \in Nat /\ DOMAIN vs = 1 .. N /\ \A i \in 1 .. N : vs[i] \in Int
  OBVIOUS
<1>2. ns \in [1 .. N -> Nat]
  BY <1>1, Int32SizeNat
<1>3. Sizes(vs) = Total(ns)
  BY DEF Sizes
<1> HIDE DEF ns, N
<1>4. ns \in Seq(Nat) /\ Len(ns) = N
  BY <1>1, <1>2
<1>5. Total(ns) \in Nat
  BY <1>4, UpToExists, TotalIsLast
<1> QED
  BY <1>3, <1>4, <1>5 DEF ns, N

LEMMA SizesOfOne ==
  ASSUME NEW v \in Int
  PROVE  Sizes(<<v>>) = Int32Size(v)
<1>1. [i \in DOMAIN <<v>> |-> Int32Size(<<v>>[i])] = <<Int32Size(v)>>
  OBVIOUS
<1> QED
  BY <1>1, Int32SizeNat, TotalOfOne DEF Sizes

\* The bytes of some items.
BytesEach(w) == [i \in DOMAIN w |-> 1 + Sizes(w[i].values)]
Bytes(w) == Total(BytesEach(w))

LEMMA BytesNat ==
  ASSUME NEW w \in Seq(Wire)
  PROVE  /\ BytesEach(w) \in Seq(Nat) /\ Len(BytesEach(w)) = Len(w)
         /\ \A i \in 1 .. Len(w) : BytesEach(w)[i] = 1 + Sizes(w[i].values)
         /\ Bytes(w) \in Nat
<1> DEFINE N == Len(w)
<1> HIDE DEF Wire
<1>1. N \in Nat /\ DOMAIN w = 1 .. N /\ \A i \in 1 .. N : w[i] \in Wire
  OBVIOUS
<1>2. \A it \in Wire : 1 + Sizes(it.values) \in Nat
  <2>1. \A it \in Wire : it.values \in Seq(Int)
    BY DEF Wire, ItemType
  <2>2. ASSUME NEW it \in Wire PROVE 1 + Sizes(it.values) \in Nat
    <3>1. Sizes(it.values) \in Nat
      BY <2>1, SizesNat
    <3> QED
      BY <3>1
  <2> QED
    BY <2>2
<1>3. BytesEach(w) \in [1 .. N -> Nat] /\ \A i \in 1 .. N : BytesEach(w)[i] = 1 + Sizes(w[i].values)
  BY <1>1, <1>2 DEF BytesEach
<1> HIDE DEF N
<1>4. BytesEach(w) \in Seq(Nat) /\ Len(BytesEach(w)) = N
  BY <1>1, <1>3
<1>5. Bytes(w) \in Nat
  BY <1>4, UpToExists, TotalIsLast DEF Bytes
<1> QED
  BY <1>3, <1>4, <1>5 DEF N

LEMMA JoinParts ==
  ASSUME NEW S, NEW a \in Seq(S), NEW b \in Seq(S)
  PROVE  /\ a \o b \in Seq(S) /\ Len(a) \in Nat /\ Len(b) \in Nat
         /\ Len(a \o b) = Len(a) + Len(b)
         /\ \A i \in 1 .. Len(a) : (a \o b)[i] = a[i]
         /\ \A i \in Len(a) + 1 .. Len(a) + Len(b) : (a \o b)[i] = b[i - Len(a)]
OBVIOUS

LEMMA BytesOfBoth ==
  ASSUME NEW a \in Seq(Wire), NEW b \in Seq(Wire)
  PROVE  Bytes(a \o b) = Bytes(a) + Bytes(b)
<1> HIDE DEF Wire
<1> DEFINE c == a \o b
           m == Len(a)
           k == Len(b)
<1>1. /\ c \in Seq(Wire) /\ m \in Nat /\ k \in Nat /\ Len(c) = m + k
      /\ \A i \in 1 .. m : c[i] = a[i]
      /\ \A i \in m + 1 .. m + k : c[i] = b[i - m]
  BY JoinParts
<1> DEFINE x == BytesEach(a)
           y == BytesEach(b)
           z == BytesEach(c)
<1>2. /\ x \in Seq(Nat) /\ Len(x) = m /\ \A i \in 1 .. m : x[i] = 1 + Sizes(a[i].values)
      /\ y \in Seq(Nat) /\ Len(y) = k /\ \A i \in 1 .. k : y[i] = 1 + Sizes(b[i].values)
      /\ z \in Seq(Nat) /\ Len(z) = m + k /\ \A i \in 1 .. m + k : z[i] = 1 + Sizes(c[i].values)
  BY <1>1, BytesNat
<1>3. Bytes(a) = Total(x) /\ Bytes(b) = Total(y) /\ Bytes(c) = Total(z)
  BY DEF Bytes
<1> HIDE DEF c, m, k, x, y, z
<1> DEFINE u == x \o y
<1>4. /\ u \in Seq(Nat) /\ Len(u) = m + k
      /\ \A i \in 1 .. m : u[i] = x[i]
      /\ \A i \in m + 1 .. m + k : u[i] = y[i - m]
  <2>1. /\ u \in Seq(Nat) /\ Len(u) = Len(x) + Len(y)
        /\ \A i \in 1 .. Len(x) : u[i] = x[i]
        /\ \A i \in Len(x) + 1 .. Len(x) + Len(y) : u[i] = y[i - Len(x)]
    BY <1>2, JoinParts
  <2> HIDE DEF u
  <2> QED
    BY <1>2, <2>1
<1> HIDE DEF u
<1>5. ASSUME NEW i \in 1 .. m + k PROVE z[i] = u[i]
  <2>1. CASE i \in 1 .. m
    BY <1>1, <1>2, <1>4, <2>1
  <2>2. CASE i \in m + 1 .. m + k
    <3>1. i - m \in 1 .. k /\ c[i] = b[i - m]
      BY <1>1, <2>2
    <3> QED
      BY <1>2, <1>4, <2>2, <3>1
  <2> QED
    BY <1>1, <2>1, <2>2
<1>6. z = x \o y
  <2>1. z = u
    BY <1>2, <1>4, <1>5, SeqEqual
  <2> QED
    BY <2>1 DEF u
<1>7. Total(x \o y) = Total(x) + Total(y)
  BY <1>2, TotalOfBoth
<1> QED
  BY <1>3, <1>6, <1>7 DEF c

LEMMA BytesOfNone == Bytes(<<>>) = 0
<1>1. BytesEach(<<>>) = <<>>
  BY DEF BytesEach
<1> QED
  BY <1>1, TotalOfNone DEF Bytes

LEMMA BytesOfVarint ==
  ASSUME NEW f \in Field, NEW v \in Int
  PROVE  Bytes(<<Varint(f, v)>>) = 1 + Int32Size(v)
<1>1. Varint(f, v).values = <<v>>
  BY DEF Varint, Item
<1>2. BytesEach(<<Varint(f, v)>>) = <<1 + Sizes(<<v>>)>>
  BY <1>1 DEF BytesEach
<1>3. 1 + Int32Size(v) \in Nat
  BY Int32SizeNat
<1> QED
  BY <1>2, <1>3, SizesOfOne, TotalOfOne DEF Bytes

\* What a field is counted for is what it takes.
LEMMA FieldBytes ==
  ASSUME NEW c, NEW o, Clean(o), Member(c, o), NEW f \in Field, c.repeated \cap c.scalar = {}
  PROVE  FieldSize(c, o, f) = Bytes(Items(c, o, f))
<1>1. o.list[f] \in Seq(Int) /\ o.value[f] \in Int
  BY DEF Clean, Object
<1>2. CASE f \in c.repeated
  <2> DEFINE l == o.list[f]
             N == Len(l)
             w == [i \in DOMAIN l |-> Varint(f, l[i])]
             a == [i \in DOMAIN l |-> Int32Size(l[i])]
  <2>1. w = Items(c, o, f) /\ w \in Seq(Wire)
    BY <1>2, ItemsGood DEF Items
  <2>2. N \in Nat /\ DOMAIN l = 1 .. N /\ \A i \in 1 .. N : l[i] \in Int
    BY <1>1
  <2>3. Len(w) = N /\ \A i \in 1 .. N : w[i].values = <<l[i]>>
    BY <2>2 DEF Varint, Item
  <2>4. /\ a \in Seq(Nat) /\ Len(a) = N /\ Sizes(l) = Total(a)
        /\ \A i \in 1 .. N : a[i] = Int32Size(l[i])
    BY <1>1, <2>2, SizesNat DEF Sizes
  <2>5. FieldSize(c, o, f) = 1 * N + Sizes(l)
    BY <1>2 DEF FieldSize
  <2> HIDE DEF l, N, w, a, Wire
  <2> DEFINE b == BytesEach(w)
  <2>6. b \in Seq(Nat) /\ Len(b) = N /\ \A i \in 1 .. N : b[i] = 1 + Sizes(w[i].values)
    BY <2>1, <2>3, BytesNat
  <2>7. \A i \in 1 .. N : b[i] = 1 + a[i]
    BY <2>2, <2>3, <2>4, <2>6, SizesOfOne
  <2>8. Bytes(w) = Total(b)
    BY DEF Bytes
  <2> HIDE DEF b
  <2>9. Total(b) = N + Total(a)
    BY <2>4, <2>6, <2>7, TotalOneMoreEach
  <2> QED
    BY <2>1, <2>2, <2>4, <2>5, <2>8, <2>9
<1>3. CASE f \notin c.repeated /\ f \in o.has
  <2>1. f \in c.scalar /\ Items(c, o, f) = <<Varint(f, o.value[f])>>
    BY <1>3 DEF Member, Items
  <2>2. FieldSize(c, o, f) = 1 + Int32Size(o.value[f])
    BY <1>3, <2>1 DEF FieldSize, ScalarSize
  <2> QED
    BY <1>1, <2>1, <2>2, BytesOfVarint
<1>4. CASE f \notin c.repeated /\ f \notin o.has
  <2>1. Items(c, o, f) = <<>> /\ FieldSize(c, o, f) = 0
    BY <1>4 DEF Items, FieldSize, ScalarSize
  <2> QED
    BY <2>1, BytesOfNone
<1> QED
  BY <1>2, <1>3, <1>4

LEMMA SizeWritten ==
  ASSUME NEW c, NEW o, Clean(o), Member(c, o), c.repeated \cap c.scalar = {}
  PROVE  ByteSize(c, o) = Bytes(Write(c, o))
<1> DEFINE p == Items(c, o, 1)
           q == Items(c, o, 2)
           r == Items(c, o, 3)
           s == Items(c, o, 4)
<1>1. p \in Seq(Wire) /\ q \in Seq(Wire) /\ r \in Seq(Wire) /\ s \in Seq(Wire)
  BY ItemsGood DEF Field
<1>2. ByteSize(c, o) = Bytes(p) + Bytes(q) + Bytes(r) + Bytes(s)
  BY FieldBytes DEF ByteSize, Field
<1>3. Write(c, o) = p \o q \o r \o s
  BY DEF Write
<1> HIDE DEF p, q, r, s, Wire
<1>4. p \o q \in Seq(Wire) /\ p \o q \o r \in Seq(Wire)
  BY <1>1
<1>5. /\ Bytes(p) \in Nat /\ Bytes(q) \in Nat /\ Bytes(r) \in Nat /\ Bytes(s) \in Nat
      /\ Bytes(p \o q) = Bytes(p) + Bytes(q)
      /\ Bytes(p \o q \o r) = Bytes(p \o q) + Bytes(r)
      /\ Bytes(p \o q \o r \o s) = Bytes(p \o q \o r) + Bytes(s)
  BY <1>1, <1>4, BytesNat, BytesOfBoth
<1> QED
  BY <1>2, <1>3, <1>5

\* A message of no bytes says nothing, so none is written for it.
LEMMA NoBytesNew ==
  ASSUME NEW c, NEW o, Clean(o), Member(c, o), ~(ByteSize(c, o) > 0),
         c.repeated \cap c.scalar = {}, c.scalar \subseteq Field
  PROVE  o = New
<1>1. ASSUME NEW f \in Field
      PROVE  /\ FieldSize(c, o, f) \in Nat
             /\ FieldSize(c, o, f) = 0 => f \notin o.has /\ o.list[f] = <<>>
  <2>1. o.list[f] \in Seq(Int) /\ o.value[f] \in Int
    BY DEF Clean, Object
  <2>2. /\ Len(o.list[f]) \in Nat /\ Sizes(o.list[f]) \in Nat
        /\ Int32Size(o.value[f]) \in Nat
    <3>1. Sizes(o.list[f]) \in Nat
      BY <2>1, SizesNat
    <3>2. Int32Size(o.value[f]) \in Nat
      BY <2>1, Int32SizeNat
    <3> QED
      BY <2>1, <3>1, <3>2
  <2>3. CASE f \in c.repeated
    <3>1. FieldSize(c, o, f) = 1 * Len(o.list[f]) + Sizes(o.list[f]) /\ f \notin o.has
      BY <2>3 DEF FieldSize, Member
    <3>2. Len(o.list[f]) = 0 => o.list[f] = <<>>
      BY <2>1
    <3> QED
      BY <2>2, <3>1, <3>2
  <2>4. CASE f \notin c.repeated
    <3>1. o.list[f] = <<>> /\ (f \in o.has => f \in c.scalar)
      BY <2>4 DEF Member
    <3>2. FieldSize(c, o, f) = IF f \in c.scalar /\ f \in o.has THEN 1 + Int32Size(o.value[f]) ELSE 0
      BY <2>4 DEF FieldSize, ScalarSize
    <3> QED
      BY <2>2, <3>1, <3>2
  <2> QED
    BY <2>3, <2>4
<1>2. \A f \in Field : FieldSize(c, o, f) = 0
  <2>1. /\ FieldSize(c, o, 1) \in Nat /\ FieldSize(c, o, 2) \in Nat
        /\ FieldSize(c, o, 3) \in Nat /\ FieldSize(c, o, 4) \in Nat
    BY <1>1 DEF Field
  <2>2. ~(FieldSize(c, o, 1) + FieldSize(c, o, 2) + FieldSize(c, o, 3) + FieldSize(c, o, 4) > 0)
    BY DEF ByteSize
  <2>3. /\ FieldSize(c, o, 1) = 0 /\ FieldSize(c, o, 2) = 0
        /\ FieldSize(c, o, 3) = 0 /\ FieldSize(c, o, 4) = 0
    BY <2>1, <2>2
  <2>4. \A f \in Field : f = 1 \/ f = 2 \/ f = 3 \/ f = 4
    BY DEF Field
  <2> QED
    BY <2>3, <2>4, Zenon
<1>3. o.has = {} /\ \A f \in Field : o.list[f] = <<>> /\ o.value[f] = 0
  BY <1>1, <1>2 DEF Clean, Object
<1> QED
  BY <1>3 DEF Clean, Object, New

-----------------------------------------------------------------------------
(* Readings                                                                *)

\* The object after an item that does not end the message.
After(c, o, it) == IF Known(c, it) THEN Taken(c, o, it) ELSE o

\* Reading the items leads from one object to another; g has those between.
Leads(c, w, g) == \A i \in 1 .. Len(w) : g[i] = After(c, g[i - 1], w[i])
Reads(c, w, p, q) == \E g : Leads(c, w, g) /\ g[0] = p /\ g[Len(w)] = q

Ends(it) == it.kind \in {"cut", "end_group"}
Cut(w) == \E i \in 1 .. Len(w) : Ends(w[i])

LEMMA ReadNone == ASSUME NEW c, NEW p PROVE Reads(c, <<>>, p, p)
<1> DEFINE g == [i \in 0 .. 0 |-> p]
<1>1. Leads(c, <<>>, g) /\ g[0] = p /\ Len(<<>>) = 0
  BY DEF Leads
<1> HIDE DEF g
<1> QED
  BY <1>1 DEF Reads

LEMMA ReadOne ==
  ASSUME NEW c, NEW p, NEW it
  PROVE  Reads(c, <<it>>, p, After(c, p, it))
<1> DEFINE q == After(c, p, it)
           g == [i \in 0 .. 1 |-> IF i = 0 THEN p ELSE q]
           w == <<it>>
<1>1. Len(w) = 1 /\ w[1] = it /\ g[0] = p /\ g[1] = q
  OBVIOUS
<1> HIDE DEF g, w
<1>2. Leads(c, w, g)
  BY <1>1 DEF Leads
<1> HIDE DEF q
<1>3. Reads(c, w, p, q)
  BY <1>1, <1>2 DEF Reads
<1> QED
  BY <1>3 DEF w, q

\* One reading after another.
LEMMA ReadBoth ==
  ASSUME NEW c, NEW a \in Seq(Wire), NEW b \in Seq(Wire), NEW p, NEW q, NEW r,
         Reads(c, a, p, q), Reads(c, b, q, r)
  PROVE  Reads(c, a \o b, p, r)
<1> HIDE DEF Wire
<1> DEFINE w == a \o b
           m == Len(a)
           k == Len(b)
<1>1. /\ m \in Nat /\ k \in Nat /\ Len(w) = m + k
      /\ \A i \in 1 .. m : w[i] = a[i]
      /\ \A i \in m + 1 .. m + k : w[i] = b[i - m]
  BY JoinParts
<1>2. PICK x : Leads(c, a, x) /\ x[0] = p /\ x[m] = q
  BY DEF Reads
<1>3. PICK y : Leads(c, b, y) /\ y[0] = q /\ y[k] = r
  BY DEF Reads
<1>4. /\ \A i \in 1 .. m : x[i] = After(c, x[i - 1], a[i])
      /\ \A i \in 1 .. k : y[i] = After(c, y[i - 1], b[i])
  BY <1>2, <1>3 DEF Leads
<1> DEFINE z == [i \in 0 .. m + k |-> IF i <= m THEN x[i] ELSE y[i - m]]
<1> HIDE DEF w, m, k
<1>5. /\ \A i \in 0 .. m : z[i] = x[i]
      /\ \A i \in 0 .. k : z[m + i] = y[i]
  <2>1. ASSUME NEW i \in 0 .. m PROVE z[i] = x[i]
    BY <1>1
  <2>2. ASSUME NEW i \in 0 .. k PROVE z[m + i] = y[i]
    <3>1. m + i \in 0 .. m + k /\ (m + i) - m = i /\ (m + i <= m <=> i = 0)
      BY <1>1
    <3>2. CASE i = 0
      BY <1>1, <1>2, <1>3, <3>1, <3>2
    <3>3. CASE i # 0
      BY <3>1, <3>3
    <3> QED
      BY <3>2, <3>3
  <2> QED
    BY <2>1, <2>2
<1> HIDE DEF z
<1>6. ASSUME NEW i \in 1 .. m + k PROVE z[i] = After(c, z[i - 1], w[i])
  <2>1. CASE i \in 1 .. m
    <3>1. i \in 0 .. m /\ i - 1 \in 0 .. m
      BY <1>1, <2>1
    <3> QED
      BY <1>1, <1>4, <1>5, <2>1, <3>1
  <2>2. CASE i \in m + 1 .. m + k
    <3> DEFINE j == i - m
    <3>1. /\ j \in 1 .. k /\ j - 1 \in 0 .. k /\ j \in 0 .. k /\ i = m + j
          /\ i - 1 = m + (j - 1) /\ w[i] = b[j]
      BY <1>1, <2>2
    <3> HIDE DEF j
    <3>2. z[i] = y[j] /\ z[i - 1] = y[j - 1]
      BY <1>5, <3>1
    <3> QED
      BY <1>4, <3>1, <3>2
  <2> QED
    BY <1>1, <2>1, <2>2
<1>7. Leads(c, w, z) /\ z[0] = p /\ z[Len(w)] = r
  <2>1. 0 \in 0 .. m /\ k \in 0 .. k
    BY <1>1
  <2> QED
    BY <1>1, <1>2, <1>3, <1>5, <1>6, <2>1 DEF Leads
<1>8. Reads(c, w, p, r)
  BY <1>7 DEF Reads
<1> QED
  BY <1>8 DEF w

\* What is left of a reading after its first item.
LEMMA ReadRest ==
  ASSUME NEW c, NEW w \in Seq(Wire), w # <<>>, NEW p, NEW q, Reads(c, w, p, q)
  PROVE  Reads(c, Tail(w), After(c, p, Head(w)), q)
<1> HIDE DEF Wire
<1> DEFINE t == Tail(w)
           N == Len(w)
<1>1. /\ N \in Nat /\ N > 0 /\ Len(t) = N - 1 /\ Head(w) = w[1]
      /\ \A i \in 1 .. N - 1 : t[i] = w[i + 1]
  OBVIOUS
<1>2. PICK g : Leads(c, w, g) /\ g[0] = p /\ g[N] = q
  BY DEF Reads
<1>3. \A i \in 1 .. N : g[i] = After(c, g[i - 1], w[i])
  BY <1>2 DEF Leads
<1> DEFINE h == [i \in 0 .. N - 1 |-> g[i + 1]]
<1> HIDE DEF t, N
<1>4. \A i \in 0 .. N - 1 : h[i] = g[i + 1]
  BY <1>1
<1> HIDE DEF h
<1>5. Leads(c, t, h)
  <2>1. ASSUME NEW i \in 1 .. N - 1 PROVE h[i] = After(c, h[i - 1], t[i])
    <3>1. /\ i \in 0 .. N - 1 /\ i - 1 \in 0 .. N - 1 /\ i + 1 \in 1 .. N
          /\ (i - 1) + 1 = i /\ (i + 1) - 1 = i
      BY <1>1
    <3>2. h[i] = g[i + 1] /\ h[i - 1] = g[i] /\ t[i] = w[i + 1]
      BY <1>1, <1>4, <3>1
    <3>3. g[i + 1] = After(c, g[i], w[i + 1])
      BY <1>3, <3>1
    <3> QED
      BY <3>2, <3>3
  <2> QED
    BY <1>1, <2>1 DEF Leads
<1>6. h[0] = After(c, p, Head(w)) /\ h[Len(t)] = q
  <2>1. 0 \in 0 .. N - 1 /\ N - 1 \in 0 .. N - 1 /\ 1 \in 1 .. N /\ 0 + 1 = 1 /\ 1 - 1 = 0
        /\ (N - 1) + 1 = N
    BY <1>1
  <2>2. h[0] = g[1] /\ h[N - 1] = g[N] /\ g[1] = After(c, g[0], w[1])
    BY <1>3, <1>4, <2>1
  <2> QED
    BY <1>1, <1>2, <2>2
<1>7. Reads(c, t, After(c, p, Head(w)), q)
  BY <1>5, <1>6 DEF Reads
<1> QED
  BY <1>7 DEF t

LEMMA InsertParts ==
  ASSUME NEW w \in Seq(Wire), NEW i \in 1 .. Len(w) + 1, NEW x \in Wire
  PROVE  /\ Len(InsertAt(w, i, x)) = Len(w) + 1
         /\ InsertAt(w, i, x)[i] = x
         /\ \A j \in 1 .. i - 1 : InsertAt(w, i, x)[j] = w[j]
         /\ \A j \in i + 1 .. Len(w) + 1 : InsertAt(w, i, x)[j] = w[j - 1]
<1> HIDE DEF Wire
<1> DEFINE a == SubSeq(w, 1, i - 1)
           b == SubSeq(w, i, Len(w))
           m == Len(w)
<1>1. /\ m \in Nat /\ a \in Seq(Wire) /\ Len(a) = i - 1 /\ \A j \in 1 .. i - 1 : a[j] = w[j]
  OBVIOUS
<1>2. /\ b \in Seq(Wire) /\ Len(b) = m + 1 - i /\ \A j \in 1 .. m + 1 - i : b[j] = w[i + j - 1]
  OBVIOUS
<1>3. InsertAt(w, i, x) = (a \o <<x>>) \o b
  BY DEF InsertAt
<1> DEFINE o == <<x>>
           u == a \o o
           v == u \o b
<1>4. o \in Seq(Wire) /\ Len(o) = 1 /\ o[1] = x
  OBVIOUS
<1> HIDE DEF a, b, m, o
<1>5. /\ u \in Seq(Wire) /\ Len(u) = i /\ u[i] = x /\ \A j \in 1 .. i - 1 : u[j] = w[j]
  <2>1. /\ u \in Seq(Wire) /\ Len(u) = Len(a) + Len(o)
        /\ \A j \in 1 .. Len(a) : u[j] = a[j]
        /\ \A j \in Len(a) + 1 .. Len(a) + Len(o) : u[j] = o[j - Len(a)]
    BY <1>1, <1>4, JoinParts
  <2> HIDE DEF u
  <2>2. i \in Nat /\ i \in Len(a) + 1 .. Len(a) + Len(o) /\ i - Len(a) = 1
    BY <1>1, <1>4
  <2>3. u[i] = x
    <3>1. u[i] = o[i - Len(a)]
      BY <2>1, <2>2
    <3> QED
      BY <1>4, <2>2, <3>1
  <2>4. Len(u) = i
    BY <1>1, <1>4, <2>1, <2>2
  <2>5. \A j \in 1 .. i - 1 : u[j] = w[j]
    BY <1>1, <2>1
  <2> QED
    BY <2>1, <2>3, <2>4, <2>5
<1> HIDE DEF u
<1>6. /\ Len(v) = m + 1 /\ \A j \in 1 .. i : v[j] = u[j]
      /\ \A j \in i + 1 .. m + 1 : v[j] = b[j - i]
  <2>1. /\ Len(v) = Len(u) + Len(b)
        /\ \A j \in 1 .. Len(u) : v[j] = u[j]
        /\ \A j \in Len(u) + 1 .. Len(u) + Len(b) : v[j] = b[j - Len(u)]
    BY <1>2, <1>5, JoinParts
  <2> HIDE DEF v
  <2> QED
    BY <1>1, <1>2, <1>5, <2>1 DEF m
<1> HIDE DEF v
<1>7. \A j \in i + 1 .. m + 1 : v[j] = w[j - 1]
  <2>1. ASSUME NEW j \in i + 1 .. m + 1 PROVE v[j] = w[j - 1]
    <3>1. j - i \in 1 .. m + 1 - i /\ i + (j - i) - 1 = j - 1
      BY <1>1
    <3> QED
      BY <1>2, <1>6, <3>1
  <2> QED
    BY <2>1
<1>8. v[i] = x /\ \A j \in 1 .. i - 1 : v[j] = w[j]
  BY <1>5, <1>6
<1>9. InsertAt(w, i, x) = v
  BY <1>3 DEF v, u, o
<1> QED
  BY <1>6, <1>7, <1>8, <1>9 DEF m

\* An item that is not known changes nothing, wherever it is.
LEMMA ReadAround ==
  ASSUME NEW c, NEW w \in Seq(Wire), NEW p, NEW q, Reads(c, w, p, q),
         NEW i \in 1 .. Len(w) + 1, NEW x \in Wire, ~Known(c, x)
  PROVE  Reads(c, InsertAt(w, i, x), p, q)
<1> HIDE DEF Wire
<1> DEFINE N == Len(w)
           v == InsertAt(w, i, x)
<1>1. /\ N \in Nat /\ i \in 1 .. N + 1 /\ Len(v) = N + 1 /\ v[i] = x
      /\ \A j \in 1 .. i - 1 : v[j] = w[j]
      /\ \A j \in i + 1 .. N + 1 : v[j] = w[j - 1]
  BY InsertParts
<1>2. PICK g : Leads(c, w, g) /\ g[0] = p /\ g[N] = q
  BY DEF Reads
<1>3. \A j \in 1 .. N : g[j] = After(c, g[j - 1], w[j])
  BY <1>2 DEF Leads
<1> DEFINE h == [j \in 0 .. N + 1 |-> IF j < i THEN g[j] ELSE g[j - 1]]
<1> HIDE DEF v, N
<1>4. /\ \A j \in 0 .. i - 1 : h[j] = g[j]
      /\ \A j \in i .. N + 1 : h[j] = g[j - 1]
  BY <1>1
<1> HIDE DEF h
<1>5. ASSUME NEW j \in 1 .. N + 1 PROVE h[j] = After(c, h[j - 1], v[j])
  <2>1. CASE j < i
    <3>1. j \in 0 .. i - 1 /\ j - 1 \in 0 .. i - 1 /\ j \in 1 .. i - 1 /\ j \in 1 .. N
      BY <1>1, <2>1
    <3> QED
      BY <1>1, <1>3, <1>4, <3>1
  <2>2. CASE j = i
    <3>1. j \in i .. N + 1 /\ j - 1 \in 0 .. i - 1
      BY <1>1, <2>2
    <3>2. h[j] = g[j - 1] /\ h[j - 1] = g[j - 1] /\ v[j] = x
      BY <1>1, <1>4, <2>2, <3>1
    <3> QED
      BY <3>2 DEF After
  <2>3. CASE j > i
    <3>1. j \in i .. N + 1 /\ j - 1 \in i .. N + 1 /\ j \in i + 1 .. N + 1 /\ j - 1 \in 1 .. N
      BY <1>1, <2>3
    <3>2. h[j] = g[j - 1] /\ h[j - 1] = g[(j - 1) - 1] /\ v[j] = w[j - 1]
      BY <1>1, <1>4, <3>1
    <3> QED
      BY <1>3, <3>1, <3>2
  <2> QED
    BY <1>1, <2>1, <2>2, <2>3
<1>6. Leads(c, v, h) /\ h[0] = p /\ h[Len(v)] = q
  <2>1. 0 \in 0 .. i - 1 /\ N + 1 \in i .. N + 1 /\ (N + 1) - 1 = N
    BY <1>1
  <2> QED
    BY <1>1, <1>2, <1>4, <1>5, <2>1 DEF Leads
<1>7. Reads(c, v, p, q)
  BY <1>6 DEF Reads
<1> QED
  BY <1>7 DEF v

-----------------------------------------------------------------------------
(* What is written is read                                                 *)

\* The fields of a class are repeated or scalar.
Fields(c) == c.repeated \subseteq {1, 2} /\ c.scalar \subseteq Field /\ c.repeated \cap c.scalar = {}

LEMMA ClassHasFields == ASSUME type \in DOMAIN ClassOf PROVE Fields(C)
BY DEF Fields, C, ClassOf, Class, DealCard, GrabLandlord, GrabLandlordOver, PlayCard, GameOver,
       DealCardFields, GrabLandlordFields, GrabLandlordOverFields, PlayCardFields,
       GameOverFields, Field

\* An object in which a field has nothing, and that object with the field of another.
Blank(p, f) == p \in Object /\ f \notin p.has /\ p.value[f] = 0 /\ p.list[f] = <<>>
Filled(p, o, f) == [has   |-> p.has \cup (o.has \cap {f}),
                    value |-> [p.value EXCEPT ![f] = o.value[f]],
                    list  |-> [p.list EXCEPT ![f] = o.list[f]]]

\* The parts of an object after a change.
LEMMA ListParts ==
  ASSUME NEW o \in Object, NEW f, NEW l
  PROVE  [o EXCEPT !.list[f] = l] =
         [has |-> o.has, value |-> o.value, list |-> [o.list EXCEPT ![f] = l]]
<1> DEFINE m == [o.list EXCEPT ![f] = l]
<1>1. [o EXCEPT !.list[f] = l] = [o EXCEPT !.list = m]
  BY DEF Object
<1> HIDE DEF m
<1>2. [o EXCEPT !.list = m] = [has |-> o.has, value |-> o.value, list |-> m]
  BY DEF Object
<1> QED
  BY <1>1, <1>2 DEF m

LEMMA SetParts ==
  ASSUME NEW o \in Object, NEW f \in Field, NEW v
  PROVE  Set(o, f, v) =
         [has |-> o.has \cup {f}, value |-> [o.value EXCEPT ![f] = v], list |-> o.list]
<1> DEFINE m == [o.value EXCEPT ![f] = v]
           h == o.has \cup {f}
<1>1. Set(o, f, v) = [o EXCEPT !.has = h, !.value = m]
  BY DEF Set, Object
<1>2. h \in SUBSET Field /\ o.has \in SUBSET Field
  BY DEF Object
<1> HIDE DEF m, h
<1> DEFINE p == [o EXCEPT !.has = h]
<1>3. p \in Object /\ p.has = h /\ p.value = o.value /\ p.list = o.list
  BY <1>2 DEF Object
<1>4. [o EXCEPT !.has = h, !.value = m] = [p EXCEPT !.value = m]
  BY DEF Object
<1> HIDE DEF p
<1>5. [p EXCEPT !.value = m] = [has |-> p.has, value |-> m, list |-> p.list]
  <2> DEFINE V == [Field -> Int]
             L == [Field -> Seq(Int)]
             H == SUBSET Field
  <2>1. p \in [has : H, value : V, list : L]
    BY <1>3 DEF Object
  <2> HIDE DEF V, L, H
  <2> QED
    BY <2>1
<1> QED
  BY <1>1, <1>3, <1>4, <1>5 DEF m, h

LEMMA FilledRepeated ==
  ASSUME NEW c, Fields(c), NEW o, Clean(o), Member(c, o), NEW f \in c.repeated,
         NEW p, Blank(p, f)
  PROVE  Filled(p, o, f) = [p EXCEPT !.list[f] = o.list[f]]
<1>1. f \in Field /\ f \notin o.has
  BY DEF Fields, Member, Field
<1>2. o.value[f] = 0
  BY <1>1 DEF Clean
<1>3. p.has \cup (o.has \cap {f}) = p.has
  BY <1>1
<1>4. [p.value EXCEPT ![f] = o.value[f]] = p.value
  BY <1>1, <1>2 DEF Blank, Object
<1>5. [p EXCEPT !.list[f] = o.list[f]] =
      [has |-> p.has, value |-> p.value, list |-> [p.list EXCEPT ![f] = o.list[f]]]
  BY ListParts DEF Blank
<1> QED
  BY <1>3, <1>4, <1>5 DEF Filled

LEMMA FilledScalar ==
  ASSUME NEW c, Fields(c), NEW o, Clean(o), Member(c, o), NEW f \in Field, f \notin c.repeated,
         NEW p, Blank(p, f)
  PROVE  /\ f \in o.has => Filled(p, o, f) = Set(p, f, o.value[f])
         /\ f \notin o.has => Filled(p, o, f) = p
<1>1. o.list[f] = <<>>
  BY DEF Member
<1>2. [p.list EXCEPT ![f] = o.list[f]] = p.list
  BY <1>1 DEF Blank, Object
<1>3. CASE f \in o.has
  <2>1. p.has \cup (o.has \cap {f}) = p.has \cup {f}
    BY <1>3
  <2>2. Set(p, f, o.value[f]) =
        [has |-> p.has \cup {f}, value |-> [p.value EXCEPT ![f] = o.value[f]], list |-> p.list]
    BY SetParts DEF Blank
  <2>3. Filled(p, o, f) = Set(p, f, o.value[f])
    BY <1>2, <2>1, <2>2 DEF Filled
  <2> QED
    BY <1>3, <2>3
<1>4. CASE f \notin o.has
  <2>1. p.has \cup (o.has \cap {f}) = p.has /\ o.value[f] = 0
    BY <1>4 DEF Clean
  <2>2. [p.value EXCEPT ![f] = o.value[f]] = p.value
    BY <2>1 DEF Blank, Object
  <2> QED
    BY <1>2, <1>4, <2>1, <2>2 DEF Filled, Blank, Object
<1> QED
  BY <1>3, <1>4

LEMMA OneMore ==
  ASSUME NEW l \in Seq(Int), NEW i \in 1 .. Len(l)
  PROVE  SubSeq(l, 1, i - 1) \o <<l[i]>> = SubSeq(l, 1, i)
OBVIOUS

LEMMA ReadRepeated ==
  ASSUME NEW c, Fields(c), NEW o, Clean(o), Member(c, o), NEW f \in c.repeated,
         NEW p, Blank(p, f)
  PROVE  Reads(c, Items(c, o, f), p, Filled(p, o, f))
<1> DEFINE l == o.list[f]
           N == Len(l)
           w == Items(c, o, f)
<1>1. f \in Field /\ l \in Seq(Int) /\ p \in Object /\ p.list[f] = <<>>
  BY DEF Fields, Clean, Object, Blank, Field
<1>2. N \in Nat /\ Len(w) = N /\ \A i \in 1 .. N : w[i] = Varint(f, l[i])
  <2>1. w = [i \in DOMAIN l |-> Varint(f, l[i])]
    BY DEF Items
  <2> HIDE DEF l, w
  <2>2. DOMAIN l = 1 .. N /\ N \in Nat
    BY <1>1
  <2> HIDE DEF N
  <2> QED
    BY <2>1, <2>2
<1> DEFINE g == [i \in 0 .. N |-> [p EXCEPT !.list[f] = SubSeq(l, 1, i)]]
<1> HIDE DEF l, w
<1>3. \A i \in 0 .. N : g[i] = [p EXCEPT !.list[f] = SubSeq(l, 1, i)]
  OBVIOUS
<1> HIDE DEF g
<1>4. g[0] = p
  <2>1. 0 \in 0 .. N /\ SubSeq(l, 1, 0) = <<>>
    BY <1>1
  <2>2. [p EXCEPT !.list[f] = <<>>] = p
    BY <1>1 DEF Object
  <2> QED
    BY <1>3, <2>1, <2>2
<1>5. g[N] = Filled(p, o, f)
  <2>1. N \in 0 .. N /\ SubSeq(l, 1, N) = l
    BY <1>1
  <2>2. g[N] = [p EXCEPT !.list[f] = l]
    BY <1>3, <2>1
  <2> QED
    BY <2>2, FilledRepeated DEF l
<1>6. ASSUME NEW i \in 1 .. N PROVE g[i] = After(c, g[i - 1], w[i])
  <2>1. i \in 0 .. N /\ i - 1 \in 0 .. N
    BY <1>2
  <2> DEFINE h == SubSeq(l, 1, i - 1)
             e == l[i]
             q == [p EXCEPT !.list[f] = h]
  <2>2. w[i] = Varint(f, e) /\ g[i - 1] = q /\ g[i] = [p EXCEPT !.list[f] = h \o <<e>>]
    BY <1>1, <1>2, <1>3, <2>1, OneMore
  <2> HIDE DEF h, e
  <2>3. q.list[f] = h /\ q.has = p.has /\ q.value = p.value
        /\ [q EXCEPT !.list[f] = h \o <<e>>] = [p EXCEPT !.list[f] = h \o <<e>>]
    BY <1>1 DEF Object
  <2> HIDE DEF q
  <2>4. After(c, q, Varint(f, e)) = [q EXCEPT !.list[f] = h \o <<e>>]
    BY <2>3 DEF After, Known, Taken, Varint, Item
  <2> QED
    BY <2>2, <2>3, <2>4
<1>7. Leads(c, w, g) /\ g[Len(w)] = Filled(p, o, f)
  BY <1>2, <1>5, <1>6 DEF Leads
<1>8. Reads(c, w, p, Filled(p, o, f))
  BY <1>4, <1>7 DEF Reads
<1> QED
  BY <1>8 DEF w

\* The items of a field, read into an object without it, fill it in.
LEMMA ReadField ==
  ASSUME NEW c, Fields(c), NEW o, Clean(o), Member(c, o), NEW f \in Field,
         NEW p, Blank(p, f)
  PROVE  Reads(c, Items(c, o, f), p, Filled(p, o, f))
<1>1. CASE f \in c.repeated
  BY <1>1, ReadRepeated
<1>2. CASE f \notin c.repeated /\ f \in o.has
  <2> DEFINE v == o.value[f]
  <2>1. Items(c, o, f) = <<Varint(f, v)>> /\ Filled(p, o, f) = Set(p, f, v) /\ f \in c.scalar
    BY <1>2, FilledScalar DEF Items, Member
  <2> HIDE DEF v
  <2>2. After(c, p, Varint(f, v)) = Set(p, f, v)
    BY <1>2, <2>1 DEF After, Known, Taken, Varint, Item
  <2> QED
    BY <2>1, <2>2, ReadOne
<1>3. CASE f \notin c.repeated /\ f \notin o.has
  <2>1. Items(c, o, f) = <<>> /\ Filled(p, o, f) = p
    BY <1>3, FilledScalar DEF Items
  <2> QED
    BY <2>1, ReadNone
<1> QED
  BY <1>1, <1>2, <1>3

\* All elements of field 1 in one item.
LEMMA ReadPackedField ==
  ASSUME NEW c, Fields(c), NEW o, Clean(o), Member(c, o), 1 \in c.repeated,
         NEW p, Blank(p, 1)
  PROVE  Reads(c, <<Item(1, "bytes", o.list[1])>>, p, Filled(p, o, 1))
<1> DEFINE l == o.list[1]
           it == Item(1, "bytes", l)
<1>1. l \in Seq(Int) /\ p \in Object /\ p.list[1] = <<>>
  BY DEF Clean, Object, Blank, Field
<1>2. Filled(p, o, 1) = [p EXCEPT !.list[1] = l]
  BY FilledRepeated
<1> HIDE DEF l
<1>3. <<>> \o l = l
  BY <1>1, ConcatEmptySeq
<1>4. After(c, p, it) = [p EXCEPT !.list[1] = l]
  BY <1>1, <1>3 DEF After, Known, Taken, Item
<1> HIDE DEF it
<1>5. Reads(c, <<it>>, p, Filled(p, o, 1))
  BY <1>2, <1>4, ReadOne
<1> QED
  BY <1>5 DEF it, l

LEMMA FilledLeaves ==
  ASSUME NEW o, Clean(o), NEW f \in Field, NEW h \in Field, h # f, NEW p, Blank(p, f), Blank(p, h)
  PROVE  Blank(Filled(p, o, f), h)
BY DEF Blank, Filled, Clean, Object

\* Field after field, a new object becomes the one that was written.
LEMMA FilledAll ==
  ASSUME NEW o, Clean(o)
  PROVE  LET p1 == Filled(New, o, 1)
             p2 == Filled(p1, o, 2)
             p3 == Filled(p2, o, 3)
         IN  /\ Blank(New, 1) /\ Blank(p1, 2) /\ Blank(p2, 3) /\ Blank(p3, 4)
             /\ Filled(p3, o, 4) = o
<1> DEFINE p1 == Filled(New, o, 1)
           p2 == Filled(p1, o, 2)
           p3 == Filled(p2, o, 3)
           p4 == Filled(p3, o, 4)
<1>1. 1 \in Field /\ 2 \in Field /\ 3 \in Field /\ 4 \in Field
  BY DEF Field
<1>2. \A f \in Field : Blank(New, f)
  BY NewClean DEF Blank, Clean, New
<1>3. Blank(p1, 2) /\ Blank(p1, 3) /\ Blank(p1, 4)
  BY <1>1, <1>2, FilledLeaves
<1>4. /\ p1.has = o.has \cap {1}
      /\ p1.value = [New.value EXCEPT ![1] = o.value[1]]
      /\ p1.list = [New.list EXCEPT ![1] = o.list[1]]
  BY DEF Filled, New
<1> HIDE DEF p1
<1>5. Blank(p2, 3) /\ Blank(p2, 4)
  BY <1>1, <1>3, FilledLeaves
<1>6. /\ p2.has = p1.has \cup (o.has \cap {2})
      /\ p2.value = [p1.value EXCEPT ![2] = o.value[2]]
      /\ p2.list = [p1.list EXCEPT ![2] = o.list[2]]
  BY DEF Filled
<1> HIDE DEF p2
<1>7. Blank(p3, 4)
  BY <1>1, <1>5, FilledLeaves
<1>8. /\ p3.has = p2.has \cup (o.has \cap {3})
      /\ p3.value = [p2.value EXCEPT ![3] = o.value[3]]
      /\ p3.list = [p2.list EXCEPT ![3] = o.list[3]]
  BY DEF Filled
<1> HIDE DEF p3
<1>9. /\ p4 = [has |-> p4.has, value |-> p4.value, list |-> p4.list]
      /\ p4.has = p3.has \cup (o.has \cap {4})
      /\ p4.value = [p3.value EXCEPT ![4] = o.value[4]]
      /\ p4.list = [p3.list EXCEPT ![4] = o.list[4]]
  BY DEF Filled
<1> HIDE DEF p4
<1>10. p4.has = o.has
  <2>1. o.has \subseteq 1 .. 4
    BY DEF Clean, Object, Field
  <2> QED
    BY <1>4, <1>6, <1>8, <1>9, <2>1
<1>11. p4.value = o.value
  <2>1. New.value \in [1 .. 4 -> Int] /\ o.value \in [1 .. 4 -> Int]
    BY NewClean DEF Clean, Object, Field
  <2>2. p4.value \in [1 .. 4 -> Int]
    BY <1>4, <1>6, <1>8, <1>9, <2>1
  <2>3. \A f \in 1 .. 4 : p4.value[f] = o.value[f]
    BY <1>4, <1>6, <1>8, <1>9, <2>1
  <2> QED
    BY <2>1, <2>2, <2>3
<1>12. p4.list = o.list
  <2> DEFINE S == Seq(Int)
  <2>1. New.list \in [1 .. 4 -> S] /\ o.list \in [1 .. 4 -> S]
    BY NewClean DEF Clean, Object, Field
  <2> HIDE DEF S
  <2>2. p4.list \in [1 .. 4 -> S]
    BY <1>4, <1>6, <1>8, <1>9, <2>1
  <2>3. \A f \in 1 .. 4 : p4.list[f] = o.list[f]
    BY <1>4, <1>6, <1>8, <1>9, <2>1
  <2> QED
    BY <2>1, <2>2, <2>3
<1>13. p4 = o
  BY <1>9, <1>10, <1>11, <1>12 DEF Clean, Object
<1> QED
  BY <1>1, <1>2, <1>3, <1>5, <1>7, <1>13 DEF p1, p2, p3, p4

LEMMA ReadWrite ==
  ASSUME NEW c, Fields(c), NEW o, Clean(o), Member(c, o)
  PROVE  Reads(c, Write(c, o), New, o) /\ Reads(c, Packed(c, o), New, o)
<1> DEFINE a1 == Items(c, o, 1)
           a2 == Items(c, o, 2)
           a3 == Items(c, o, 3)
           a4 == Items(c, o, 4)
           b == <<Item(1, "bytes", o.list[1])>>
           p1 == Filled(New, o, 1)
           p2 == Filled(p1, o, 2)
           p3 == Filled(p2, o, 3)
<1>1. 1 \in Field /\ 2 \in Field /\ 3 \in Field /\ 4 \in Field
  BY DEF Field
<1>2. /\ a1 \in Seq(Wire) /\ a2 \in Seq(Wire) /\ a3 \in Seq(Wire) /\ a4 \in Seq(Wire)
      /\ b \in Seq(Wire)
  <2>1. b \in Seq(Wire)
    <3>1. o.list[1] \in Seq(Int)
      BY <1>1 DEF Clean, Object
    <3>2. Item(1, "bytes", o.list[1]) \in Wire
      BY <3>1 DEF Item, Wire, ItemType, Kind
    <3> HIDE DEF Wire
    <3> QED
      BY <3>2
  <2> QED
    BY <1>1, <2>1, ItemsGood
<1>3. /\ Blank(New, 1) /\ Blank(p1, 2) /\ Blank(p2, 3) /\ Blank(p3, 4) /\ Filled(p3, o, 4) = o
  BY FilledAll
<1>4. /\ Reads(c, a1, New, p1) /\ Reads(c, a2, p1, p2) /\ Reads(c, a3, p2, p3) /\ Reads(c, a4, p3, o)
      /\ 1 \in c.repeated => Reads(c, b, New, p1)
  BY <1>1, <1>3, ReadField, ReadPackedField
<1>5. Write(c, o) = a1 \o a2 \o a3 \o a4
  BY DEF Write
<1>6. Packed(c, o) = (IF 1 \in c.repeated THEN b ELSE a1) \o a2 \o a3 \o a4
  BY DEF Packed
<1> HIDE DEF a1, a2, a3, a4, b, p1, p2, p3
<1>7. ASSUME NEW a \in Seq(Wire), Reads(c, a, New, p1)
      PROVE  Reads(c, a \o a2 \o a3 \o a4, New, o)
  <2> HIDE DEF Wire
  <2> DEFINE u == a \o a2
             v == u \o a3
  <2>1. u \in Seq(Wire) /\ Reads(c, u, New, p2)
    BY <1>2, <1>4, <1>7, ReadBoth, JoinParts DEF Wire
  <2> HIDE DEF u
  <2>2. v \in Seq(Wire) /\ Reads(c, v, New, p3)
    BY <1>2, <1>4, <2>1, ReadBoth, JoinParts DEF Wire
  <2> HIDE DEF v
  <2>3. Reads(c, v \o a4, New, o)
    BY <1>2, <1>4, <2>2, ReadBoth DEF Wire
  <2> QED
    BY <2>3 DEF u, v
<1>8. Reads(c, Write(c, o), New, o)
  BY <1>2, <1>4, <1>5, <1>7
<1>9. Reads(c, Packed(c, o), New, o)
  BY <1>2, <1>4, <1>6, <1>7
<1> QED
  BY <1>8, <1>9

\* Any wire is cut short or read to the object it was made of.
LEMMA WireRead ==
  ASSUME type \in DOMAIN ClassOf, NEW o, Clean(o), Member(C, o), NEW w \in Wires(C, o)
  PROVE  Cut(w) \/ Reads(C, w, New, o)
<1> DEFINE plain == SerializeProtoPacket(C, o)
<1>1. Fields(C) /\ plain \in Seq(Wire)
  <2>1. plain \in Wires(C, o)
    BY DEF Wires
  <2> QED
    BY <2>1, ClassHasFields, WiresGood
<1>2. Reads(C, plain, New, o)
  <2>1. CASE ByteSize(C, o) > 0
    BY <1>1, <2>1, ReadWrite DEF SerializeProtoPacket
  <2>2. CASE ~(ByteSize(C, o) > 0)
    <3>1. plain = <<>> /\ o = New
      BY <1>1, <2>2, NoBytesNew DEF SerializeProtoPacket, Fields
    <3> QED
      BY <3>1, ReadNone
  <2> QED
    BY <2>1, <2>2
<1>3. \A x \in Foreign(C) \cup Broken : x \in Wire
  BY ForeignGood
<1>4. \A x \in Foreign(C) : ~Known(C, x)
  BY <1>1 DEF Foreign, Known, Item, Fields, Field
<1>5. \A x \in Broken : Ends(x)
  BY DEF Broken, Ends, Item
<1>6. \/ w = plain \/ w = Packed(C, o)
      \/ \E i \in 1 .. Len(plain) + 1, x \in Foreign(C) \cup Broken : w = InsertAt(plain, i, x)
  BY DEF Wires
<1> HIDE DEF plain, Wire
<1>7. CASE w = plain
  BY <1>2, <1>7
<1>8. CASE w = Packed(C, o)
  BY <1>1, <1>8, ReadWrite
<1>9. ASSUME NEW i \in 1 .. Len(plain) + 1, NEW x \in Foreign(C), w = InsertAt(plain, i, x)
      PROVE  Reads(C, w, New, o)
  BY <1>1, <1>2, <1>3, <1>4, <1>9, ReadAround DEF Wire
<1>10. ASSUME NEW i \in 1 .. Len(plain) + 1, NEW x \in Broken, w = InsertAt(plain, i, x)
       PROVE  Cut(w)
  <2>1. Len(w) = Len(plain) + 1 /\ w[i] = x
    BY <1>1, <1>3, <1>10, InsertParts DEF Wire
  <2>2. i \in 1 .. Len(w)
    BY <2>1
  <2> QED
    BY <1>5, <2>1, <2>2 DEF Cut
<1> QED
  BY <1>6, <1>7, <1>8, <1>9, <1>10

-----------------------------------------------------------------------------
(* The invariant of a parse                                                *)

\* Both objects hold only fields of the class.
MInv == IInv /\ Member(C, out) /\ Member(C, in)

LEMMA NewMember == ASSUME NEW c PROVE Member(c, New)
BY DEF Member, New

LEMMA SetMember ==
  ASSUME NEW c, NEW o, Clean(o), Member(c, o), NEW f \in Field, f \in c.scalar, NEW v
  PROVE  Member(c, Set(o, f, v))
<1>1. Set(o, f, v).has = o.has \cup {f} /\ Set(o, f, v).list = o.list
  BY SetParts DEF Clean
<1> QED
  BY <1>1 DEF Member

LEMMA ListMember ==
  ASSUME NEW c, NEW o, Clean(o), Member(c, o), NEW f \in c.repeated, NEW l
  PROVE  Member(c, [o EXCEPT !.list[f] = l])
<1> DEFINE p == [o EXCEPT !.list[f] = l]
<1>1. p.has = o.has /\ p.list = [o.list EXCEPT ![f] = l]
  BY ListParts DEF Clean
<1> HIDE DEF p
<1>2. Member(c, p)
  BY <1>1 DEF Member, Clean, Object
<1> QED
  BY <1>2 DEF p

LEMMA ClearFieldMember ==
  ASSUME NEW c, NEW o, Clean(o), Member(c, o), NEW f
  PROVE  Member(c, ClearField(o, f))
<1>1. ClearField(o, f).has = o.has \ {f} /\ ClearField(o, f).list = [o.list EXCEPT ![f] = <<>>]
  BY DEF ClearField, Clean, Object
<1> QED
  BY <1>1 DEF Member, Clean, Object

LEMMA TakenMember ==
  ASSUME NEW c, Fields(c), NEW o, Clean(o), Member(c, o), NEW it, Known(c, it)
  PROVE  Member(c, Taken(c, o, it))
<1>1. CASE it.field \in c.repeated
  BY <1>1, ListMember DEF Taken
<1>2. CASE it.field \notin c.repeated
  <2>1. it.field \in c.scalar /\ it.field \in Field
    BY <1>2 DEF Known, Fields
  <2> QED
    BY <1>2, <2>1, SetMember DEF Taken
<1> QED
  BY <1>1, <1>2

\* What is on the wire leads to what was written, unless it is cut short; what
\* was parsed is what was written; what was refused was not complete.
Parse == /\ parsing = "reading" => Cut(wire) \/ Reads(C, wire, in, out)
         /\ parsing = "ok" => in = out
         /\ parsing = "refused" => ~IsInitialized(C, out)

PInv == MInv /\ Parse

LEMMA ParseInit == Init => PInv
BY InvInit, NewMember DEF Init, PInv, MInv, Parse

LEMMA ParseFill ==
  ASSUME PInv, IInv', NEW o, Member(C, o), Fill(o)
  PROVE  PInv'
<1>1. C' = C /\ out' = o /\ in' = in /\ parsing' = "no"
  BY DEF Fill, C
<1> QED
  BY <1>1 DEF PInv, MInv, Parse, Member

LEMMA ParseMethods ==
  ASSUME PInv, IInv', SetField \/ AddElement \/ SetElement \/ ClearOne \/ ClearAll \/ Copy
  PROVE  PInv'
<1>1. /\ Clean(out) /\ Clean(in) /\ Member(C, out) /\ Member(C, in) /\ Fields(C)
      /\ C.repeated \subseteq Field /\ C.scalar \subseteq Field
  BY ClassFields, ClassHasFields DEF PInv, MInv, IInv, Field
<1>2. CASE SetField
  <2>1. PICK f \in C.scalar, v \in Values : Fill(Set(out, f, v))
    BY <1>2 DEF SetField
  <2> QED
    BY <1>1, <2>1, SetMember, ParseFill
<1>3. CASE AddElement
  <2>1. PICK f \in C.repeated, v \in Values : Fill(Add(out, f, v))
    BY <1>3 DEF AddElement
  <2>2. Member(C, Add(out, f, v))
    BY <1>1, <2>1, ListMember DEF Add
  <2> QED
    BY <2>1, <2>2, ParseFill
<1>4. CASE SetElement
  <2>1. PICK f, v, i : /\ f \in C.repeated /\ v \in Values
                       /\ i \in DOMAIN out.list[f]
                       /\ Fill([out EXCEPT !.list[f][i] = v])
    BY <1>4 DEF SetElement
  <2>2. [out EXCEPT !.list[f][i] = v] = [out EXCEPT !.list[f] = [out.list[f] EXCEPT ![i] = v]]
    OBVIOUS
  <2>3. Member(C, [out EXCEPT !.list[f][i] = v])
    BY <1>1, <2>1, <2>2, ListMember
  <2> QED
    BY <2>1, <2>3, ParseFill
<1>5. CASE ClearOne
  <2>1. PICK f \in C.scalar \cup C.repeated : Fill(ClearField(out, f))
    BY <1>5 DEF ClearOne
  <2> QED
    BY <1>1, <2>1, ClearFieldMember, ParseFill
<1>6. CASE ClearAll
  BY <1>1, <1>6, ClearIsNew, NewMember, ParseFill DEF ClearAll
<1>7. CASE Copy
  BY <1>1, <1>7, CopyIsEqual, ParseFill DEF Copy
<1> QED
  BY <1>2, <1>3, <1>4, <1>5, <1>6, <1>7

LEMMA ParseSwap == ASSUME PInv, IInv', Swap PROVE PInv'
<1>1. C' = C /\ out' = in /\ in' = out /\ parsing' = "no"
  BY DEF Swap, C
<1> QED
  BY <1>1 DEF PInv, MInv, Parse, Member

LEMMA ParseSend == ASSUME PInv, IInv', Send PROVE PInv'
<1>1. C' = C /\ out' = out /\ in' = New /\ parsing' = "reading" /\ wire' \in Wires(C, out)
  BY ClearIsNew DEF Send, C, PInv, MInv, IInv
<1>2. Cut(wire') \/ Reads(C, wire', New, out)
  BY <1>1, WireRead DEF PInv, MInv, IInv
<1> QED
  BY <1>1, <1>2, NewMember DEF PInv, MInv, Parse, Member, Cut, Reads, Leads

LEMMA ParseReadItem == ASSUME PInv, IInv', ReadItem PROVE PInv'
<1> DEFINE it == Head(wire)
<1>1. /\ wire \in Seq(Wire) /\ wire # <<>> /\ Clean(in) /\ Member(C, out) /\ Member(C, in)
      /\ Fields(C) /\ (Cut(wire) \/ Reads(C, wire, in, out)) /\ parsing = "reading"
  BY ClassHasFields DEF ReadItem, PInv, MInv, IInv, Parse
<1>2. CASE Stop("malformed")
  <2>1. C' = C /\ out' = out /\ in' = in /\ parsing' = "malformed"
    BY <1>2 DEF Stop, C
  <2> QED
    BY <2>1 DEF PInv, MInv, Parse, Member
<1>3. CASE /\ ~Ends(it)
           /\ in' = (IF Known(C, it) THEN Taken(C, in, it) ELSE in)
           /\ wire' = Tail(wire) /\ UNCHANGED <<type, out, parsing>>
  <2>1. C' = C /\ out' = out /\ in' = After(C, in, it) /\ parsing' = "reading"
    BY <1>1, <1>3 DEF C, After
  <2>2. Member(C, in')
    BY <1>1, <2>1, TakenMember DEF After
  <2>3. ASSUME Cut(wire) PROVE Cut(wire')
    <3> HIDE DEF Wire
    <3> DEFINE t == Tail(wire)
    <3>1. PICK i \in 1 .. Len(wire) : Ends(wire[i])
      BY <2>3 DEF Cut
    <3>2. /\ it = wire[1] /\ Len(wire) \in Nat /\ Len(t) = Len(wire) - 1
          /\ \A j \in 1 .. Len(wire) - 1 : t[j] = wire[j + 1]
      BY <1>1
    <3> HIDE DEF it, t
    <3>3. i # 1
      BY <1>3, <3>1, <3>2
    <3>4. i - 1 \in 1 .. Len(t) /\ (i - 1) + 1 = i
      BY <3>2, <3>3
    <3>5. t[i - 1] = wire[i]
      BY <3>2, <3>4
    <3>6. Cut(t)
      BY <3>1, <3>4, <3>5 DEF Cut
    <3> QED
      BY <1>3, <3>6 DEF t
  <2>4. ASSUME Reads(C, wire, in, out) PROVE Reads(C, wire', in', out)
    <3>1. Reads(C, Tail(wire), After(C, in, it), out)
      BY <1>1, <2>4, ReadRest
    <3> QED
      BY <1>3, <2>1, <3>1
  <2>5. Cut(wire') \/ Reads(C, wire', in', out)
    BY <1>1, <2>3, <2>4
  <2> QED
    BY <1>1, <2>1, <2>2, <2>5 DEF PInv, MInv, Parse, Member, Cut, Reads, Leads
<1> QED
  BY <1>2, <1>3 DEF ReadItem, Ends

LEMMA ParseEnd == ASSUME PInv, IInv', EndOfInput PROVE PInv'
<1>1. in = out
  <2>1. wire = <<>> /\ parsing = "reading"
    BY DEF EndOfInput
  <2>2. Len(wire) = 0
    BY <2>1
  <2>3. ~Cut(wire)
    BY <2>2 DEF Cut
  <2>4. Reads(C, wire, in, out)
    BY <2>1, <2>3 DEF PInv, Parse
  <2> QED
    BY <2>2, <2>4 DEF Reads
<1>2. /\ C' = C /\ out' = out /\ in' = in
      /\ parsing' = IF IsInitialized(C, in) THEN "ok" ELSE "refused"
  BY DEF EndOfInput, Stop, C
<1> QED
  BY <1>1, <1>2 DEF PInv, MInv, Parse, Member, IsInitialized

LEMMA ParseNext == PInv /\ [Next]_vars => PInv'
<1> SUFFICES ASSUME PInv, [Next]_vars PROVE PInv'
  OBVIOUS
<1>1. IInv'
  BY InvNext DEF PInv, MInv
<1>2. CASE UNCHANGED vars
  <2>1. C' = C /\ out' = out /\ in' = in /\ wire' = wire /\ parsing' = parsing
    BY <1>2 DEF vars, C
  <2> QED
    BY <1>1, <2>1 DEF PInv, MInv, Parse, Member, Cut, Reads, Leads, IsInitialized
<1> QED
  BY <1>1, <1>2, ParseMethods, ParseSwap, ParseSend, ParseReadItem, ParseEnd DEF Next

LEMMA ParseInvariance == Spec => []PInv
BY ParseInit, ParseNext, PTL DEF Spec

-----------------------------------------------------------------------------
\* The bytes that ByteSize makes room for are the bytes that are written, for
\* every object of every class.
THEOREM SizesAreWritten == Spec => []SizeIsWritten
<1>1. ASSUME PInv PROVE SizeIsWritten
  <2>1. /\ type \in DOMAIN ClassOf /\ Clean(out) /\ Member(C, out)
        /\ C.repeated \cap C.scalar = {}
    BY <1>1, ClassHasFields DEF PInv, MInv, IInv, Fields
  <2>2. ByteSize(C, out) = Bytes(Write(C, out))
    BY <2>1, SizeWritten
  <2> QED
    BY <2>2 DEF SizeIsWritten, Bytes, BytesEach
<1> QED
  BY <1>1, ParseInvariance, PTL

\* A message that is parsed is the one that was written, and one that is read
\* to its end and refused lacked a required field, whatever the object held
\* before, in either encoding and with whatever foreign item on the wire.
THEOREM ReadsWhatWasWritten == Spec => []RoundTrip
<1>1. PInv => RoundTrip
  BY DEF PInv, Parse, RoundTrip
<1> QED
  BY <1>1, ParseInvariance, PTL
=============================================================================
