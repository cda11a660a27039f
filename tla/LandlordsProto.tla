-------------------------- MODULE LandlordsProto --------------------------
(***************************************************************************)
(* The messages of the game on the wire: the five generated classes of     *)
(* landlords_proto.proto, a packet that one side writes and the other      *)
(* parses, one step per item on the wire.                                  *)
(*                                                                         *)
(* The classes differ in their fields only, so a class is a record of its  *)
(* field numbers and the methods are written once.  What an object holds:  *)
(* has, the bits of the fields that are set; value, the scalar fields; and *)
(* list, the repeated ones.  An item is a tag and what follows it; the     *)
(* encoding of an integer is abstracted to its size.                       *)
(***************************************************************************)
EXTENDS Integers, SequencesExt

CONSTANTS
  Values,    \* the values given to the fields
  MaxItems   \* bound: elements in the repeated fields of one object

ASSUME ValuesAssumption == Values \subseteq Int
ASSUME WidthAssumption == \A v \in Values : -2147483647 - 1 <= v /\ v <= 2147483647

Field == 1 .. 4

\* The members of the classes.  A field that is not in a class keeps its first
\* value in the objects of the class.
DealCardFields         == [repeated |-> {1, 2}, scalar |-> {3, 4}]
GrabLandlordFields     == [repeated |-> {},     scalar |-> {1, 2}]
GrabLandlordOverFields == [repeated |-> {},     scalar |-> {1, 2}]
PlayCardFields         == [repeated |-> {1},    scalar |-> {2}]
GameOverFields         == [repeated |-> {},     scalar |-> {}]

\* The methods of a class are those of "The methods of a class" and "The wire"
\* for its fields and for those that IsInitialized asks for.
Class(fields, required) ==
  [repeated |-> fields.repeated, scalar |-> fields.scalar, required |-> required]

DealCard         == Class(DealCardFields, {3, 4})
GrabLandlord     == Class(GrabLandlordFields, {1})
GrabLandlordOver == Class(GrabLandlordOverFields, {1, 2})
PlayCard         == Class(PlayCardFields, {})
GameOver         == Class(GameOverFields, {})

\* The class that either side parses a packet of this type with.
ClassOf == [DEAL |-> DealCard, GRAB |-> GrabLandlord, GRAB_DONE |-> GrabLandlordOver,
            PLAY |-> PlayCard, OVER |-> GameOver]

VARIABLES
  type,     \* the type of the packets
  out,      \* the object that is written
  in,       \* the object that is parsed into, again and again
  wire,     \* the items still to be read
  parsing   \* "no", "reading"; then "ok", or why ParseFromArray returned false:
            \* "malformed", or "refused" for want of a required field

vars == <<type, out, in, wire, parsing>>
C == ClassOf[type]

-----------------------------------------------------------------------------
(* The methods of a class                                                  *)

New == [has |-> {}, value |-> [f \in Field |-> 0], list |-> [f \in Field |-> <<>>]]

Set(o, f, v) == [o EXCEPT !.has = @ \cup {f}, !.value[f] = v]
Add(o, f, v) == [o EXCEPT !.list[f] = Append(@, v)]

\* Faulty: clear_cur clears the bit only.
ClearFieldBit(o, f) == [o EXCEPT !.has = @ \ {f}]
ClearField(o, f) == [o EXCEPT !.has = @ \ {f}, !.value[f] = 0, !.list[f] = <<>>]

\* Faulty: the repeated fields are left as they are.
ClearScalars(o) == [New EXCEPT !.list = o.list]
\* The scalar fields are only touched if one of them is set.
Clear(o) == [New EXCEPT !.value = IF o.has = {} THEN o.value ELSE @]

\* Faulty: the fields that are taken over are not marked as set.
MergeFromUnmarked(o, from) ==
  [has   |-> o.has,
   value |-> [f \in Field |-> IF f \in from.has THEN from.value[f] ELSE o.value[f]],
   list  |-> [f \in Field |-> o.list[f] \o from.list[f]]]
MergeFrom(o, from) ==
  [has   |-> o.has \cup from.has,
   value |-> [f \in Field |-> IF f \in from.has THEN from.value[f] ELSE o.value[f]],
   list  |-> [f \in Field |-> o.list[f] \o from.list[f]]]

CopyFrom(o, from) == MergeFrom(Clear(o), from)

IsInitialized(c, o) == c.required \subseteq o.has

-----------------------------------------------------------------------------
(* The wire                                                                *)

Item(f, kind, vs) == [field |-> f, kind |-> kind, values |-> vs]
Varint(f, v) == Item(f, "varint", <<v>>)

Items(c, o, f) ==
  IF f \in c.repeated THEN [i \in DOMAIN o.list[f] |-> Varint(f, o.list[f][i])]
  ELSE IF f \in o.has THEN <<Varint(f, o.value[f])>> ELSE <<>>

\* SerializeWithCachedSizes: in the order of the field numbers.
Write(c, o) ==
  Items(c, o, 1) \o Items(c, o, 2) \o Items(c, o, 3) \o Items(c, o, 4)

\* Bytes of an int32: seven bits each, ten for a negative one.
Int32Size(v) == CASE v < 0 -> 10 [] v \in 0 .. 2^7 - 1 -> 1 [] v \in 2^7 .. 2^14 - 1 -> 2
                  [] v \in 2^14 .. 2^21 - 1 -> 3 [] v \in 2^21 .. 2^28 - 1 -> 4 [] OTHER -> 5

Total(ns) == LET upTo[i \in 0 .. Len(ns)] == IF i = 0 THEN 0 ELSE upTo[i - 1] + ns[i]
             IN  upTo[Len(ns)]

Sizes(vs) == Total([i \in DOMAIN vs |-> Int32Size(vs[i])])

\* Faulty: a scalar field counts whether it is set or not.
ScalarSizeAlways(o, f) == 1 + Int32Size(o.value[f])
ScalarSize(o, f) == IF f \in o.has THEN 1 + Int32Size(o.value[f]) ELSE 0

FieldSize(c, o, f) ==
  IF f \in c.repeated THEN 1 * Len(o.list[f]) + Sizes(o.list[f])
  ELSE IF f \in c.scalar THEN ScalarSize(o, f) ELSE 0

ByteSize(c, o) ==
  FieldSize(c, o, 1) + FieldSize(c, o, 2) + FieldSize(c, o, 3) + FieldSize(c, o, 4)

\* A packet: the type and, if there are any bytes, the message.
SerializeProtoPacket(c, o) == IF ByteSize(c, o) > 0 THEN Write(c, o) ELSE <<>>

\* What other writers may put into a message: the elements of a repeated field
\* in one item, fields of another version, known fields of another form ...
Packed(c, o) ==
  (IF 1 \in c.repeated THEN <<Item(1, "bytes", o.list[1])>> ELSE Items(c, o, 1))
    \o Items(c, o, 2) \o Items(c, o, 3) \o Items(c, o, 4)
Foreign(c) == {Item(5, "varint", <<1>>)}
         \cup {Item(f, "bytes", <<1>>) : f \in c.scalar}
         \cup {Item(f, "fixed", <<>>) : f \in c.repeated}
\* ... and what ends a message too early: an item cut short, the end of a group.
Broken == {Item(1, "cut", <<>>), Item(1, "end_group", <<>>)}

Wires(c, o) ==
  LET plain == SerializeProtoPacket(c, o)
  IN  {plain, Packed(c, o)}
        \cup {InsertAt(plain, i, x) : i \in 1 .. Len(plain) + 1, x \in Foreign(c) \cup Broken}

-----------------------------------------------------------------------------
Init ==
  /\ type \in DOMAIN ClassOf
  /\ out = New /\ in = New /\ wire = <<>> /\ parsing = "no"

\* The program fills in a message.
Fill(o) ==
  /\ parsing # "reading" /\ parsing' = "no"
  /\ out' = o
  /\ UNCHANGED <<type, in, wire>>

Elements(o) == Len(o.list[1]) + Len(o.list[2])

SetField == \E f \in C.scalar, v \in Values : Fill(Set(out, f, v))
AddElement == \E f \in C.repeated, v \in Values :
                Elements(out) < MaxItems /\ Fill(Add(out, f, v))
SetElement == \E f \in C.repeated, v \in Values : \E i \in DOMAIN out.list[f] :
                Fill([out EXCEPT !.list[f][i] = v])
ClearOne == \E f \in C.scalar \cup C.repeated : Fill(ClearField(out, f))
ClearAll == Fill(Clear(out))
\* "GrabLandlord grab = message": what was parsed is the start of an answer.
Copy == Fill(CopyFrom(out, in))

Swap ==
  /\ parsing # "reading" /\ parsing' = "no"
  /\ out' = in /\ in' = out
  /\ UNCHANGED <<type, wire>>

\* The packet is sent; ParseFromArray begins with Clear.
Send ==
  /\ parsing # "reading" /\ parsing' = "reading"
  /\ wire' \in Wires(C, out)
  /\ in' = Clear(in)
  /\ UNCHANGED <<type, out>>

Stop(result) == parsing' = result /\ wire' = <<>> /\ UNCHANGED <<type, out, in>>

\* The object after an item of a field the class knows, in a form it knows.
Taken(c, o, it) ==
  IF it.field \in c.repeated THEN [o EXCEPT !.list[it.field] = @ \o it.values]
                             ELSE Set(o, it.field, it.values[1])

Known(c, it) == \/ it.field \in c.repeated /\ it.kind \in {"varint", "bytes"}
                \/ it.field \in c.scalar /\ it.kind = "varint"

\* One round of the loop of MergePartialFromCodedStream.
ReadItem ==
  /\ parsing = "reading" /\ wire # <<>>
  /\ LET it == Head(wire)
     IN  \/ it.kind \in {"cut", "end_group"} /\ Stop("malformed")
         \/ /\ it.kind \notin {"cut", "end_group"}
            /\ in' = IF Known(C, it) THEN Taken(C, in, it) ELSE in
            /\ wire' = Tail(wire)
            /\ UNCHANGED <<type, out, parsing>>

EndOfInput ==
  /\ parsing = "reading" /\ wire = <<>>
  /\ Stop(IF IsInitialized(C, in) THEN "ok" ELSE "refused")

Next == \/ SetField \/ AddElement \/ SetElement \/ ClearOne \/ ClearAll \/ Copy \/ Swap
        \/ Send \/ ReadItem \/ EndOfInput

Spec == Init /\ [][Next]_vars

-----------------------------------------------------------------------------
Object == [has : SUBSET Field, value : [Field -> Int], list : [Field -> Seq(Int)]]
Kind == {"varint", "bytes", "fixed", "cut", "end_group"}

\* The variables have their types, and a field that is not set holds its
\* default: Clear does not write it again and the accessors do not look at the
\* bits (landlords_proto.pb.cc:126-133, landlords_proto.pb.h:580-590).
UnsetIsDefault ==
  /\ type \in DOMAIN ClassOf
  /\ out \in Object /\ in \in Object
  /\ wire \in Seq([field : Int, kind : Kind, values : Seq(Int)])
  /\ parsing \in {"no", "reading", "ok", "malformed", "refused"}
  /\ \A o \in {out, in} : \A f \in Field \ o.has : o.value[f] = 0

\* What was parsed is what was written, whatever the object held before,
\* whatever other fields came with it and in either encoding of the repeated
\* fields; and a whole message that is refused lacked a required field
\* (DealState.cpp:49-56, PlayState.cpp:23-30, HelloWorldScene.cpp:206-238).
RoundTrip ==
  /\ parsing = "ok" => in = out
  /\ parsing = "refused" => ~IsInitialized(C, out)

\* ByteSize, by which SerializeProtoPacket makes room, is the number of bytes
\* that are then written (proto_helper.h:9-19).
SizeIsWritten ==
  LET bytes(w) == Total([i \in DOMAIN w |-> 1 + Sizes(w[i].values)])
  IN  ByteSize(C, out) = bytes(Write(C, out))

\* A copy is equal to what it was made of, whatever the target held before
\* (DealState.cpp:107, landlords_proto.pb.cc:309-327).
CopiesEqual == CopyFrom(out, in) = in /\ CopyFrom(in, out) = out
===========================================================================
