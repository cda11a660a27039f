------------------------ MODULE ServerProcess_proofs ------------------------
(***************************************************************************)
(* Theorems about ServerProcess: which settings its log gets from any      *)
(* file, and what becomes of the lines that it logs, for any levels, files *)
(* and settings, any number of lines and processes, whatever fails and     *)
(* wherever a process aborts.                                              *)
(***************************************************************************)
EXTENDS ServerProcess, FiniteSetTheorems, SequenceTheorems, TLAPS

-----------------------------------------------------------------------------
(* Going along a sequence                                                  *)

\* A set of numbers that is not empty has a least element.
LEMMA LeastNat ==
  ASSUME NEW T, T \subseteq Nat, T # {}
  PROVE  \E m \in T : \A k \in T : m <= k
<1> DEFINE R == OpToRel(<, Nat)
<1>1. IsWellFoundedOn(R, Nat)
  BY NatLessThanWellFounded
<1>2. \A x, y \in Nat : y < x => <<y, x>> \in R
  BY DEF OpToRel
<1> HIDE DEF R
<1>3. PICK x \in T : \A y \in T : ~ (<<y, x>> \in R)
  BY <1>1, WFMin
<1>4. ASSUME NEW k \in T PROVE x <= k
  <2>1. x \in Nat /\ k \in Nat /\ ~ (k < x)
    BY <1>2, <1>3, Zenon
  <2> QED
    BY <2>1
<1> QED
  BY <1>4

\* What holds at 0 and is carried from each position to the next holds up to N.
LEMMA Climb ==
  ASSUME NEW N \in Nat, NEW T, 0 \in T, \A n \in 1 .. N : n - 1 \in T => n \in T
  PROVE  0 .. N \subseteq T
<1> DEFINE Out == {n \in 0 .. N : n \notin T}
<1> SUFFICES ASSUME Out # {} PROVE FALSE
  OBVIOUS
<1>1. PICK m \in Out : \A k \in Out : m <= k
  <2>1. Out \subseteq Nat
    OBVIOUS
  <2> QED
    BY <2>1, LeastNat
<1>2. m \in 1 .. N /\ m - 1 \in 0 .. N /\ m - 1 \notin Out
  BY <1>1
<1> QED
  BY <1>1, <1>2

\* There is a way along a sequence that takes the same kind of step from every
\* position to the next.
Way(at, N, base, step, seq) ==
  at[0] = base /\ \A n \in 1 .. N : at[n] = step[<<at[n - 1], seq[n]>>]

LEMMA WayExists ==
  ASSUME NEW N \in Nat, NEW E, NEW seq, \A i \in 1 .. N : seq[i] \in E,
         NEW S, NEW base \in S, NEW step \in [S \X E -> S]
  PROVE  \E at \in [0 .. N -> S] : Way(at, N, base, step, seq)
<1> DEFINE W(n, at) == at[0] = base /\ \A i \in 1 .. n : at[i] = step[<<at[i - 1], seq[i]>>]
           T == {n \in 0 .. N : \E at \in [0 .. n -> S] : W(n, at)}
<1>1. 0 \in T
  <2>1. \E at \in [0 .. 0 -> S] : W(0, at)
    <3> WITNESS [i \in 0 .. 0 |-> base] \in [0 .. 0 -> S]
    <3> QED
      OBVIOUS
  <2>2. 0 \in 0 .. N
    OBVIOUS
  <2> QED
    BY <2>1, <2>2
<1>2. ASSUME NEW n \in 1 .. N, n - 1 \in T PROVE n \in T
  <2>1. PICK at \in [0 .. n - 1 -> S] : W(n - 1, at)
    BY <1>2
  <2> DEFINE next == step[<<at[n - 1], seq[n]>>]
             on == [i \in 0 .. n |-> IF i = n THEN next ELSE at[i]]
  <2>2. n - 1 \in 0 .. n - 1 /\ 0 \in 0 .. n - 1 /\ seq[n] \in E
    OBVIOUS
  <2>3. next \in S
    BY <2>2
  <2>4. on \in [0 .. n -> S] /\ on[n] = next /\ \A i \in 0 .. n - 1 : on[i] = at[i]
    BY <2>3
  <2> HIDE DEF on
  <2>5. on[0] = base
    BY <2>1, <2>2, <2>4
  <2>6. ASSUME NEW i \in 1 .. n PROVE on[i] = step[<<on[i - 1], seq[i]>>]
    <3>1. i - 1 \in 0 .. n - 1 /\ (i = n \/ (i \in 1 .. n - 1 /\ i \in 0 .. n - 1))
      OBVIOUS
    <3> QED
      BY <2>1, <2>4, <3>1
  <2>7. W(n, on)
    BY <2>5, <2>6
  <2> QED
    BY <2>4, <2>7
<1>3. N \in T
  <2> HIDE DEF T
  <2>1. 0 .. N \subseteq T
    BY <1>1, <1>2, Climb
  <2> QED
    BY <2>1
<1> QED
  BY <1>3 DEF Way

\* What is true at the start and stays true at each step is true all the way.
LEMMA Along ==
  ASSUME NEW N \in Nat, NEW S, NEW f, f[0] \in S,
         \A n \in 1 .. N : f[n - 1] \in S => f[n] \in S
  PROVE  \A n \in 0 .. N : f[n] \in S
<1> DEFINE T == {n \in 0 .. N : f[n] \in S}
<1>1. 0 \in T
  OBVIOUS
<1>2. ASSUME NEW n \in 1 .. N, n - 1 \in T PROVE n \in T
  BY <1>2
<1> HIDE DEF T
<1>3. 0 .. N \subseteq T
  BY <1>1, <1>2, Climb
<1> QED
  BY <1>3 DEF T

-----------------------------------------------------------------------------
(* Configurations                                                          *)

Where == Level \cup {"GLOBAL"}
Key == Where \X Type
Value == BOOLEAN \cup Nat \cup FileNames
Conf == {c \in [keys : Seq(Key), of : UNION {[K -> Value] : K \in SUBSET Key}] :
           /\ \A key \in Key : key \in DOMAIN c.of <=> \E i \in DOMAIN c.keys : c.keys[i] = key
           /\ \A key \in DOMAIN c.of : c.of[key] \in ValueOf(key[2])}

\* The entries of d are still there in c.
Keeps(c, d) == DOMAIN d.of \subseteq DOMAIN c.of

\* Configurations stay configurations.
LEMMA PutOneConf ==
  ASSUME NEW c \in Conf, NEW key \in Key, NEW v \in ValueOf(key[2]), v \in Value
  PROVE  /\ PutOne(c, key, v) \in Conf /\ Keeps(PutOne(c, key, v), c)
         /\ key \in DOMAIN PutOne(c, key, v).of
<1> DEFINE d == PutOne(c, key, v)
           K == DOMAIN c.of
<1>1. /\ c.keys \in Seq(Key) /\ K \subseteq Key /\ c.of \in [K -> Value]
      /\ \A k \in K : c.of[k] \in ValueOf(k[2])
      /\ \A k \in Key : k \in K <=> \E i \in DOMAIN c.keys : c.keys[i] = k
  BY DEF Conf
<1>2. /\ d.of \in [K \cup {key} -> Value] /\ \A k \in K \cup {key} : d.of[k] \in ValueOf(k[2])
      /\ DOMAIN d.of = K \cup {key}
  BY <1>1 DEF PutOne, With
<1>3. /\ d.keys \in Seq(Key)
      /\ \A k \in Key : k \in K \cup {key} <=> \E i \in DOMAIN d.keys : d.keys[i] = k
  <2>1. CASE key \in K
    <3>1. d.keys = c.keys /\ K \cup {key} = K
      BY <2>1 DEF PutOne, With
    <3> QED
      BY <1>1, <3>1
  <2>2. CASE key \notin K
    <3>1. d.keys = Append(c.keys, key)
      BY <2>2 DEF PutOne, With
    <3>2. /\ d.keys \in Seq(Key) /\ DOMAIN d.keys = 1 .. Len(c.keys) + 1 /\ Len(c.keys) \in Nat
          /\ DOMAIN c.keys = 1 .. Len(c.keys)
          /\ \A i \in 1 .. Len(c.keys) : d.keys[i] = c.keys[i]
          /\ d.keys[Len(c.keys) + 1] = key
      BY <1>1, <3>1
    <3> QED
      BY <1>1, <3>2
  <2> QED
    BY <2>1, <2>2
<1>4. d = [keys |-> d.keys, of |-> d.of]
  BY DEF PutOne, With
<1> HIDE DEF d
<1>5. d \in [keys : Seq(Key), of : UNION {[A -> Value] : A \in SUBSET Key}]
  <2>1. K \cup {key} \in SUBSET Key
    BY <1>1
  <2> QED
    BY <1>2, <1>3, <1>4, <2>1
<1> QED
  BY <1>2, <1>3, <1>5 DEF Conf, Keeps, d

\* Putting a value for GLOBAL goes along the levels.
LEMMA PutWay ==
  ASSUME NEW c \in Conf, NEW type \in Type, NEW v \in ValueOf(type), v \in Value
  PROVE  \E f : /\ f[0] = PutOne(c, <<"GLOBAL", type>>, v)
                /\ \A n \in 1 .. Len(LevelOrder) :
                     f[n] = PutOne(f[n - 1], <<LevelOrder[n], type>>, v)
                /\ \A n \in 0 .. Len(LevelOrder) : f[n] \in Conf
                /\ Put(c, "GLOBAL", type, v) = f[Len(LevelOrder)]
<1> DEFINE base == PutOne(c, <<"GLOBAL", type>>, v)
           S == Conf
           Op(d, x) == PutOne(d, <<x, type>>, v)
           step == [p \in S \X Level |-> Op(p[1], p[2])]
           N == Len(LevelOrder)
           f[n \in 0 .. N] == IF n = 0 THEN base ELSE Op(f[n - 1], LevelOrder[n])
<1>1. \A x \in Where : <<x, type>> \in Key /\ <<x, type>>[2] = type
  BY DEF Key
<1>2. base \in S
  <2>1. "GLOBAL" \in Where
    BY DEF Where
  <2> QED
    BY <1>1, <2>1, PutOneConf
<1>3. ASSUME NEW d \in S, NEW x \in Level PROVE Op(d, x) \in S
  <2>1. x \in Where
    BY DEF Where
  <2> QED
    BY <1>1, <2>1, PutOneConf
<1>4. Put(c, "GLOBAL", type, v) = f[N]
  BY DEF Put, Iterate
<1>5. LevelOrder \in Seq(Level) /\ N \in Nat /\ \A n \in 1 .. N : LevelOrder[n] \in Level
  BY LoggingAssumption
<1>6. step \in [S \X Level -> S]
  BY <1>3
<1> HIDE DEF S, base, Op, N, f
<1>7. PICK at \in [0 .. N -> S] :
        at[0] = base /\ \A n \in 1 .. N : at[n] = Op(at[n - 1], LevelOrder[n])
  <2>1. PICK at \in [0 .. N -> S] : Way(at, N, base, step, LevelOrder)
    <3> HIDE DEF step
    <3> QED
      BY <1>2, <1>5, <1>6, WayExists
  <2>2. \A n \in 1 .. N : n - 1 \in 0 .. N /\ at[n - 1] \in S
    BY <1>5, <2>1
  <2> QED
    BY <1>5, <2>1, <2>2 DEF Way
<1>8. at = [n \in 0 .. N |-> IF n = 0 THEN base ELSE Op(at[n - 1], LevelOrder[n])]
  BY <1>5, <1>7
<1>9. f = [n \in 0 .. N |-> IF n = 0 THEN base ELSE Op(f[n - 1], LevelOrder[n])]
  BY <1>8 DEF f
<1>10. f[0] = base /\ \A n \in 1 .. N : f[n] = Op(f[n - 1], LevelOrder[n])
  BY <1>5, <1>9
<1>11. \A n \in 0 .. N : f[n] \in S
  BY <1>2, <1>3, <1>5, <1>10, Along
<1> QED
  BY <1>4, <1>10, <1>11, Zenon DEF S, base, Op, N

\* A configuration stays one when a value is put, and nothing is taken out.
LEMMA PutConf ==
  ASSUME NEW c \in Conf, NEW l \in Where, NEW type \in Type, NEW v \in ValueOf(type), v \in Value
  PROVE  /\ Put(c, l, type, v) \in Conf /\ Keeps(Put(c, l, type, v), c)
         /\ l = "GLOBAL" => <<l, type>> \in DOMAIN Put(c, l, type, v).of
<1>1. \A x \in Where : <<x, type>> \in Key /\ <<x, type>>[2] = type
  BY DEF Key
<1>2. CASE l # "GLOBAL"
  <2>1. Put(c, l, type, v) = PutOne(c, <<l, type>>, v)
    BY <1>2 DEF Put
  <2> QED
    BY <1>1, <1>2, <2>1, PutOneConf
<1>3. CASE l = "GLOBAL"
  <2> DEFINE N == Len(LevelOrder)
             S == {d \in Conf : Keeps(d, c) /\ <<l, type>> \in DOMAIN d.of}
  <2>1. PICK f : /\ f[0] = PutOne(c, <<l, type>>, v)
                 /\ \A n \in 1 .. N : f[n] = PutOne(f[n - 1], <<LevelOrder[n], type>>, v)
                 /\ Put(c, l, type, v) = f[N]
    BY <1>3, PutWay
  <2>2. N \in Nat /\ \A n \in 1 .. N : LevelOrder[n] \in Where
    BY LoggingAssumption DEF Where
  <2>3. f[0] \in S
    BY <1>1, <2>1, PutOneConf
  <2>4. ASSUME NEW d \in S, NEW x \in Where PROVE PutOne(d, <<x, type>>, v) \in S
    BY <1>1, PutOneConf DEF Keeps
  <2> HIDE DEF N, S
  <2>5. \A n \in 0 .. N : f[n] \in S
    BY <2>1, <2>2, <2>3, <2>4, Along
  <2>6. f[N] \in S
    BY <2>2, <2>5
  <2> QED
    BY <1>3, <2>1, <2>6 DEF S
<1> QED
  BY <1>2, <1>3

\* The defaults have their types.
LEMMA DefaultsTyped ==
  /\ Len(Defaults) = 5 /\ Len(Front(Defaults)) = 4
  /\ Type = {"ENABLED", "FILENAME", "TO_FILE", "MAX_LOG_FILE_SIZE", "LOG_FLUSH_THRESHOLD"}
  /\ Type = {Defaults[n][1] : n \in 1 .. 5}
  /\ \A n \in 1 .. 4 : Front(Defaults)[n] = Defaults[n]
  /\ \A n \in 1 .. 5 : /\ Defaults[n][1] \in Type
                       /\ Defaults[n][2] \in ValueOf(Defaults[n][1]) /\ Defaults[n][2] \in Value
<1>1. Len(Defaults) = 5 /\ DOMAIN Defaults = 1 .. 5
  BY DEF Defaults
<1>2. /\ Defaults[1] = <<"ENABLED", TRUE>> /\ Defaults[2] = <<"FILENAME", DefaultFile>>
      /\ Defaults[3] = <<"TO_FILE", TRUE>> /\ Defaults[4] = <<"MAX_LOG_FILE_SIZE", 0>>
      /\ Defaults[5] = <<"LOG_FLUSH_THRESHOLD", 0>>
  BY DEF Defaults
<1>3. \A n \in 1 .. 5 : n = 1 \/ n = 2 \/ n = 3 \/ n = 4 \/ n = 5
  OBVIOUS
<1> HIDE DEF Defaults
<1>4. Type = {"ENABLED", "FILENAME", "TO_FILE", "MAX_LOG_FILE_SIZE", "LOG_FLUSH_THRESHOLD"}
  BY <1>1, <1>2, <1>3 DEF Type
<1>5. ASSUME NEW n \in 1 .. 5
      PROVE  /\ Defaults[n][1] \in Type
             /\ Defaults[n][2] \in ValueOf(Defaults[n][1]) /\ Defaults[n][2] \in Value
  <2>1. CASE n = 1
    <3>1. Defaults[n][1] = "ENABLED" /\ Defaults[n][2] = TRUE
      <4>1. <<"ENABLED", TRUE>>[1] = "ENABLED" /\ <<"ENABLED", TRUE>>[2] = TRUE
        OBVIOUS
      <4> QED
        BY <1>2, <2>1, <4>1, Zenon
    <3>2. ValueOf("ENABLED") = BOOLEAN /\ "ENABLED" \in Type
      BY <1>4 DEF ValueOf
    <3>3. TRUE \in BOOLEAN /\ TRUE \in Value
      BY DEF Value
    <3> QED
      BY <3>1, <3>2, <3>3, Zenon
  <2>2. CASE n = 2
    BY <1>2, <1>4, <2>2, LoggingAssumption DEF ValueOf, Value
  <2>3. CASE n = 3
    <3>1. Defaults[n][1] = "TO_FILE" /\ Defaults[n][2] = TRUE
      <4>1. <<"TO_FILE", TRUE>>[1] = "TO_FILE" /\ <<"TO_FILE", TRUE>>[2] = TRUE
        OBVIOUS
      <4> QED
        BY <1>2, <2>3, <4>1, Zenon
    <3>2. ValueOf("TO_FILE") = BOOLEAN /\ "TO_FILE" \in Type
      BY <1>4 DEF ValueOf
    <3>3. TRUE \in BOOLEAN /\ TRUE \in Value
      BY DEF Value
    <3> QED
      BY <3>1, <3>2, <3>3, Zenon
  <2>4. CASE n = 4
    BY <1>2, <1>4, <2>4 DEF ValueOf, Value
  <2>5. CASE n = 5
    BY <1>2, <1>4, <2>5 DEF ValueOf, Value
  <2> QED
    BY <1>3, <2>1, <2>2, <2>3, <2>4, <2>5
<1>6. Front(Defaults) = [n \in 1 .. 4 |-> Defaults[n]]
  BY <1>1 DEF Front
<1>7. Type = {Defaults[n][1] : n \in 1 .. 5}
  BY <1>1 DEF Type
<1> QED
  BY <1>1, <1>4, <1>5, <1>6, <1>7

\* The configuration without entries.
LEMMA NoEntriesConf == NoEntries \in Conf
<1>1. <<>> \in [{} -> Value] /\ {} \in SUBSET Key /\ DOMAIN <<>> = {}
  OBVIOUS
<1>2. <<>> \in UNION {[K -> Value] : K \in SUBSET Key}
  BY <1>1
<1> QED
  BY <1>1, <1>2 DEF NoEntries, Conf

\* Every setting has a value for GLOBAL.
Complete(c) == \A type \in Type : <<"GLOBAL", type>> \in DOMAIN c.of

\* The defaults are put one after the other.
LEMMA SetToDefaultWay ==
  \E f : /\ f[0] = NoEntries /\ \A n \in 1 .. 5 : f[n] = PutAlways(f[n - 1], Defaults[n])
         /\ \A n \in 0 .. 5 : f[n] \in Conf
         /\ SetToDefault = f[5]
<1> DEFINE N == Len(Defaults)
           S == Conf
           E == {Defaults[n] : n \in 1 .. N}
           base == NoEntries
           Op(d, x) == PutAlways(d, x)
           step == [p \in S \X E |-> Op(p[1], p[2])]
           f[n \in 0 .. N] == IF n = 0 THEN base ELSE Op(f[n - 1], Defaults[n])
<1>1. SetToDefault = f[N]
  BY DEF SetToDefault, Iterate
<1>2. base \in S
  BY NoEntriesConf
<1>3. ASSUME NEW d \in S, NEW x \in E PROVE Op(d, x) \in S
  <2>1. x[1] \in Type /\ x[2] \in ValueOf(x[1]) /\ x[2] \in Value /\ "GLOBAL" \in Where
    BY DefaultsTyped DEF Where
  <2> QED
    BY <2>1, PutConf DEF PutAlways
<1>4. N = 5 /\ N \in Nat /\ \A n \in 1 .. N : Defaults[n] \in E
  BY DefaultsTyped
<1> HIDE DEF E
<1>5. step \in [S \X E -> S]
  BY <1>3
<1> HIDE DEF S, base, Op, N, f
<1>6. PICK at \in [0 .. N -> S] :
        at[0] = base /\ \A n \in 1 .. N : at[n] = Op(at[n - 1], Defaults[n])
  <2>1. PICK at \in [0 .. N -> S] : Way(at, N, base, step, Defaults)
    <3> HIDE DEF step
    <3> QED
      BY <1>2, <1>4, <1>5, WayExists
  <2>2. \A n \in 1 .. N : n - 1 \in 0 .. N /\ at[n - 1] \in S
    BY <1>4, <2>1
  <2> QED
    BY <1>4, <2>1, <2>2 DEF Way
<1>7. at = [n \in 0 .. N |-> IF n = 0 THEN base ELSE Op(at[n - 1], Defaults[n])]
  BY <1>4, <1>6
<1>8. f = [n \in 0 .. N |-> IF n = 0 THEN base ELSE Op(f[n - 1], Defaults[n])]
  BY <1>7 DEF f
<1>9. f[0] = base /\ \A n \in 1 .. N : f[n] = Op(f[n - 1], Defaults[n])
  BY <1>4, <1>8
<1>10. \A n \in 0 .. N : f[n] \in S
  BY <1>2, <1>3, <1>4, <1>9, Along
<1> QED
  BY <1>1, <1>4, <1>9, <1>10, Zenon DEF S, base, Op

\* The defaults are a configuration, which sets everything for GLOBAL.
LEMMA SetToDefaultConf == SetToDefault \in Conf /\ Complete(SetToDefault)
<1>1. PICK f : /\ f[0] = NoEntries /\ \A n \in 1 .. 5 : f[n] = PutAlways(f[n - 1], Defaults[n])
               /\ \A n \in 0 .. 5 : f[n] \in Conf
               /\ SetToDefault = f[5]
  BY SetToDefaultWay
<1>2. ASSUME NEW n \in 1 .. 5
      PROVE  /\ DOMAIN f[n - 1].of \subseteq DOMAIN f[n].of
             /\ <<"GLOBAL", Defaults[n][1]>> \in DOMAIN f[n].of
  <2>1. /\ Defaults[n][1] \in Type /\ Defaults[n][2] \in ValueOf(Defaults[n][1])
        /\ Defaults[n][2] \in Value /\ "GLOBAL" \in Where
    BY DefaultsTyped DEF Where
  <2>2. n - 1 \in 0 .. 5
    OBVIOUS
  <2> QED
    BY <1>1, <2>1, <2>2, PutConf DEF PutAlways, Keeps
<1>3. /\ DOMAIN f[1].of \subseteq DOMAIN f[2].of /\ DOMAIN f[2].of \subseteq DOMAIN f[3].of
      /\ DOMAIN f[3].of \subseteq DOMAIN f[4].of /\ DOMAIN f[4].of \subseteq DOMAIN f[5].of
  BY <1>2
<1>4. \A n \in 1 .. 5 : DOMAIN f[n].of \subseteq DOMAIN f[5].of
  <2>1. \A n \in 1 .. 5 : n = 1 \/ n = 2 \/ n = 3 \/ n = 4 \/ n = 5
    OBVIOUS
  <2> QED
    BY <1>3, <2>1
<1>5. \A n \in 1 .. 5 : <<"GLOBAL", Defaults[n][1]>> \in DOMAIN f[5].of
  BY <1>2, <1>4
<1> QED
  BY <1>1, <1>5, DefaultsTyped DEF Complete

\* What remains is put one setting after the other, if it is missing.
LEMMA SetRemainingWay ==
  ASSUME NEW c \in Conf
  PROVE  \E f : /\ f[0] = c /\ \A n \in 1 .. 4 : f[n] = PutIfNotExist(f[n - 1], Defaults[n])
                /\ \A n \in 0 .. 4 : f[n] \in Conf
                /\ SetRemainingToDefault(c) = f[4]
<1> DEFINE N == Len(Front(Defaults))
           S == Conf
           E == {Defaults[n] : n \in 1 .. 5}
           base == c
           Op(d, x) == PutIfNotExist(d, x)
           step == [p \in S \X E |-> Op(p[1], p[2])]
           f[n \in 0 .. N] == IF n = 0 THEN base ELSE Op(f[n - 1], Front(Defaults)[n])
<1>1. SetRemainingToDefault(c) = f[N]
  BY DEF SetRemainingToDefault, Iterate
<1>2. base \in S
  OBVIOUS
<1>3. ASSUME NEW d \in S, NEW x \in E PROVE Op(d, x) \in S
  <2>1. x[1] \in Type /\ x[2] \in ValueOf(x[1]) /\ x[2] \in Value /\ "GLOBAL" \in Where
    BY DefaultsTyped DEF Where
  <2> QED
    BY <2>1, PutConf DEF PutIfNotExist
<1>4. N \in Nat /\ \A n \in 1 .. N : Front(Defaults)[n] \in E
  BY DefaultsTyped
<1> HIDE DEF E
<1>5. step \in [S \X E -> S]
  BY <1>3
<1> HIDE DEF S, base, Op, N, f
<1>6. PICK at \in [0 .. N -> S] :
        at[0] = base /\ \A n \in 1 .. N : at[n] = Op(at[n - 1], Front(Defaults)[n])
  <2>1. PICK at \in [0 .. N -> S] : Way(at, N, base, step, Front(Defaults))
    <3> HIDE DEF step
    <3> QED
      BY <1>2, <1>4, <1>5, WayExists
  <2>2. \A n \in 1 .. N : n - 1 \in 0 .. N /\ at[n - 1] \in S
    BY <1>4, <2>1
  <2> QED
    BY <1>4, <2>1, <2>2 DEF Way
<1>7. at = [n \in 0 .. N |-> IF n = 0 THEN base ELSE Op(at[n - 1], Front(Defaults)[n])]
  BY <1>4, <1>6
<1>8. f = [n \in 0 .. N |-> IF n = 0 THEN base ELSE Op(f[n - 1], Front(Defaults)[n])]
  BY <1>7 DEF f
<1>9. f[0] = base /\ \A n \in 1 .. N : f[n] = Op(f[n - 1], Front(Defaults)[n])
  BY <1>4, <1>8
<1>10. \A n \in 0 .. N : f[n] \in S
  BY <1>2, <1>3, <1>4, <1>9, Along
<1>11. N = 4 /\ \A n \in 1 .. 4 : Front(Defaults)[n] = Defaults[n]
  BY DefaultsTyped DEF N
<1>12. \A n \in 1 .. 4 : f[n] = Op(f[n - 1], Defaults[n])
  BY <1>9, <1>11
<1> QED
  BY <1>1, <1>9, <1>10, <1>11, <1>12, Zenon DEF S, base, Op

\* It stays a configuration then.
LEMMA SetRemainingConf ==
  ASSUME NEW c \in Conf
  PROVE  SetRemainingToDefault(c) \in Conf
BY SetRemainingWay

\* Configurations are as long as their entries, and each has its value.
LEMMA Entries ==
  ASSUME NEW c \in Conf
  PROVE  /\ Len(c.keys) \in Nat
         /\ \A n \in 1 .. Len(c.keys) :
              /\ c.keys[n] \in Key /\ c.keys[n][1] \in Where /\ c.keys[n][2] \in Type
              /\ c.keys[n] = <<c.keys[n][1], c.keys[n][2]>> /\ c.keys[n] \in DOMAIN c.of
              /\ c.of[c.keys[n]] \in ValueOf(c.keys[n][2]) /\ c.of[c.keys[n]] \in Value
         /\ \A key \in DOMAIN c.of : \E n \in 1 .. Len(c.keys) : c.keys[n] = key
<1>1. c.keys \in Seq(Key) /\ DOMAIN c.keys = 1 .. Len(c.keys) /\ Len(c.keys) \in Nat
  BY DEF Conf
<1>2. /\ \A key \in DOMAIN c.of : key \in Key /\ c.of[key] \in Value
      /\ \A key \in DOMAIN c.of : c.of[key] \in ValueOf(key[2])
      /\ \A key \in Key : key \in DOMAIN c.of <=> \E n \in DOMAIN c.keys : c.keys[n] = key
  BY DEF Conf
<1>3. ASSUME NEW n \in 1 .. Len(c.keys)
      PROVE  /\ c.keys[n] \in Key /\ c.keys[n][1] \in Where /\ c.keys[n][2] \in Type
             /\ c.keys[n] = <<c.keys[n][1], c.keys[n][2]>> /\ c.keys[n] \in DOMAIN c.of
  <2>1. c.keys[n] \in Key
    BY <1>1
  <2> QED
    BY <1>1, <1>2, <2>1 DEF Key
<1> QED
  BY <1>1, <1>2, <1>3

\* The entries of one configuration are put into another in their order.
LEMMA SetFromBaseWay ==
  ASSUME NEW c \in Conf, NEW from \in Conf
  PROVE  \E f : /\ f[0] = c
                /\ \A n \in 1 .. Len(from.keys) :
                     f[n] = Put(f[n - 1], from.keys[n][1], from.keys[n][2], from.of[from.keys[n]])
                /\ \A n \in 0 .. Len(from.keys) : f[n] \in Conf /\ Keeps(f[n], c)
                /\ SetFromBase(c, from) = f[Len(from.keys)]
<1> DEFINE N == Len(from.keys)
           S == {d \in Conf : Keeps(d, c)}
           E == {from.keys[n] : n \in 1 .. N}
           base == c
           Op(d, x) == Put(d, x[1], x[2], from.of[x])
           step == [p \in S \X E |-> Op(p[1], p[2])]
           f[n \in 0 .. N] == IF n = 0 THEN base ELSE Op(f[n - 1], from.keys[n])
<1>1. SetFromBase(c, from) = f[N]
  BY DEF SetFromBase, Iterate
<1>2. base \in S
  BY DEF Keeps
<1>3. ASSUME NEW d \in S, NEW x \in E PROVE Op(d, x) \in S
  <2>1. x[1] \in Where /\ x[2] \in Type /\ from.of[x] \in ValueOf(x[2]) /\ from.of[x] \in Value
    BY Entries
  <2>2. Op(d, x) \in Conf /\ Keeps(Op(d, x), d)
    BY <2>1, PutConf
  <2> QED
    BY <2>2 DEF Keeps
<1>4. N \in Nat /\ \A n \in 1 .. N : from.keys[n] \in E
  BY Entries
<1> HIDE DEF E
<1>5. step \in [S \X E -> S]
  BY <1>3
<1> HIDE DEF S, base, Op, N, f
<1>6. PICK at \in [0 .. N -> S] :
        at[0] = base /\ \A n \in 1 .. N : at[n] = Op(at[n - 1], from.keys[n])
  <2>1. PICK at \in [0 .. N -> S] : Way(at, N, base, step, from.keys)
    <3> HIDE DEF step
    <3> QED
      BY <1>2, <1>4, <1>5, WayExists
  <2>2. \A n \in 1 .. N : n - 1 \in 0 .. N /\ at[n - 1] \in S
    BY <1>4, <2>1
  <2> QED
    BY <1>4, <2>1, <2>2 DEF Way
<1>7. at = [n \in 0 .. N |-> IF n = 0 THEN base ELSE Op(at[n - 1], from.keys[n])]
  BY <1>4, <1>6
<1>8. f = [n \in 0 .. N |-> IF n = 0 THEN base ELSE Op(f[n - 1], from.keys[n])]
  BY <1>7 DEF f
<1>9. f[0] = base /\ \A n \in 1 .. N : f[n] = Op(f[n - 1], from.keys[n])
  BY <1>4, <1>8
<1>10. \A n \in 0 .. N : f[n] \in S
  BY <1>2, <1>3, <1>4, <1>9, Along
<1>11. \A n \in 0 .. N : f[n] \in Conf /\ Keeps(f[n], c)
  BY <1>10 DEF S
<1> QED
  BY <1>1, <1>9, <1>11, Zenon DEF base, Op, N

\* It stays a configuration then, with what it had.
LEMMA SetFromBaseConf ==
  ASSUME NEW c \in Conf, NEW from \in Conf
  PROVE  SetFromBase(c, from) \in Conf /\ Keeps(SetFromBase(c, from), c)
<1>1. Len(from.keys) \in 0 .. Len(from.keys)
  BY Entries
<1> QED
  BY <1>1, SetFromBaseWay

Parser == [level : Where \cup {"UNKNOWN"}, conf : Conf]

\* A file is read line by line.
LEMMA ParseWay ==
  ASSUME NEW g \in Files
  PROVE  \E f : /\ f[0] = [level |-> "UNKNOWN", conf |-> NoEntries]
                /\ \A n \in 1 .. Len(g) : f[n] = ParseLine(f[n - 1], g[n])
                /\ \A n \in 0 .. Len(g) : f[n] \in Parser
                /\ ParseFromFile(g) = f[Len(g)].conf
<1> DEFINE N == Len(g)
           S == Parser
           E == {g[n] : n \in 1 .. N}
           base == [level |-> "UNKNOWN", conf |-> NoEntries]
           Op(p, line) == ParseLine(p, line)
           step == [p \in S \X E |-> Op(p[1], p[2])]
           f[n \in 0 .. N] == IF n = 0 THEN base ELSE Op(f[n - 1], g[n])
<1>1. ParseFromFile(g) = f[N].conf
  BY DEF ParseFromFile, Iterate
<1>2. base \in S
  BY NoEntriesConf DEF Parser
<1>3. ASSUME NEW p \in S, NEW line \in E PROVE Op(p, line) \in S
  <2>1. CASE IsSection(line)
    <3>1. LevelNamed(line) \in Where \cup {"UNKNOWN"}
      BY DEF LevelNamed, Where
    <3> QED
      BY <2>1, <3>1 DEF ParseLine, TypeKnown, Parser
  <2>2. CASE ~ IsSection(line) /\ (p.level = "UNKNOWN" \/ line.type \notin Type)
    BY <2>2 DEF ParseLine, TypeKnown
  <2>3. CASE ~ IsSection(line) /\ p.level # "UNKNOWN" /\ line.type \in Type
    <3>1. p.level \in Where
      BY <2>3 DEF Parser
    <3>2. line.value \in ValueOf(line.type)
      <4>1. PICK n \in 1 .. N : line = g[n]
        OBVIOUS
      <4>2. n \in DOMAIN g
        BY <4>1, FilesAssumption
      <4> QED
        BY <2>3, <4>1, <4>2, FilesAssumption
    <3>3. line.value \in Value
      BY <2>3, <3>2 DEF ValueOf, Value
    <3>4. Put(p.conf, p.level, line.type, line.value) \in Conf
      BY <2>3, <3>1, <3>2, <3>3, PutConf DEF Parser
    <3> QED
      BY <2>3, <3>4 DEF ParseLine, TypeKnown, Parser
  <2> QED
    BY <2>1, <2>2, <2>3
<1>4. N \in Nat /\ \A n \in 1 .. N : g[n] \in E
  BY FilesAssumption
<1> HIDE DEF E
<1>5. step \in [S \X E -> S]
  BY <1>3
<1> HIDE DEF S, base, Op, N, f
<1>6. PICK at \in [0 .. N -> S] :
        at[0] = base /\ \A n \in 1 .. N : at[n] = Op(at[n - 1], g[n])
  <2>1. PICK at \in [0 .. N -> S] : Way(at, N, base, step, g)
    <3> HIDE DEF step
    <3> QED
      BY <1>2, <1>4, <1>5, WayExists
  <2>2. \A n \in 1 .. N : n - 1 \in 0 .. N /\ at[n - 1] \in S
    BY <1>4, <2>1
  <2> QED
    BY <1>4, <2>1, <2>2 DEF Way
<1>7. at = [n \in 0 .. N |-> IF n = 0 THEN base ELSE Op(at[n - 1], g[n])]
  BY <1>4, <1>6
<1>8. f = [n \in 0 .. N |-> IF n = 0 THEN base ELSE Op(f[n - 1], g[n])]
  BY <1>7 DEF f
<1>9. f[0] = base /\ \A n \in 1 .. N : f[n] = Op(f[n - 1], g[n])
  BY <1>4, <1>8
<1>10. \A n \in 0 .. N : f[n] \in S
  BY <1>2, <1>3, <1>4, <1>9, Along
<1> QED
  BY <1>1, <1>9, <1>10, Zenon DEF S, base, Op, N

\* What is read is a configuration.
LEMMA ParseConf ==
  ASSUME NEW g \in Files
  PROVE  ParseFromFile(g) \in Conf
<1>1. Len(g) \in 0 .. Len(g)
  BY FilesAssumption
<1> QED
  BY <1>1, ParseWay DEF Parser

\* What the process is configured with, and what it starts with.
LEMMA ConfiguredConf ==
  ASSUME NEW g \in Files
  PROVE  /\ SetFromBase(SetToDefault, Configurations(g)) \in Conf
         /\ Complete(SetFromBase(SetToDefault, Configurations(g)))
<1>1. Configurations(g) \in Conf
  BY ParseConf, SetRemainingConf DEF Configurations
<1> QED
  BY <1>1, SetToDefaultConf, SetFromBaseConf DEF Complete, Keeps

-----------------------------------------------------------------------------
(* The maps of a logger                                                    *)

Maps(D, V) == UNION {[A -> V] : A \in SUBSET D}
Rooted(map) == "GLOBAL" \in DOMAIN map

\* Maps from some of the levels to values.
LEMMA EmptyMap ==
  ASSUME NEW V, NEW D
  PROVE  <<>> \in Maps(D, V)
<1>1. <<>> \in [{} -> V] /\ {} \in SUBSET D
  OBVIOUS
<1> QED
  BY <1>1 DEF Maps

\* Setting a value in a map.
LEMMA WithFacts ==
  ASSUME NEW map, NEW k, NEW v
  PROVE  /\ DOMAIN With(map, k, v) = DOMAIN map \cup {k}
         /\ With(map, k, v)[k] = v
         /\ \A x \in DOMAIN map : x # k => With(map, k, v)[x] = map[x]
BY DEF With

\* It keeps the entry for GLOBAL.
LEMMA WithRooted ==
  ASSUME NEW map, NEW k, NEW v, Rooted(map) \/ k = "GLOBAL"
  PROVE  Rooted(With(map, k, v))
BY DEF With, Rooted

\* It keeps the map one from levels to values.
LEMMA WithTyped ==
  ASSUME NEW V, NEW D, NEW map \in Maps(D, V), NEW k \in D, NEW v \in V
  PROVE  With(map, k, v) \in Maps(D, V)
<1>1. PICK A \in SUBSET D : map \in [A -> V]
  BY DEF Maps
<1>2. With(map, k, v) \in [A \cup {k} -> V] /\ A \cup {k} \in SUBSET D
  BY <1>1 DEF With
<1> QED
  BY <1>2 DEF Maps

\* What is looked up is a value.
LEMMA GetTyped ==
  ASSUME NEW V, NEW map \in Maps(Where, V), Rooted(map), NEW l
  PROVE  Get(map, l) \in V
<1>1. PICK A \in SUBSET Where : map \in [A -> V]
  BY DEF Maps
<1> QED
  BY <1>1 DEF Get, Rooted

\* Setting the value of a level, or GLOBAL's if the map is empty.
LEMMA SetValueTyped ==
  ASSUME NEW V, NEW map \in Maps(Where, V), map = <<>> \/ Rooted(map), NEW l \in Where, NEW v \in V
  PROVE  SetValue(map, l, v) \in Maps(Where, V) /\ Rooted(SetValue(map, l, v))
<1>1. "GLOBAL" \in Where
  BY DEF Where
<1>2. CASE map = <<>>
  <2>1. SetValue(map, l, v) = With(map, "GLOBAL", v)
    BY <1>2 DEF SetValue
  <2>2. With(map, "GLOBAL", v) \in Maps(Where, V)
    BY <1>1, WithTyped, Zenon
  <2> QED
    BY <2>1, <2>2, WithRooted, Zenon
<1>3. CASE map # <<>>
  <2>1. SetValue(map, l, v) = map \/ SetValue(map, l, v) = With(map, l, v)
    BY <1>3 DEF SetValue
  <2>2. With(map, l, v) \in Maps(Where, V)
    BY WithTyped, Zenon
  <2> QED
    BY <1>3, <2>1, <2>2, WithRooted, Zenon
<1> QED
  BY <1>2, <1>3

\* What is there at some position and is kept at each step is there in the end.
LEMMA AlongFrom ==
  ASSUME NEW N \in Nat, NEW S, NEW f, NEW a \in 0 .. N, f[a] \in S,
         \A n \in a + 1 .. N : f[n - 1] \in S => f[n] \in S
  PROVE  f[N] \in S
<1> DEFINE T == {n \in 0 .. N : n < a \/ f[n] \in S}
<1>1. 0 \in T
  OBVIOUS
<1>2. ASSUME NEW n \in 1 .. N, n - 1 \in T PROVE n \in T
  BY <1>2
<1> HIDE DEF T
<1>3. 0 .. N \subseteq T
  BY <1>1, <1>2, Climb
<1> QED
  BY <1>3 DEF T

\* The map of a setting is made by going along the entries.
LEMMA MapWay ==
  ASSUME NEW c \in Conf, NEW type \in Type
  PROVE  \E f : /\ f[0] = <<>>
                /\ \A n \in 1 .. Len(c.keys) :
                     f[n] = IF c.keys[n][2] = type
                            THEN SetValue(f[n - 1], c.keys[n][1], c.of[c.keys[n]]) ELSE f[n - 1]
                /\ \A n \in 0 .. Len(c.keys) : /\ f[n] \in Maps(Where, ValueOf(type))
                                               /\ f[n] = <<>> \/ Rooted(f[n])
                /\ MapOf(c, type) = f[Len(c.keys)]
<1> DEFINE N == Len(c.keys)
           V == ValueOf(type)
           S == {map \in Maps(Where, V) : map = <<>> \/ Rooted(map)}
           E == {c.keys[n] : n \in 1 .. N}
           base == <<>>
           Op(map, key) == IF key[2] = type THEN SetValue(map, key[1], c.of[key]) ELSE map
           step == [p \in S \X E |-> Op(p[1], p[2])]
           f[n \in 0 .. N] == IF n = 0 THEN base ELSE Op(f[n - 1], c.keys[n])
<1>1. MapOf(c, type) = f[N]
  BY DEF MapOf, Iterate
<1>2. base \in S
  BY EmptyMap
<1>3. ASSUME NEW map \in S, NEW key \in E PROVE Op(map, key) \in S
  <2>1. CASE key[2] = type
    <3>1. key[1] \in Where /\ c.of[key] \in V
      BY <2>1, Entries
    <3>2. /\ SetValue(map, key[1], c.of[key]) \in Maps(Where, V)
          /\ Rooted(SetValue(map, key[1], c.of[key]))
      BY <3>1, SetValueTyped
    <3> QED
      BY <2>1, <3>2
  <2>2. CASE key[2] # type
    BY <2>2
  <2> QED
    BY <2>1, <2>2
<1>4. N \in Nat /\ \A n \in 1 .. N : c.keys[n] \in E
  BY Entries
<1> HIDE DEF E
<1>5. step \in [S \X E -> S]
  BY <1>3
<1> HIDE DEF S, base, Op, N, f
<1>6. PICK at \in [0 .. N -> S] :
        at[0] = base /\ \A n \in 1 .. N : at[n] = Op(at[n - 1], c.keys[n])
  <2>1. PICK at \in [0 .. N -> S] : Way(at, N, base, step, c.keys)
    <3> HIDE DEF step
    <3> QED
      BY <1>2, <1>4, <1>5, WayExists
  <2>2. \A n \in 1 .. N : n - 1 \in 0 .. N /\ at[n - 1] \in S
    BY <1>4, <2>1
  <2> QED
    BY <1>4, <2>1, <2>2 DEF Way
<1>7. at = [n \in 0 .. N |-> IF n = 0 THEN base ELSE Op(at[n - 1], c.keys[n])]
  BY <1>4, <1>6
<1>8. f = [n \in 0 .. N |-> IF n = 0 THEN base ELSE Op(f[n - 1], c.keys[n])]
  BY <1>7 DEF f
<1>9. f[0] = base /\ \A n \in 1 .. N : f[n] = Op(f[n - 1], c.keys[n])
  BY <1>4, <1>8
<1>10. \A n \in 0 .. N : f[n] \in S
  BY <1>2, <1>3, <1>4, <1>9, Along
<1>11. \A n \in 0 .. N : f[n] \in Maps(Where, V) /\ (f[n] = <<>> \/ Rooted(f[n]))
  BY <1>10 DEF S
<1> QED
  BY <1>1, <1>9, <1>11, Zenon DEF base, Op, N, V

\* The map of a setting has its value for GLOBAL.
LEMMA MapOfTyped ==
  ASSUME NEW c \in Conf, Complete(c), NEW type \in Type
  PROVE  MapOf(c, type) \in Maps(Where, ValueOf(type)) /\ Rooted(MapOf(c, type))
<1> DEFINE N == Len(c.keys)
           V == ValueOf(type)
           Ok(map) == map \in Maps(Where, V) /\ (map = <<>> \/ Rooted(map))
<1>1. PICK f : /\ \A n \in 1 .. N :
                    f[n] = IF c.keys[n][2] = type
                           THEN SetValue(f[n - 1], c.keys[n][1], c.of[c.keys[n]]) ELSE f[n - 1]
               /\ \A n \in 0 .. N : Ok(f[n])
               /\ MapOf(c, type) = f[N]
  BY MapWay
<1>2. N \in Nat
  BY Entries
<1>3. ASSUME NEW n \in 1 .. N, c.keys[n][2] = type \/ Rooted(f[n - 1])
      PROVE  Rooted(f[n])
  <2>1. n - 1 \in 0 .. N /\ Ok(f[n - 1])
    BY <1>1, <1>2
  <2>2. CASE c.keys[n][2] = type
    <3>1. c.keys[n][1] \in Where /\ c.of[c.keys[n]] \in V
      BY <2>2, Entries
    <3>2. Rooted(SetValue(f[n - 1], c.keys[n][1], c.of[c.keys[n]]))
      BY <2>1, <3>1, SetValueTyped
    <3> QED
      BY <1>1, <2>2, <3>2
  <2>3. CASE c.keys[n][2] # type
    BY <1>1, <1>3, <2>3
  <2> QED
    BY <2>2, <2>3
<1>4. PICK a \in 1 .. N : c.keys[a] = <<"GLOBAL", type>>
  <2>1. <<"GLOBAL", type>> \in DOMAIN c.of
    BY DEF Complete
  <2> QED
    BY <2>1, Entries
<1> DEFINE R == {map \in Maps(Where, V) : Rooted(map)}
<1>5. a \in 0 .. N /\ c.keys[a][2] = type /\ Ok(f[a]) /\ Ok(f[N])
  BY <1>1, <1>2, <1>4
<1>6. f[a] \in R
  BY <1>3, <1>4, <1>5
<1>7. ASSUME NEW n \in a + 1 .. N, f[n - 1] \in R PROVE f[n] \in R
  <2>1. n \in 1 .. N /\ n \in 0 .. N /\ Ok(f[n])
    BY <1>1, <1>2, <1>5
  <2> QED
    BY <1>3, <1>7, <2>1
<1> HIDE DEF N, R
<1>8. f[N] \in R
  BY <1>2, <1>5, <1>6, <1>7, AlongFrom
<1> QED
  BY <1>1, <1>8 DEF R

-----------------------------------------------------------------------------
(* Loggers                                                                 *)

LogLine == Level \X Nat
FileStream == [file : FileNames, buffer : Seq(LogLine), failed : BOOLEAN]
Disk == [FileNames -> Seq(LogLine)]
Logger ==
  [streams : Seq(FileStream), reference : Maps(FileNames, Nat), fileStream : Maps(Where, Nat),
   enabled : Maps(Where, BOOLEAN), toFile : Maps(Where, BOOLEAN),
   maxLogFileSize : Maps(Where, Nat), logFlushThreshold : Maps(Where, Nat),
   unflushed : [Level -> Nat], disk : Disk, logged : Disk]

\* Every stream is the one that is known for its file, and levels have streams.
Joined(g) ==
  /\ \A name \in DOMAIN g.reference : g.reference[name] \in {NoStream} \cup 1 .. Len(g.streams)
  /\ \A id \in 1 .. Len(g.streams) : /\ g.streams[id].file \in DOMAIN g.reference
                                     /\ g.reference[g.streams[id].file] = id
  /\ \A l \in DOMAIN g.fileStream : g.fileStream[l] \in {NoStream} \cup 1 .. Len(g.streams)

\* Nothing that was logged is not in its file.
Fresh(g) == /\ g.disk = g.logged
            /\ \A id \in 1 .. Len(g.streams) : g.streams[id].buffer = <<>>

\* While the settings are read, and when they have been.
Building(g) ==
  /\ g \in Logger /\ Joined(g) /\ Fresh(g) /\ g.unflushed = InitUnflushedCount
  /\ Rooted(g.logFlushThreshold) /\ (g.fileStream = <<>> \/ Rooted(g.fileStream))
  /\ g.toFile = <<>> \/ Rooted(g.toFile)
Built(g) == Building(g) /\ Rooted(g.fileStream)

\* Inserting into a map, and opening a file for a level.
LEMMA InsertedTyped ==
  ASSUME NEW V, NEW D, NEW map \in Maps(D, V), NEW k \in D, NEW v \in V
  PROVE  Inserted(map, k, v) \in Maps(D, V)
BY WithTyped, Zenon DEF Inserted

\* Inserting keeps the entry for GLOBAL.
LEMMA InsertedRooted ==
  ASSUME NEW map, NEW k, NEW v, Rooted(map) \/ k = "GLOBAL"
  PROVE  Rooted(Inserted(map, k, v))
BY DEF Inserted, With, Rooted

\* What opening a file for a level changes: id is the stream it gets.
IdFor(g, name) == IF name \in DOMAIN g.reference THEN g.reference[name]
                  ELSE IF name \in BadFiles THEN NoStream ELSE Len(g.streams) + 1
LevelFor(g, l) == IF g.fileStream = <<>> THEN "GLOBAL" ELSE l
Opens(h, g, name, id, level) ==
  /\ h.streams \in Seq(FileStream) /\ id \in Nat /\ id \in {0} \cup 1 .. Len(h.streams)
  /\ 1 .. Len(g.streams) \subseteq 1 .. Len(h.streams)
  /\ \A i \in 1 .. Len(g.streams) : h.streams[i] = g.streams[i]
  /\ \A i \in 1 .. Len(h.streams) :
       \/ i \in 1 .. Len(g.streams)
       \/ id \notin {0} \cup 1 .. Len(g.streams) /\ i = id /\ h.streams[i] = Stream(name)
  /\ id \notin {0} \cup 1 .. Len(g.streams) =>
       id = Len(g.streams) + 1 /\ name \notin DOMAIN g.reference
  /\ h.reference = Inserted(g.reference, name, id)
  /\ DOMAIN h.reference = DOMAIN g.reference \cup {name}
  /\ \A x \in DOMAIN g.reference : h.reference[x] = g.reference[x]
  /\ h.reference[name] = id
  /\ h.fileStream = Inserted(g.fileStream, level, id)
  /\ DOMAIN h.fileStream = DOMAIN g.fileStream \cup {level}
  /\ \A x \in DOMAIN g.fileStream : h.fileStream[x] = g.fileStream[x]
  /\ level \notin DOMAIN g.fileStream => h.fileStream[level] = id
  /\ h.toFile = IF id = NoStream THEN SetValue(g.toFile, level, FALSE) ELSE g.toFile
  /\ h.enabled = g.enabled /\ h.maxLogFileSize = g.maxLogFileSize
  /\ h.logFlushThreshold = g.logFlushThreshold /\ h.unflushed = g.unflushed
  /\ h.disk = g.disk /\ h.logged = g.logged
  /\ h = [streams |-> h.streams, reference |-> h.reference, fileStream |-> h.fileStream,
          enabled |-> h.enabled, toFile |-> h.toFile,
          maxLogFileSize |-> h.maxLogFileSize,
          logFlushThreshold |-> h.logFlushThreshold, unflushed |-> h.unflushed,
          disk |-> h.disk, logged |-> h.logged]

\* What opening a file for a level does, field by field.
LEMMA InsertParts ==
  ASSUME NEW g \in Logger, Joined(g), NEW l \in Where, NEW name \in FileNames
  PROVE  Opens(InsertFile(g, l, name), g, name, IdFor(g, name), LevelFor(g, l))
<1> DEFINE h == InsertFile(g, l, name)
           id == IdFor(g, name)
           level == LevelFor(g, l)
<1>1. h = [g EXCEPT !.streams = IF id \in {NoStream} \cup DOMAIN g.streams THEN g.streams
                                ELSE Append(g.streams, Stream(name)),
                    !.reference = Inserted(g.reference, name, id),
                    !.fileStream = Inserted(g.fileStream, level, id),
                    !.toFile = IF id = NoStream THEN SetValue(g.toFile, level, FALSE)
                               ELSE g.toFile]
  BY DEF InsertFile, Shared, IdFor, LevelFor
<1>2. /\ name \in DOMAIN g.reference => id = g.reference[name]
      /\ name \notin DOMAIN g.reference => id = NoStream \/ id = Len(g.streams) + 1
      /\ g.fileStream = <<>> => level = "GLOBAL"
      /\ level \in {l, "GLOBAL"}
  BY DEF IdFor, LevelFor
<1> HIDE DEF h, id, level
<1>3. /\ h.streams = IF id \in {NoStream} \cup DOMAIN g.streams THEN g.streams
                     ELSE Append(g.streams, Stream(name))
      /\ h.reference = Inserted(g.reference, name, id)
      /\ h.fileStream = Inserted(g.fileStream, level, id)
      /\ h.toFile = IF id = NoStream THEN SetValue(g.toFile, level, FALSE) ELSE g.toFile
      /\ h.enabled = g.enabled /\ h.maxLogFileSize = g.maxLogFileSize
      /\ h.logFlushThreshold = g.logFlushThreshold /\ h.unflushed = g.unflushed
      /\ h.disk = g.disk /\ h.logged = g.logged
      /\ h = [streams |-> h.streams, reference |-> h.reference, fileStream |-> h.fileStream,
              enabled |-> h.enabled, toFile |-> h.toFile, maxLogFileSize |-> h.maxLogFileSize,
              logFlushThreshold |-> h.logFlushThreshold, unflushed |-> h.unflushed,
              disk |-> h.disk, logged |-> h.logged]
  BY <1>1 DEF Logger
<1>4. /\ g.streams \in Seq(FileStream) /\ g.reference \in Maps(FileNames, Nat)
      /\ g.fileStream \in Maps(Where, Nat) /\ g.enabled \in Maps(Where, BOOLEAN)
      /\ g.toFile \in Maps(Where, BOOLEAN) /\ g.maxLogFileSize \in Maps(Where, Nat)
      /\ g.logFlushThreshold \in Maps(Where, Nat) /\ g.unflushed \in [Level -> Nat]
      /\ g.disk \in Disk /\ g.logged \in Disk
  BY DEF Logger
<1>5. /\ Len(g.streams) \in Nat /\ DOMAIN g.streams = 1 .. Len(g.streams)
      /\ NoStream = 0 /\ level \in Where
  BY <1>2, <1>4 DEF NoStream, Where
<1>6. Stream(name) \in FileStream /\ Stream(name).file = name /\ Stream(name).buffer = <<>>
  BY DEF Stream, FileStream
<1> DEFINE Old == id \in {0} \cup 1 .. Len(g.streams)
<1>7. /\ name \in DOMAIN g.reference => Old
      /\ ~ Old => id = Len(g.streams) + 1 /\ name \notin DOMAIN g.reference
      /\ id \in Nat
  BY <1>2, <1>5 DEF Joined
<1>8. /\ Old => h.streams = g.streams
      /\ ~ Old => h.streams = Append(g.streams, Stream(name))
  BY <1>3, <1>5
<1>9. /\ h.streams \in Seq(FileStream)
      /\ id \in {0} \cup 1 .. Len(h.streams)
      /\ 1 .. Len(g.streams) \subseteq 1 .. Len(h.streams)
      /\ \A i \in 1 .. Len(g.streams) : h.streams[i] = g.streams[i]
      /\ \A i \in 1 .. Len(h.streams) :
           i \in 1 .. Len(g.streams) \/ (~ Old /\ i = id /\ h.streams[i] = Stream(name))
  <2>1. CASE Old
    BY <1>4, <1>5, <1>8, <2>1
  <2>2. CASE ~ Old
    <3>1. h.streams = Append(g.streams, Stream(name)) /\ id = Len(g.streams) + 1
      BY <1>7, <1>8, <2>2
    <3> HIDE DEF Old
    <3> QED
      BY <1>4, <1>5, <1>6, <2>2, <3>1
  <2> QED
    BY <2>1, <2>2
<1>10. ASSUME NEW i \in 1 .. Len(h.streams), i \notin 1 .. Len(g.streams)
       PROVE  id \notin {0} \cup 1 .. Len(g.streams) /\ i = id /\ h.streams[i] = Stream(name)
  <2>1. ~ Old /\ i = id /\ h.streams[i] = Stream(name)
    BY <1>9, <1>10
  <2> QED
    BY <2>1
<1>11. id \notin {0} \cup 1 .. Len(g.streams) =>
         id = Len(g.streams) + 1 /\ name \notin DOMAIN g.reference
  BY <1>7
<1> HIDE DEF Old
<1>12. /\ DOMAIN h.reference = DOMAIN g.reference \cup {name}
       /\ \A x \in DOMAIN g.reference : h.reference[x] = g.reference[x]
       /\ name \notin DOMAIN g.reference => h.reference[name] = id
  BY <1>3 DEF Inserted, With
<1>13. /\ DOMAIN h.fileStream = DOMAIN g.fileStream \cup {level}
       /\ \A x \in DOMAIN g.fileStream : h.fileStream[x] = g.fileStream[x]
       /\ level \notin DOMAIN g.fileStream => h.fileStream[level] = id
  BY <1>3 DEF Inserted, With
<1>14. h.reference[name] = id
  BY <1>2, <1>12
<1>15. Opens(h, g, name, id, level)
  <2>1. id \in Nat
    BY <1>7
  <2> QED
    BY <1>3, <1>9, <1>10, <1>11, <1>12, <1>13, <1>14, <2>1, Zenon DEF Opens
<1> QED
  BY <1>15 DEF h, id, level

\* A logger that is built stays one when a file is opened.
LEMMA InsertBuilds ==
  ASSUME NEW g, Building(g), NEW l \in Where, NEW name \in FileNames
  PROVE  Built(InsertFile(g, l, name))
<1> DEFINE h == InsertFile(g, l, name)
           id == IdFor(g, name)
           level == LevelFor(g, l)
           Old == id \in {0} \cup 1 .. Len(g.streams)
<1>1. /\ g \in Logger /\ Joined(g) /\ Fresh(g) /\ g.unflushed = InitUnflushedCount
      /\ Rooted(g.logFlushThreshold) /\ (g.fileStream = <<>> \/ Rooted(g.fileStream))
      /\ g.toFile = <<>> \/ Rooted(g.toFile)
  BY DEF Building
<1>2. /\ h.streams \in Seq(FileStream) /\ id \in Nat /\ id \in {0} \cup 1 .. Len(h.streams)
      /\ 1 .. Len(g.streams) \subseteq 1 .. Len(h.streams)
      /\ \A i \in 1 .. Len(g.streams) : h.streams[i] = g.streams[i]
      /\ \A i \in 1 .. Len(h.streams) :
           i \in 1 .. Len(g.streams) \/ (~ Old /\ i = id /\ h.streams[i] = Stream(name))
      /\ ~ Old => id = Len(g.streams) + 1 /\ name \notin DOMAIN g.reference
      /\ h.reference = Inserted(g.reference, name, id)
      /\ DOMAIN h.reference = DOMAIN g.reference \cup {name}
      /\ \A x \in DOMAIN g.reference : h.reference[x] = g.reference[x]
      /\ h.reference[name] = id
      /\ h.fileStream = Inserted(g.fileStream, level, id)
      /\ DOMAIN h.fileStream = DOMAIN g.fileStream \cup {level}
      /\ \A x \in DOMAIN g.fileStream : h.fileStream[x] = g.fileStream[x]
      /\ level \notin DOMAIN g.fileStream => h.fileStream[level] = id
      /\ h.toFile = IF id = NoStream THEN SetValue(g.toFile, level, FALSE) ELSE g.toFile
      /\ h.enabled = g.enabled /\ h.maxLogFileSize = g.maxLogFileSize
      /\ h.logFlushThreshold = g.logFlushThreshold /\ h.unflushed = g.unflushed
      /\ h.disk = g.disk /\ h.logged = g.logged
      /\ h = [streams |-> h.streams, reference |-> h.reference, fileStream |-> h.fileStream,
              enabled |-> h.enabled, toFile |-> h.toFile,
              maxLogFileSize |-> h.maxLogFileSize,
              logFlushThreshold |-> h.logFlushThreshold, unflushed |-> h.unflushed,
              disk |-> h.disk, logged |-> h.logged]
  <2>1. Opens(h, g, name, id, level)
    BY <1>1, InsertParts
  <2> QED
    BY <2>1, Zenon DEF Opens
<1>3. /\ g.fileStream = <<>> => level = "GLOBAL"
      /\ level \in {l, "GLOBAL"}
  BY DEF IdFor, LevelFor
<1> HIDE DEF h, id, level, Old
<1>4. /\ g.streams \in Seq(FileStream) /\ g.reference \in Maps(FileNames, Nat)
      /\ g.fileStream \in Maps(Where, Nat) /\ g.enabled \in Maps(Where, BOOLEAN)
      /\ g.toFile \in Maps(Where, BOOLEAN) /\ g.maxLogFileSize \in Maps(Where, Nat)
      /\ g.logFlushThreshold \in Maps(Where, Nat) /\ g.unflushed \in [Level -> Nat]
      /\ g.disk \in Disk /\ g.logged \in Disk
  BY <1>1 DEF Logger
<1>5. /\ Len(g.streams) \in Nat /\ DOMAIN g.streams = 1 .. Len(g.streams)
      /\ NoStream = 0 /\ level \in Where
  BY <1>3, <1>4 DEF NoStream, Where
<1>6. Stream(name) \in FileStream /\ Stream(name).file = name /\ Stream(name).buffer = <<>>
  BY DEF Stream, FileStream
<1>7. Joined(h)
  <2>1. ASSUME NEW x \in DOMAIN h.reference
        PROVE  h.reference[x] \in {NoStream} \cup 1 .. Len(h.streams)
    <3>1. CASE x \in DOMAIN g.reference
      BY <1>1, <1>5, <1>2, <3>1 DEF Joined
    <3>2. CASE x \notin DOMAIN g.reference
      <4>1. x = name /\ h.reference[x] = id
        BY <1>2, <3>2
      <4> QED
        BY <1>5, <1>2, <4>1
    <3> QED
      BY <3>1, <3>2
  <2>2. ASSUME NEW i \in 1 .. Len(h.streams)
        PROVE  /\ h.streams[i].file \in DOMAIN h.reference
               /\ h.reference[h.streams[i].file] = i
    <3>1. CASE i \in 1 .. Len(g.streams)
      <4>1. /\ h.streams[i] = g.streams[i] /\ g.streams[i].file \in DOMAIN g.reference
            /\ g.reference[g.streams[i].file] = i
        BY <1>1, <1>2, <3>1 DEF Joined
      <4> QED
        BY <1>2, <4>1
    <3>2. CASE i \notin 1 .. Len(g.streams)
      <4>1. ~ Old /\ i = id /\ h.streams[i] = Stream(name) /\ name \notin DOMAIN g.reference
        BY <1>2, <3>2
      <4> QED
        BY <1>6, <1>2, <4>1
    <3> QED
      BY <3>1, <3>2
  <2>3. ASSUME NEW x \in DOMAIN h.fileStream
        PROVE  h.fileStream[x] \in {NoStream} \cup 1 .. Len(h.streams)
    <3>1. CASE x \in DOMAIN g.fileStream
      BY <1>1, <1>5, <1>2, <3>1 DEF Joined
    <3>2. CASE x \notin DOMAIN g.fileStream
      <4>1. x = level /\ h.fileStream[x] = id
        BY <1>2, <3>2
      <4> QED
        BY <1>5, <1>2, <4>1
    <3> QED
      BY <3>1, <3>2
  <2> QED
    BY <2>1, <2>2, <2>3 DEF Joined
<1>8. Fresh(h)
  <2>1. ASSUME NEW i \in 1 .. Len(h.streams) PROVE h.streams[i].buffer = <<>>
    BY <1>1, <1>6, <1>2 DEF Fresh
  <2> QED
    BY <1>1, <1>2, <2>1 DEF Fresh
<1>9. Rooted(h.fileStream)
  <2>1. Rooted(g.fileStream) \/ level = "GLOBAL"
    BY <1>1, <1>3
  <2>2. Rooted(Inserted(g.fileStream, level, id))
    BY <2>1, InsertedRooted
  <2>3. h.fileStream = Inserted(g.fileStream, level, id)
    BY <1>2
  <2> QED
    BY <2>2, <2>3
<1>10. h.toFile \in Maps(Where, BOOLEAN) /\ (h.toFile = <<>> \/ Rooted(h.toFile))
  <2>1. FALSE \in BOOLEAN
    OBVIOUS
  <2>2. /\ SetValue(g.toFile, level, FALSE) \in Maps(Where, BOOLEAN)
        /\ Rooted(SetValue(g.toFile, level, FALSE))
    BY <1>1, <1>4, <1>5, <2>1, SetValueTyped, Zenon
  <2> QED
    BY <1>1, <1>2, <1>4, <2>2, Zenon
<1>11. h.reference \in Maps(FileNames, Nat) /\ h.fileStream \in Maps(Where, Nat)
  <2>1. id \in Nat
    BY <1>2
  <2>2. Inserted(g.reference, name, id) \in Maps(FileNames, Nat)
    BY <1>4, <2>1, InsertedTyped, Zenon
  <2>3. Inserted(g.fileStream, level, id) \in Maps(Where, Nat)
    <3>1. g.fileStream \in Maps(Where, Nat) /\ level \in Where
      BY <1>4, <1>5
    <3> QED
      BY <2>1, <3>1, InsertedTyped, Zenon
  <2> QED
    BY <1>2, <2>2, <2>3, Zenon
<1>12. h \in Logger
  BY <1>2, <1>4, <1>10, <1>11 DEF Logger
<1> QED
  BY <1>1, <1>2, <1>7, <1>8, <1>9, <1>10, <1>12, Zenon DEF Built, Building, h

\* The stream of a level is one of the streams, or none.
LEMMA StreamOfLevel ==
  ASSUME NEW g, Joined(g), Rooted(g.fileStream), NEW l
  PROVE  Get(g.fileStream, l) \in {NoStream} \cup 1 .. Len(g.streams)
BY DEF Joined, Rooted, Get

\* Emptying a file that has grown to its limit.
LEMMA ValidateBuilds ==
  ASSUME NEW g, Built(g), NEW l \in Where
  PROVE  Built(ValidateFileRolling(g, l))
<1> DEFINE h == ValidateFileRolling(g, l)
           id == Get(g.fileStream, l)
           name == g.streams[id].file
<1>1. /\ g \in Logger /\ Joined(g) /\ Fresh(g) /\ g.unflushed = InitUnflushedCount
      /\ Rooted(g.logFlushThreshold) /\ Rooted(g.fileStream)
      /\ g.toFile = <<>> \/ Rooted(g.toFile)
  BY DEF Building, Built
<1>2. id \in {NoStream} \cup 1 .. Len(g.streams)
  BY <1>1, StreamOfLevel
<1>3. h = g \/ (id # NoStream /\ h = [g EXCEPT !.disk[name] = <<>>, !.logged[name] = <<>>])
  BY DEF ValidateFileRolling
<1>4. CASE h = g
  BY <1>4
<1>5. CASE id # NoStream /\ h = [g EXCEPT !.disk[name] = <<>>, !.logged[name] = <<>>]
  <2> HIDE DEF h, id
  <2>1. g.streams \in Seq(FileStream) /\ g.disk \in Disk /\ g.logged \in Disk
    BY <1>1 DEF Logger
  <2>2. name \in FileNames
    <3>1. id \in 1 .. Len(g.streams)
      BY <1>2, <1>5
    <3>2. g.streams[id] \in FileStream
      BY <2>1, <3>1
    <3> QED
      BY <3>2 DEF FileStream
  <2> HIDE DEF name
  <2>3. /\ h.disk = [g.disk EXCEPT ![name] = <<>>] /\ h.logged = [g.logged EXCEPT ![name] = <<>>]
        /\ h.streams = g.streams /\ h.reference = g.reference /\ h.fileStream = g.fileStream
        /\ h.toFile = g.toFile /\ h.logFlushThreshold = g.logFlushThreshold
        /\ h.unflushed = g.unflushed
    BY <1>1, <1>5 DEF Logger
  <2>4. h.disk \in Disk /\ h.logged \in Disk
    <3>1. <<>> \in Seq(LogLine)
      OBVIOUS
    <3> QED
      BY <2>1, <2>3, <3>1 DEF Disk
  <2>5. h \in Logger
    <3>1. h = [g EXCEPT !.disk = h.disk, !.logged = h.logged]
      BY <1>1, <1>5, <2>3 DEF Logger
    <3> QED
      BY <1>1, <2>4, <3>1 DEF Logger
  <2>6. Joined(h) /\ Fresh(h)
    BY <1>1, <2>3 DEF Joined, Fresh
  <2> QED
    BY <1>1, <2>3, <2>5, <2>6, Zenon DEF Built, Building, h
<1> QED
  BY <1>3, <1>4, <1>5

\* The three parts of Build: the maps of a configuration, its files, its limits.
MapsOf(g, c) == [g EXCEPT !.enabled = MapOf(c, "ENABLED"),
                          !.toFile = MapOf(c, "TO_FILE"),
                          !.maxLogFileSize = MapOf(c, "MAX_LOG_FILE_SIZE"),
                          !.logFlushThreshold = MapOf(c, "LOG_FLUSH_THRESHOLD"),
                          !.fileStream = <<>>]
InsertKey(h, c, key) == IF key[2] = "FILENAME" THEN InsertFile(h, key[1], c.of[key]) ELSE h
ValidateKey(h, key) ==
  IF key[2] = "MAX_LOG_FILE_SIZE" THEN ValidateFileRolling(h, key[1]) ELSE h
FilesOf(g, c) == LET Insert(h, key) == InsertKey(h, c, key)
                 IN  Iterate(Insert, MapsOf(g, c), c.keys)

\* Building a logger is making its maps, opening its files and emptying some.
LEMMA BuildParts ==
  ASSUME NEW g, NEW c
  PROVE  Build(g, c) = Iterate(ValidateKey, FilesOf(g, c), c.keys)
BY DEF Build, FilesOf, MapsOf, InsertKey, ValidateKey

\* With its maps it is a logger that has no streams for its levels yet.
LEMMA MapsBuild ==
  ASSUME NEW g, g \in Logger, Joined(g), Fresh(g), g.unflushed = InitUnflushedCount,
         NEW c \in Conf, Complete(c)
  PROVE  /\ Building(MapsOf(g, c))
         /\ MapsOf(g, c).enabled = MapOf(c, "ENABLED") /\ MapsOf(g, c).toFile = MapOf(c, "TO_FILE")
         /\ MapsOf(g, c).maxLogFileSize = MapOf(c, "MAX_LOG_FILE_SIZE")
         /\ MapsOf(g, c).logFlushThreshold = MapOf(c, "LOG_FLUSH_THRESHOLD")
         /\ MapsOf(g, c).fileStream = <<>> /\ MapsOf(g, c).streams = g.streams
         /\ MapsOf(g, c).reference = g.reference
         /\ Rooted(MapsOf(g, c).toFile)
<1> DEFINE maps == MapsOf(g, c)
<1>1. /\ ValueOf("ENABLED") = BOOLEAN /\ ValueOf("TO_FILE") = BOOLEAN
      /\ ValueOf("MAX_LOG_FILE_SIZE") = Nat /\ ValueOf("LOG_FLUSH_THRESHOLD") = Nat
      /\ {"ENABLED", "TO_FILE", "MAX_LOG_FILE_SIZE", "LOG_FLUSH_THRESHOLD"} \subseteq Type
  BY DefaultsTyped DEF ValueOf
<1>2. /\ MapOf(c, "ENABLED") \in Maps(Where, BOOLEAN)
      /\ MapOf(c, "TO_FILE") \in Maps(Where, BOOLEAN)
      /\ MapOf(c, "MAX_LOG_FILE_SIZE") \in Maps(Where, Nat)
      /\ MapOf(c, "LOG_FLUSH_THRESHOLD") \in Maps(Where, Nat)
      /\ Rooted(MapOf(c, "LOG_FLUSH_THRESHOLD")) /\ Rooted(MapOf(c, "TO_FILE"))
  BY <1>1, MapOfTyped
<1>3. <<>> \in Maps(Where, Nat)
  BY EmptyMap
<1>4. /\ maps.enabled = MapOf(c, "ENABLED") /\ maps.toFile = MapOf(c, "TO_FILE")
      /\ maps.maxLogFileSize = MapOf(c, "MAX_LOG_FILE_SIZE")
      /\ maps.logFlushThreshold = MapOf(c, "LOG_FLUSH_THRESHOLD") /\ maps.fileStream = <<>>
      /\ maps.streams = g.streams /\ maps.reference = g.reference /\ maps.disk = g.disk
      /\ maps.logged = g.logged /\ maps.unflushed = g.unflushed
  BY DEF Logger, MapsOf
<1>5. maps \in Logger
  BY <1>2, <1>3 DEF Logger, MapsOf
<1> HIDE DEF maps
<1>6. Joined(maps) /\ Fresh(maps)
  BY <1>4 DEF Joined, Fresh
<1>7. Building(maps)
  BY <1>2, <1>4, <1>5, <1>6, Zenon DEF Building
<1> QED
  BY <1>2, <1>4, <1>7 DEF maps

\* The files are opened one after the other.
LEMMA InsertWay ==
  ASSUME NEW g, NEW c \in Conf, Building(MapsOf(g, c))
  PROVE  \E f : /\ f[0] = MapsOf(g, c)
                /\ \A n \in 1 .. Len(c.keys) : f[n] = InsertKey(f[n - 1], c, c.keys[n])
                /\ \A n \in 0 .. Len(c.keys) : Building(f[n])
                /\ FilesOf(g, c) = f[Len(c.keys)]
<1> DEFINE base == MapsOf(g, c)
           N == Len(c.keys)
           S == {h \in Logger : Building(h)}
           E == {c.keys[n] : n \in 1 .. N}
           Op(h, key) == InsertKey(h, c, key)
           step == [p \in S \X E |-> Op(p[1], p[2])]
           f[n \in 0 .. N] == IF n = 0 THEN base ELSE Op(f[n - 1], c.keys[n])
<1>1. FilesOf(g, c) = f[N]
  BY DEF FilesOf, Iterate
<1>2. base \in S
  BY DEF Building
<1>3. ASSUME NEW h \in S, NEW key \in E PROVE Op(h, key) \in S
  <2>1. CASE key[2] = "FILENAME"
    <3>1. key[1] \in Where /\ c.of[key] \in FileNames
      BY <2>1, Entries DEF ValueOf
    <3>2. Built(InsertFile(h, key[1], c.of[key]))
      BY <3>1, InsertBuilds
    <3> QED
      BY <2>1, <3>2 DEF Built, Building, InsertKey
  <2>2. CASE key[2] # "FILENAME"
    BY <2>2 DEF InsertKey
  <2> QED
    BY <2>1, <2>2
<1>4. N \in Nat /\ \A n \in 1 .. N : c.keys[n] \in E
  BY Entries
<1> HIDE DEF E
<1>5. step \in [S \X E -> S]
  BY <1>3
<1> HIDE DEF S, base, Op, N, f
<1>6. PICK at \in [0 .. N -> S] :
        at[0] = base /\ \A n \in 1 .. N : at[n] = Op(at[n - 1], c.keys[n])
  <2>1. PICK at \in [0 .. N -> S] : Way(at, N, base, step, c.keys)
    <3> HIDE DEF step
    <3> QED
      BY <1>2, <1>4, <1>5, WayExists
  <2>2. \A n \in 1 .. N : n - 1 \in 0 .. N /\ at[n - 1] \in S
    BY <1>4, <2>1
  <2> QED
    BY <1>4, <2>1, <2>2 DEF Way
<1>7. at = [n \in 0 .. N |-> IF n = 0 THEN base ELSE Op(at[n - 1], c.keys[n])]
  BY <1>4, <1>6
<1>8. f = [n \in 0 .. N |-> IF n = 0 THEN base ELSE Op(f[n - 1], c.keys[n])]
  BY <1>7 DEF f
<1>9. f[0] = base /\ \A n \in 1 .. N : f[n] = Op(f[n - 1], c.keys[n])
  <2>1. 0 \in 0 .. N /\ \A n \in 1 .. N : n \in 0 .. N /\ n # 0
    BY <1>4
  <2> QED
    BY <1>8, <2>1, Zenon
<1>10. \A n \in 0 .. N : f[n] \in S
  BY <1>2, <1>3, <1>4, <1>9, Along
<1>11. \A n \in 0 .. N : Building(f[n])
  BY <1>10 DEF S
<1> QED
  BY <1>1, <1>9, <1>11, Zenon DEF base, Op, N

\* With its files it is a logger whose every level has a stream or none.
LEMMA FilesBuilt ==
  ASSUME NEW g, NEW c \in Conf, Building(MapsOf(g, c)), Complete(c)
  PROVE  Built(FilesOf(g, c))
<1> DEFINE N == Len(c.keys)
           R == {h \in Logger : Built(h)}
<1>1. PICK f : /\ \A n \in 1 .. N : f[n] = InsertKey(f[n - 1], c, c.keys[n])
               /\ \A n \in 0 .. N : Building(f[n])
               /\ FilesOf(g, c) = f[N]
  BY InsertWay
<1>2. N \in Nat
  BY Entries
<1>3. ASSUME NEW n \in 1 .. N, c.keys[n][2] = "FILENAME" PROVE Built(f[n])
  <2>1. n - 1 \in 0 .. N
    BY <1>2
  <2>2. c.keys[n][1] \in Where /\ c.of[c.keys[n]] \in FileNames
    BY <1>3, Entries DEF ValueOf
  <2> QED
    BY <1>1, <1>3, <2>1, <2>2, InsertBuilds DEF InsertKey
<1>4. PICK a \in 1 .. N : c.keys[a] = <<"GLOBAL", "FILENAME">>
  <2>1. <<"GLOBAL", "FILENAME">> \in DOMAIN c.of
    BY DefaultsTyped DEF Complete
  <2> QED
    BY <2>1, Entries
<1>5. a \in 0 .. N /\ c.keys[a][2] = "FILENAME"
  BY <1>2, <1>4
<1>6. \A n \in 0 .. N : Built(f[n]) => f[n] \in R
  BY <1>1 DEF Building
<1>7. f[a] \in R
  BY <1>3, <1>5, <1>6
<1>8. ASSUME NEW n \in a + 1 .. N, f[n - 1] \in R PROVE f[n] \in R
  <2>1. n \in 1 .. N /\ n \in 0 .. N /\ f[n] = InsertKey(f[n - 1], c, c.keys[n])
    BY <1>1, <1>2, <1>5
  <2>2. CASE c.keys[n][2] = "FILENAME"
    BY <1>3, <1>6, <2>1, <2>2
  <2>3. CASE c.keys[n][2] # "FILENAME"
    BY <1>8, <2>1, <2>3 DEF InsertKey
  <2> QED
    BY <2>2, <2>3
<1> HIDE DEF N, R
<1>9. f[N] \in R
  BY <1>2, <1>5, <1>7, <1>8, AlongFrom
<1> QED
  BY <1>1, <1>9 DEF R

\* The limits are looked at one after the other.
LEMMA ValidateWay ==
  ASSUME NEW g, NEW c \in Conf, Built(FilesOf(g, c))
  PROVE  \E f : /\ f[0] = FilesOf(g, c)
                /\ \A n \in 1 .. Len(c.keys) : f[n] = ValidateKey(f[n - 1], c.keys[n])
                /\ \A n \in 0 .. Len(c.keys) : Built(f[n])
                /\ Build(g, c) = f[Len(c.keys)]
<1> DEFINE base == FilesOf(g, c)
           N == Len(c.keys)
           S == {h \in Logger : Built(h)}
           E == {c.keys[n] : n \in 1 .. N}
           Op(h, key) == ValidateKey(h, key)
           step == [p \in S \X E |-> Op(p[1], p[2])]
           f[n \in 0 .. N] == IF n = 0 THEN base ELSE Op(f[n - 1], c.keys[n])
<1>1. Build(g, c) = f[N]
  BY BuildParts DEF Iterate
<1>2. base \in S
  BY DEF Built, Building
<1>3. ASSUME NEW h \in S, NEW key \in E PROVE Op(h, key) \in S
  <2>1. key[1] \in Where
    BY Entries
  <2>2. Built(ValidateFileRolling(h, key[1]))
    BY <2>1, ValidateBuilds
  <2> QED
    BY <2>2 DEF Built, Building, ValidateKey
<1>4. N \in Nat /\ \A n \in 1 .. N : c.keys[n] \in E
  BY Entries
<1> HIDE DEF E
<1>5. step \in [S \X E -> S]
  BY <1>3
<1> HIDE DEF S, base, Op, N, f
<1>6. PICK at \in [0 .. N -> S] :
        at[0] = base /\ \A n \in 1 .. N : at[n] = Op(at[n - 1], c.keys[n])
  <2>1. PICK at \in [0 .. N -> S] : Way(at, N, base, step, c.keys)
    <3> HIDE DEF step
    <3> QED
      BY <1>2, <1>4, <1>5, WayExists
  <2>2. \A n \in 1 .. N : n - 1 \in 0 .. N /\ at[n - 1] \in S
    BY <1>4, <2>1
  <2> QED
    BY <1>4, <2>1, <2>2 DEF Way
<1>7. at = [n \in 0 .. N |-> IF n = 0 THEN base ELSE Op(at[n - 1], c.keys[n])]
  BY <1>4, <1>6
<1>8. f = [n \in 0 .. N |-> IF n = 0 THEN base ELSE Op(f[n - 1], c.keys[n])]
  BY <1>7 DEF f
<1>9. f[0] = base /\ \A n \in 1 .. N : f[n] = Op(f[n - 1], c.keys[n])
  <2>1. 0 \in 0 .. N /\ \A n \in 1 .. N : n \in 0 .. N /\ n # 0
    BY <1>4
  <2> QED
    BY <1>8, <2>1, Zenon
<1>10. \A n \in 0 .. N : f[n] \in S
  BY <1>2, <1>3, <1>4, <1>9, Along
<1>11. \A n \in 0 .. N : Built(f[n])
  BY <1>10 DEF S
<1> QED
  BY <1>1, <1>9, <1>11, Zenon DEF base, Op, N

\* So what is built is a logger.
LEMMA BuildBuilds ==
  ASSUME NEW g, g \in Logger, Joined(g), Fresh(g), g.unflushed = InitUnflushedCount,
         NEW c \in Conf, Complete(c)
  PROVE  Built(Build(g, c))
<1>1. Len(c.keys) \in 0 .. Len(c.keys)
  BY Entries
<1>2. Built(FilesOf(g, c))
  BY MapsBuild, FilesBuilt
<1> QED
  BY <1>1, <1>2, ValidateWay

\* The logger of a new process, and a logger that is given settings.
LEMMA NewLoggerBuilt ==
  ASSUME NEW disk \in Disk
  PROVE  Built(NewLogger(disk))
<1> DEFINE g == [streams |-> <<>>, reference |-> <<>>, fileStream |-> <<>>, enabled |-> <<>>,
                 toFile |-> <<>>, maxLogFileSize |-> <<>>, logFlushThreshold |-> <<>>,
                 unflushed |-> InitUnflushedCount, disk |-> disk, logged |-> disk]
<1>1. InitUnflushedCount \in [Level -> Nat] /\ <<>> \in Seq(FileStream)
  BY DEF InitUnflushedCount
<1>2. /\ <<>> \in Maps(FileNames, Nat) /\ <<>> \in Maps(Where, Nat)
      /\ <<>> \in Maps(Where, BOOLEAN)
  BY EmptyMap
<1>3. g \in Logger
  BY <1>1, <1>2 DEF Logger
<1>4. /\ g.streams = <<>> /\ g.reference = <<>> /\ g.fileStream = <<>> /\ g.disk = g.logged
      /\ g.unflushed = InitUnflushedCount
  OBVIOUS
<1>5. NewLogger(disk) = Build(g, SetToDefault)
  BY DEF NewLogger
<1> HIDE DEF g
<1>6. DOMAIN <<>> = {} /\ Len(<<>>) = 0 /\ 1 .. 0 = {}
  OBVIOUS
<1>7. Joined(g) /\ Fresh(g)
  BY <1>4, <1>6 DEF Joined, Fresh
<1> QED
  BY <1>3, <1>4, <1>5, <1>7, SetToDefaultConf, BuildBuilds

\* A logger that is given the settings of a file.
LEMMA ConfigureBuilt ==
  ASSUME NEW g, g \in Logger, Joined(g), Fresh(g), NEW h \in Files
  PROVE  Built(ConfigureLogger(g, h))
<1> DEFINE k == [g EXCEPT !.unflushed = InitUnflushedCount]
<1>1. InitUnflushedCount \in [Level -> Nat]
  BY DEF InitUnflushedCount
<1>2. k \in Logger
  BY <1>1 DEF Logger
<1>3. /\ k.unflushed = InitUnflushedCount /\ k.streams = g.streams /\ k.reference = g.reference
      /\ k.fileStream = g.fileStream /\ k.disk = g.disk /\ k.logged = g.logged
  BY DEF Logger
<1>4. ConfigureLogger(g, h) = Build(k, SetFromBase(SetToDefault, Configurations(h)))
  BY DEF ConfigureLogger
<1> HIDE DEF k
<1>5. Joined(k) /\ Fresh(k)
  BY <1>3 DEF Joined, Fresh
<1> QED
  BY <1>2, <1>3, <1>4, <1>5, ConfiguredConf, BuildBuilds

-----------------------------------------------------------------------------
(* The lines                                                               *)

\* What is in the file of a stream and then the rest is what was logged; the rest
\* is what the stream holds, unless it failed.
WholeStream(g, id) ==
  \E rest \in Seq(LogLine) :
    /\ g.disk[g.streams[id].file] \o rest = g.logged[g.streams[id].file]
    /\ g.streams[id].failed \/ rest = g.streams[id].buffer
WholeFile(g, name) == \/ \E id \in 1 .. Len(g.streams) : g.streams[id].file = name
                      \/ g.disk[name] = g.logged[name]
Whole(g) == /\ \A id \in 1 .. Len(g.streams) : WholeStream(g, id)
            /\ \A name \in FileNames : WholeFile(g, name)

\* How many lines at a level may be counted before they are flushed.
AtLeastOne(n) == IF n = 0 THEN 1 ELSE n
Threshold(g, l) == AtLeastOne(Get(g.logFlushThreshold, l))

\* The lines at a level that are missing from a file are in the file of that level,
\* and have been counted since it was flushed; when a stream fails as it is flushed
\* the count is gone, but not the lines.
CountedIn(g, l, name) ==
  \/ Missing(g, l, name) = {}
  \/ LET id == Get(g.fileStream, l)
     IN  /\ id # NoStream /\ g.streams[id].file = name
         /\ Cardinality(Missing(g, l, name)) <=
              IF g.streams[id].failed THEN Threshold(g, l) ELSE g.unflushed[l]
Counted(g, l) == /\ g.unflushed[l] < Threshold(g, l)
                 /\ \A name \in FileNames : CountedIn(g, l, name)

InvLog(g) ==
  /\ g \in Logger /\ Joined(g) /\ Rooted(g.fileStream) /\ Rooted(g.logFlushThreshold)
  /\ Whole(g) /\ \A l \in Level : Counted(g, l)

\* The type of each field of a logger.
LEMMA LoggerTyped ==
  ASSUME NEW g \in Logger
  PROVE  /\ g.streams \in Seq(FileStream) /\ g.fileStream \in Maps(Where, Nat)
         /\ g.logFlushThreshold \in Maps(Where, Nat) /\ g.unflushed \in [Level -> Nat]
         /\ g.disk \in [FileNames -> Seq(LogLine)] /\ g.logged \in [FileNames -> Seq(LogLine)]
         /\ Len(g.streams) \in Nat /\ DOMAIN g.streams = 1 .. Len(g.streams)
         /\ \A id \in 1 .. Len(g.streams) :
              /\ g.streams[id] \in FileStream /\ g.streams[id].file \in FileNames
              /\ g.streams[id].buffer \in Seq(LogLine) /\ g.streams[id].failed \in BOOLEAN
<1>1. g.streams \in Seq(FileStream)
  BY DEF Logger
<1>2. ASSUME NEW id \in 1 .. Len(g.streams)
      PROVE  /\ g.streams[id] \in FileStream /\ g.streams[id].file \in FileNames
             /\ g.streams[id].buffer \in Seq(LogLine) /\ g.streams[id].failed \in BOOLEAN
  <2>1. g.streams[id] \in FileStream
    BY <1>1
  <2> QED
    BY <2>1 DEF FileStream
<1> QED
  BY <1>1, <1>2 DEF Logger, Disk

\* How many lines are missing.
LEMMA MissingFinite ==
  ASSUME NEW g \in Logger, NEW l, NEW name \in FileNames
  PROVE  IsFiniteSet(Missing(g, l, name)) /\ Cardinality(Missing(g, l, name)) \in Nat
<1>1. Len(g.disk[name]) \in Nat /\ Len(g.logged[name]) \in Nat
  BY LoggerTyped
<1>2. IsFiniteSet(Len(g.disk[name]) + 1 .. Len(g.logged[name]))
  <2> DEFINE a == Len(g.disk[name]) + 1
             b == Len(g.logged[name])
  <2>1. a \in Int /\ b \in Int
    BY <1>1
  <2> HIDE DEF a, b
  <2>2. IsFiniteSet(a .. b)
    BY <2>1, FS_Interval
  <2> QED
    BY <2>2 DEF a, b
<1>3. Missing(g, l, name) \subseteq Len(g.disk[name]) + 1 .. Len(g.logged[name])
  BY DEF Missing
<1> QED
  BY <1>2, <1>3, FS_Subset, FS_CardinalityType

\* Nothing is missing from a file that has all that was logged to it.
LEMMA NothingMissing ==
  ASSUME NEW g \in Logger, NEW l, NEW name \in FileNames, g.disk[name] = g.logged[name]
  PROVE  Missing(g, l, name) = {}
<1>1. Len(g.logged[name]) \in Nat
  BY LoggerTyped
<1> QED
  BY <1>1 DEF Missing

\* A logger that has just been built.
LEMMA BuiltInv ==
  ASSUME NEW g, Built(g)
  PROVE  InvLog(g)
<1>1. /\ g \in Logger /\ Joined(g) /\ Fresh(g) /\ g.unflushed = InitUnflushedCount
      /\ Rooted(g.logFlushThreshold) /\ Rooted(g.fileStream)
  BY DEF Built, Building
<1>2. Whole(g)
  <2>1. ASSUME NEW id \in 1 .. Len(g.streams) PROVE WholeStream(g, id)
    <3> DEFINE a == g.disk[g.streams[id].file]
    <3>1. /\ a \in Seq(LogLine) /\ <<>> \in Seq(LogLine) /\ g.streams[id].buffer = <<>>
          /\ a = g.logged[g.streams[id].file]
      BY <1>1, LoggerTyped DEF Fresh
    <3> HIDE DEF a
    <3>2. a \o <<>> = a
      BY <3>1
    <3> QED
      BY <3>1, <3>2 DEF WholeStream, a
  <2>2. \A name \in FileNames : WholeFile(g, name)
    BY <1>1 DEF WholeFile, Fresh
  <2> QED
    BY <2>1, <2>2 DEF Whole
<1>3. ASSUME NEW l \in Level PROVE Counted(g, l)
  <2>1. g.unflushed[l] = 0
    BY <1>1 DEF InitUnflushedCount
  <2>2. Get(g.logFlushThreshold, l) \in Nat
    BY <1>1, LoggerTyped, GetTyped
  <2>3. \A name \in FileNames : CountedIn(g, l, name)
    BY <1>1, NothingMissing DEF Fresh, CountedIn
  <2> QED
    BY <2>1, <2>2, <2>3 DEF Counted, Threshold, AtLeastOne
<1> QED
  BY <1>1, <1>2, <1>3 DEF InvLog

\* Writing a buffer to a file.
LEMMA AppendToFile ==
  ASSUME NEW T, NEW a \in Seq(T), NEW b \in Seq(T), NEW x \in T
  PROVE  /\ a \o Append(b, x) = Append(a \o b, x) /\ Append(a \o b, x) \in Seq(T)
         /\ Append(b, x) \in Seq(T)
OBVIOUS

\* A file that has been written to is as long as both parts.
LEMMA JoinedIsLonger ==
  ASSUME NEW T, NEW a \in Seq(T), NEW b \in Seq(T), NEW c, a \o b = c
  PROVE  Len(a) <= Len(c)
<1>1. Len(a \o b) = Len(a) + Len(b) /\ Len(a) \in Nat /\ Len(b) \in Nat
  OBVIOUS
<1> QED
  BY <1>1

\* One more line is one more that may be missing.
LEMMA OneMoreMissing ==
  ASSUME NEW g \in Logger, NEW h \in Logger, NEW l, NEW x \in Level, NEW n \in Nat,
         NEW name \in FileNames, h.disk[name] = g.disk[name],
         h.logged[name] = Append(g.logged[name], <<x, n>>),
         Len(g.disk[name]) <= Len(g.logged[name])
  PROVE  /\ l # x => Missing(h, l, name) = Missing(g, l, name)
         /\ Cardinality(Missing(h, l, name)) <= Cardinality(Missing(g, l, name)) + 1
<1> DEFINE d == Len(g.disk[name])
           k == Len(g.logged[name])
<1>1. d \in Nat /\ k \in Nat /\ d <= k /\ g.logged[name] \in Seq(LogLine) /\ <<x, n>> \in LogLine
  BY LoggerTyped DEF LogLine
<1>2. /\ Len(h.logged[name]) = k + 1 /\ Len(h.disk[name]) = d
      /\ \A i \in 1 .. k : h.logged[name][i] = g.logged[name][i]
      /\ h.logged[name][k + 1] = <<x, n>> /\ <<x, n>>[1] = x
  BY <1>1
<1>3. /\ Missing(g, l, name) = {i \in d + 1 .. k : g.logged[name][i][1] = l}
      /\ Missing(h, l, name) = {i \in d + 1 .. k + 1 : h.logged[name][i][1] = l}
  BY <1>2 DEF Missing
<1> HIDE DEF d, k
<1>4. ASSUME l # x PROVE Missing(h, l, name) = Missing(g, l, name)
  <2>1. ASSUME NEW i \in d + 1 .. k + 1, h.logged[name][i][1] = l PROVE i \in d + 1 .. k
    BY <1>1, <1>2, <1>4, <2>1
  <2>2. \A i \in d + 1 .. k : i \in 1 .. k /\ i \in d + 1 .. k + 1
    BY <1>1
  <2> QED
    BY <1>2, <1>3, <2>1, <2>2
<1>5. Missing(h, l, name) \subseteq Missing(g, l, name) \cup {k + 1}
  <2>1. \A i \in d + 1 .. k + 1 : i = k + 1 \/ (i \in 1 .. k /\ i \in d + 1 .. k)
    BY <1>1
  <2> QED
    BY <1>2, <1>3, <2>1
<1>6. /\ IsFiniteSet(Missing(g, l, name) \cup {k + 1})
      /\ Cardinality(Missing(g, l, name) \cup {k + 1}) <= Cardinality(Missing(g, l, name)) + 1
  <2>1. IsFiniteSet(Missing(g, l, name)) /\ Cardinality(Missing(g, l, name)) \in Nat
    BY MissingFinite
  <2> DEFINE S == Missing(g, l, name)
             last == k + 1
  <2>2. IsFiniteSet(S) /\ Cardinality(S) \in Nat
    BY <2>1
  <2> HIDE DEF S, last
  <2>3. IsFiniteSet(S \cup {last})
    BY <2>2, FS_AddElement
  <2>4. Cardinality(S \cup {last}) = IF last \in S THEN Cardinality(S) ELSE Cardinality(S) + 1
    BY <2>2, FS_AddElement
  <2>5. Cardinality(S \cup {last}) <= Cardinality(S) + 1
    BY <2>2, <2>4
  <2> QED
    BY <2>3, <2>5 DEF S, last
<1>7. Cardinality(Missing(h, l, name)) <= Cardinality(Missing(g, l, name) \cup {k + 1})
  BY <1>5, <1>6, FS_Subset
<1>8. /\ Cardinality(Missing(g, l, name)) \in Nat /\ Cardinality(Missing(h, l, name)) \in Nat
      /\ Cardinality(Missing(g, l, name) \cup {k + 1}) \in Nat
  BY <1>6, MissingFinite, FS_CardinalityType
<1> QED
  BY <1>4, <1>6, <1>7, <1>8

\* Of a file that has grown no more lines are missing.
LEMMA FewerMissing ==
  ASSUME NEW g \in Logger, NEW h \in Logger, NEW l, NEW name \in FileNames,
         h.logged = g.logged, Len(g.disk[name]) <= Len(h.disk[name])
  PROVE  Cardinality(Missing(h, l, name)) <= Cardinality(Missing(g, l, name))
<1>1. Len(g.disk[name]) \in Nat /\ Len(h.disk[name]) \in Nat /\ Len(g.logged[name]) \in Nat
  BY LoggerTyped
<1>2. Missing(h, l, name) \subseteq Missing(g, l, name)
  BY <1>1 DEF Missing
<1> QED
  BY <1>2, MissingFinite, FS_Subset

\* What is written of what a stream holds, and the rest.
LEMMA HeldSplits ==
  ASSUME NEW T, NEW a \in Seq(T), NEW held \in Seq(T), NEW n \in 0 .. Len(held)
  PROVE  /\ SubSeq(held, 1, n) \in Seq(T) /\ SubSeq(held, n + 1, Len(held)) \in Seq(T)
         /\ a \o SubSeq(held, 1, n) \in Seq(T) /\ Len(a) <= Len(a \o SubSeq(held, 1, n))
         /\ (a \o SubSeq(held, 1, n)) \o SubSeq(held, n + 1, Len(held)) = a \o held
         /\ n = Len(held) => a \o SubSeq(held, 1, n) = a \o held
<1> DEFINE p == SubSeq(held, 1, n)
           q == SubSeq(held, n + 1, Len(held))
<1>1. /\ Len(held) \in Nat /\ n \in Nat /\ n <= Len(held) /\ 1 \in 1 .. Len(held) + 1
      /\ n \in 1 - 1 .. Len(held) /\ Len(held) \in n .. Len(held)
      /\ \A i \in 1 .. Len(held) : held[i] \in T
  OBVIOUS
<1>2. p \in Seq(T) /\ q \in Seq(T)
  BY <1>1
<1>3. p \o q = held
  <2>1. p \o q = SubSeq(held, 1, Len(held))
    BY <1>1, ConcatAdjacentSubSeq
  <2> QED
    BY <2>1, SubSeqFull
<1>4. n = Len(held) => p = held
  BY SubSeqFull
<1> HIDE DEF p, q
<1>5. a \o p \in Seq(T) /\ (a \o p) \o q = a \o held
  <2>1. (a \o p) \o q = a \o (p \o q)
    BY <1>2, ConcatAssociative
  <2> QED
    BY <1>2, <1>3, <2>1
<1>6. Len(a) <= Len(a \o p)
  BY <1>2, JoinedIsLonger
<1> QED
  BY <1>2, <1>4, <1>5, <1>6 DEF p, q

\* A logger whose stream id is about to write the first n lines of what it holds:
\* what is missing from its file has been counted, or is about to be written.
Writing(g, id, held, n, fails) ==
  /\ g \in Logger /\ Joined(g) /\ Rooted(g.fileStream) /\ Rooted(g.logFlushThreshold)
  /\ id \in 1 .. Len(g.streams) /\ held \in Seq(LogLine)
  /\ n \in 0 .. Len(held) /\ fails \in BOOLEAN
  /\ g.disk[g.streams[id].file] \o held = g.logged[g.streams[id].file]
  /\ \A i \in 1 .. Len(g.streams) : i # id => WholeStream(g, i)
  /\ \A name \in FileNames : WholeFile(g, name)
  /\ \A l \in Level :
       /\ g.unflushed[l] < Threshold(g, l)
       /\ \A name \in FileNames : name # g.streams[id].file => CountedIn(g, l, name)
       /\ \/ Missing(g, l, g.streams[id].file) = {}
          \/ n = Len(held) /\ ~fails
          \/ /\ Get(g.fileStream, l) = id
             /\ Cardinality(Missing(g, l, g.streams[id].file)) <=
                  IF fails THEN Threshold(g, l) ELSE g.unflushed[l]

\* What a write changes.
Written(h, g, id, held, n, fails) ==
  LET name == g.streams[id].file
  IN  /\ h \in Logger /\ Len(h.streams) = Len(g.streams)
      /\ h.disk[name] = g.disk[name] \o SubSeq(held, 1, n)
      /\ \A x \in FileNames : x # name => h.disk[x] = g.disk[x]
      /\ \A i \in 1 .. Len(g.streams) : /\ h.streams[i].file = g.streams[i].file
                                        /\ i # id => h.streams[i] = g.streams[i]
      /\ h.streams[id].buffer = IF fails THEN held ELSE SubSeq(held, n + 1, Len(held))
      /\ h.streams[id].failed = fails
      /\ h.reference = g.reference /\ h.fileStream = g.fileStream
      /\ h.logFlushThreshold = g.logFlushThreshold
      /\ h.unflushed = g.unflushed /\ h.logged = g.logged

LEMMA WriteParts ==
  ASSUME NEW g \in Logger, NEW id \in 1 .. Len(g.streams), NEW held \in Seq(LogLine),
         NEW n \in 0 .. Len(held), NEW fails \in BOOLEAN
  PROVE  Written(Write(g, id, held, n, fails), g, id, held, n, fails)
<1> DEFINE h == Write(g, id, held, n, fails)
           name == g.streams[id].file
           rest == IF fails THEN held ELSE SubSeq(held, n + 1, Len(held))
           onDisk == g.disk[name] \o SubSeq(held, 1, n)
           r == [g.streams[id] EXCEPT !.buffer = rest, !.failed = fails]
<1>1. /\ g.streams \in Seq(FileStream) /\ g.disk \in [FileNames -> Seq(LogLine)]
      /\ Len(g.streams) \in Nat /\ g.streams[id] \in FileStream /\ name \in FileNames
  BY LoggerTyped
<1>2. onDisk \in Seq(LogLine) /\ rest \in Seq(LogLine)
  BY <1>1, HeldSplits
<1>3. /\ h.disk = [g.disk EXCEPT ![name] = onDisk] /\ h.streams = [g.streams EXCEPT ![id] = r]
      /\ h = [g EXCEPT !.streams = h.streams, !.disk = h.disk]
      /\ h.reference = g.reference /\ h.fileStream = g.fileStream
      /\ h.logFlushThreshold = g.logFlushThreshold
      /\ h.unflushed = g.unflushed /\ h.logged = g.logged
  BY <1>1 DEF Write, Logger
<1> HIDE DEF h, rest, onDisk
<1>4. r \in FileStream /\ r.file = name /\ r.buffer = rest /\ r.failed = fails
  BY <1>1, <1>2 DEF FileStream
<1> HIDE DEF name, r
<1>5. /\ h.streams \in Seq(FileStream) /\ Len(h.streams) = Len(g.streams)
      /\ \A i \in 1 .. Len(g.streams) : h.streams[i] = IF i = id THEN r ELSE g.streams[i]
  BY <1>1, <1>3, <1>4
<1>6. /\ h.disk \in [FileNames -> Seq(LogLine)] /\ h.disk[name] = onDisk
      /\ \A x \in FileNames : x # name => h.disk[x] = g.disk[x]
  BY <1>1, <1>2, <1>3
<1>7. h \in Logger
  BY <1>3, <1>5, <1>6 DEF Logger, Disk
<1>8. \A i \in 1 .. Len(g.streams) : h.streams[i].file = g.streams[i].file
  BY <1>4, <1>5 DEF name
<1>9. /\ h.disk[name] = g.disk[name] \o SubSeq(held, 1, n)
      /\ h.streams[id].buffer = IF fails THEN held ELSE SubSeq(held, n + 1, Len(held))
      /\ h.streams[id].failed = fails
  BY <1>4, <1>5, <1>6 DEF onDisk, rest
<1> QED
  BY <1>3, <1>5, <1>6, <1>7, <1>8, <1>9 DEF Written, h, name

\* A write leaves every line in its file, held, or counted, whether it fails or not.
LEMMA WriteKeeps ==
  ASSUME NEW g, NEW id, NEW held, NEW n, NEW fails, Writing(g, id, held, n, fails)
  PROVE  InvLog(Write(g, id, held, n, fails))
<1> DEFINE h == Write(g, id, held, n, fails)
           name == g.streams[id].file
           rest == IF fails THEN held ELSE SubSeq(held, n + 1, Len(held))
           first == SubSeq(held, 1, n)
           last == SubSeq(held, n + 1, Len(held))
<1>1. /\ g \in Logger /\ Joined(g) /\ Rooted(g.fileStream) /\ Rooted(g.logFlushThreshold)
      /\ id \in 1 .. Len(g.streams) /\ held \in Seq(LogLine)
      /\ n \in 0 .. Len(held) /\ fails \in BOOLEAN
      /\ g.disk[name] \o held = g.logged[name]
      /\ \A i \in 1 .. Len(g.streams) : i # id => WholeStream(g, i)
      /\ \A x \in FileNames : WholeFile(g, x)
      /\ \A l \in Level :
           /\ g.unflushed[l] < Threshold(g, l)
           /\ \A x \in FileNames : x # name => CountedIn(g, l, x)
           /\ \/ Missing(g, l, name) = {}
              \/ n = Len(held) /\ ~fails
              \/ /\ Get(g.fileStream, l) = id
                 /\ Cardinality(Missing(g, l, name)) <=
                      IF fails THEN Threshold(g, l) ELSE g.unflushed[l]
  BY DEF Writing
<1> HIDE DEF h
<1>2. /\ h \in Logger /\ Len(h.streams) = Len(g.streams)
      /\ h.disk[name] = g.disk[name] \o first
      /\ \A x \in FileNames : x # name => h.disk[x] = g.disk[x]
      /\ \A i \in 1 .. Len(g.streams) : /\ h.streams[i].file = g.streams[i].file
                                        /\ i # id => h.streams[i] = g.streams[i]
      /\ h.streams[id].buffer = rest /\ h.streams[id].failed = fails
      /\ h.reference = g.reference /\ h.fileStream = g.fileStream
      /\ h.logFlushThreshold = g.logFlushThreshold
      /\ h.unflushed = g.unflushed /\ h.logged = g.logged
  <2>1. /\ g \in Logger /\ id \in 1 .. Len(g.streams) /\ held \in Seq(LogLine)
        /\ n \in 0 .. Len(held) /\ fails \in BOOLEAN
    BY <1>1
  <2>2. Written(h, g, id, held, n, fails)
    BY <2>1, WriteParts DEF h
  <2> QED
    BY <2>2 DEF Written
<1>3. /\ name \in FileNames /\ g.disk[name] \in Seq(LogLine) /\ g.logged[name] \in Seq(LogLine)
      /\ h.disk[name] \in Seq(LogLine) /\ Len(g.streams) \in Nat
      /\ \A i \in 1 .. Len(g.streams) : g.streams[i].file \in FileNames
  BY <1>1, <1>2, LoggerTyped
<1>4. /\ last \in Seq(LogLine) /\ h.disk[name] \o last = g.logged[name]
      /\ Len(g.disk[name]) <= Len(h.disk[name])
      /\ n = Len(held) => h.disk[name] = g.logged[name]
      /\ ~fails => rest = last
  <2> DEFINE a == g.disk[name]
  <2>1. a \in Seq(LogLine) /\ held \in Seq(LogLine) /\ n \in 0 .. Len(held)
    BY <1>1, <1>3
  <2> HIDE DEF a
  <2>2. /\ last \in Seq(LogLine) /\ Len(a) <= Len(a \o first)
        /\ (a \o first) \o last = a \o held
        /\ n = Len(held) => a \o first = a \o held
    BY <2>1, HeldSplits
  <2>3. h.disk[name] = a \o first /\ a \o held = g.logged[name] /\ (~fails => rest = last)
    BY <1>1, <1>2 DEF a
  <2> HIDE DEF first, last, rest
  <2> QED
    BY <2>2, <2>3 DEF a
<1> HIDE DEF name, rest, first, last
<1>5. Joined(h)
  BY <1>1, <1>2 DEF Joined
<1>6. Whole(h)
  <2>1. ASSUME NEW i \in 1 .. Len(h.streams) PROVE WholeStream(h, i)
    <3>1. CASE i = id
      BY <1>2, <1>4, <3>1 DEF WholeStream, name
    <3>2. CASE i # id
      <4>1. i \in 1 .. Len(g.streams) /\ h.streams[i] = g.streams[i]
        BY <1>2, <3>2
      <4>2. g.streams[i].file # name /\ g.streams[i].file \in FileNames
        BY <1>1, <1>3, <3>2, <4>1 DEF Joined, name
      <4>3. h.disk[g.streams[i].file] = g.disk[g.streams[i].file]
        BY <1>2, <4>2
      <4>4. WholeStream(g, i) /\ h.logged = g.logged
        BY <1>1, <1>2, <3>2, <4>1
      <4> QED
        BY <4>1, <4>3, <4>4 DEF WholeStream
    <3> QED
      BY <3>1, <3>2
  <2>2. ASSUME NEW x \in FileNames PROVE WholeFile(h, x)
    <3>1. CASE \E i \in 1 .. Len(g.streams) : g.streams[i].file = x
      BY <1>2, <3>1 DEF WholeFile
    <3>2. CASE ~ \E i \in 1 .. Len(g.streams) : g.streams[i].file = x
      <4>1. x # name /\ g.disk[x] = g.logged[x]
        BY <1>1, <3>2 DEF WholeFile, name
      <4> QED
        BY <1>2, <4>1 DEF WholeFile
    <3> QED
      BY <3>1, <3>2
  <2> QED
    BY <2>1, <2>2 DEF Whole
<1>7. ASSUME NEW l \in Level PROVE Counted(h, l)
  <2>1. h.unflushed[l] < Threshold(h, l) /\ Threshold(h, l) = Threshold(g, l)
    BY <1>1, <1>2 DEF Threshold
  <2>2. ASSUME NEW x \in FileNames PROVE CountedIn(h, l, x)
    <3>1. CASE x # name
      <4>1. Missing(h, l, x) = Missing(g, l, x)
        BY <1>2, <3>1 DEF Missing
      <4>2. CountedIn(g, l, x)
        BY <1>1, <3>1
      <4>3. CASE Missing(g, l, x) = {}
        BY <4>1, <4>3 DEF CountedIn
      <4>4. CASE Missing(g, l, x) # {}
        <5> DEFINE i == Get(g.fileStream, l)
        <5>1. /\ i # NoStream /\ g.streams[i].file = x
              /\ Cardinality(Missing(g, l, x)) <=
                   IF g.streams[i].failed THEN Threshold(g, l) ELSE g.unflushed[l]
          BY <4>2, <4>4 DEF CountedIn
        <5>2. i \in 1 .. Len(g.streams) /\ i # id
          BY <1>1, <3>1, <5>1, StreamOfLevel DEF name
        <5>3. h.streams[i] = g.streams[i] /\ i = Get(h.fileStream, l)
          BY <1>2, <5>2
        <5> HIDE DEF i
        <5> QED
          BY <1>2, <2>1, <4>1, <5>1, <5>3 DEF CountedIn
      <4> QED
        BY <4>3, <4>4
    <3>2. CASE x = name
      <4>1. /\ Cardinality(Missing(h, l, name)) <= Cardinality(Missing(g, l, name))
            /\ Cardinality(Missing(h, l, name)) \in Nat
            /\ Cardinality(Missing(g, l, name)) \in Nat
        BY <1>1, <1>2, <1>3, <1>4, FewerMissing, MissingFinite
      <4>2. CASE Missing(g, l, name) = {}
        <5>1. Cardinality(Missing(h, l, name)) = 0 /\ IsFiniteSet(Missing(h, l, name))
          BY <1>2, <1>3, <4>1, <4>2, FS_EmptySet, MissingFinite
        <5>2. Missing(h, l, name) = {}
          BY <5>1, FS_EmptySet
        <5> QED
          BY <3>2, <5>2 DEF CountedIn
      <4>3. CASE n = Len(held) /\ ~fails
        <5>1. Missing(h, l, name) = {}
          BY <1>2, <1>3, <1>4, <4>3, NothingMissing
        <5> QED
          BY <3>2, <5>1 DEF CountedIn
      <4>4. CASE /\ Get(g.fileStream, l) = id
                 /\ Cardinality(Missing(g, l, name)) <=
                      IF fails THEN Threshold(g, l) ELSE g.unflushed[l]
        <5>1. id # NoStream /\ Get(h.fileStream, l) = id /\ h.streams[id].file = x
          <6>1. id # NoStream
            BY <1>1, <1>3 DEF NoStream
          <6>2. h.streams[id].file = x
            BY <1>1, <1>2, <3>2 DEF name
          <6> QED
            BY <1>2, <4>4, <6>1, <6>2
        <5>2. Threshold(g, l) \in Nat /\ g.unflushed[l] \in Nat
          BY <1>1, LoggerTyped, GetTyped DEF Threshold, AtLeastOne
        <5>3. Cardinality(Missing(h, l, name)) <=
                IF h.streams[id].failed THEN Threshold(h, l) ELSE h.unflushed[l]
          BY <1>2, <2>1, <4>1, <4>4, <5>2
        <5> QED
          BY <3>2, <5>1, <5>3 DEF CountedIn
      <4> QED
        BY <1>1, <4>2, <4>3, <4>4
    <3> QED
      BY <3>1, <3>2
  <2> QED
    BY <2>1, <2>2 DEF Counted
<1>8. InvLog(h)
  BY <1>1, <1>2, <1>5, <1>6, <1>7 DEF InvLog
<1> QED
  BY <1>8 DEF h

\* A logger that has taken a line, which is not yet in the file of its level.
Taken(g, l, n) ==
  LET count == g.unflushed[l] + 1
      flush == IsFlushNeeded(count, Get(g.logFlushThreshold, l))
  IN  [g EXCEPT !.unflushed[l] = IF flush THEN 0 ELSE count,
                !.logged[g.streams[Get(g.fileStream, l)].file] = Append(@, <<l, n>>)]

\* It may write what it holds as the three outcomes of Dispatch do.
LEMMA TakenWrites ==
  ASSUME NEW g, InvLog(g), NEW l \in Level, NEW n \in Nat,
         Get(g.fileStream, l) # NoStream, ~g.streams[Get(g.fileStream, l)].failed
  PROVE  LET id == Get(g.fileStream, l)
             buffer == g.streams[id].buffer
             held == Append(buffer, <<l, n>>)
             flush == IsFlushNeeded(g.unflushed[l] + 1, Get(g.logFlushThreshold, l))
         IN  /\ \A k \in 0 .. Len(buffer) : Writing(g, id, buffer, k, TRUE)
             /\ Len(held) = Len(buffer) + 1 /\ Len(buffer) \in Nat
             /\ \A k \in 0 .. Len(held) :
                  /\ k = Len(held) \/ ~flush => Writing(Taken(g, l, n), id, held, k, FALSE)
                  /\ flush => Writing(Taken(g, l, n), id, held, k, TRUE)
<1> DEFINE id == Get(g.fileStream, l)
           name == g.streams[id].file
           buffer == g.streams[id].buffer
           line == <<l, n>>
           held == Append(buffer, line)
           count == g.unflushed[l] + 1
           t == Get(g.logFlushThreshold, l)
           flush == IsFlushNeeded(count, t)
           full == Append(g.logged[name], line)
           h == Taken(g, l, n)
<1>1. /\ g \in Logger /\ Joined(g) /\ Rooted(g.fileStream) /\ Rooted(g.logFlushThreshold)
      /\ \A i \in 1 .. Len(g.streams) : WholeStream(g, i)
      /\ \A x \in FileNames : WholeFile(g, x)
      /\ \A x \in Level : /\ g.unflushed[x] < Threshold(g, x)
                          /\ \A f \in FileNames : CountedIn(g, x, f)
  BY DEF InvLog, Whole, Counted
<1>2. /\ g.unflushed \in [Level -> Nat] /\ Len(g.streams) \in Nat
      /\ g.disk \in [FileNames -> Seq(LogLine)] /\ g.logged \in [FileNames -> Seq(LogLine)]
      /\ \A i \in 1 .. Len(g.streams) :
           g.streams[i].file \in FileNames /\ g.streams[i].buffer \in Seq(LogLine)
  BY <1>1, LoggerTyped
<1>3. id \in 1 .. Len(g.streams) /\ ~g.streams[id].failed /\ id # NoStream
  BY <1>1, StreamOfLevel
<1>4. /\ name \in FileNames /\ buffer \in Seq(LogLine) /\ line \in LogLine
      /\ g.disk[name] \in Seq(LogLine) /\ g.logged[name] \in Seq(LogLine)
      /\ g.unflushed[l] \in Nat /\ count \in Nat
  BY <1>2, <1>3 DEF LogLine
<1>5. \A x \in Level : Threshold(g, x) \in Nat /\ Get(g.logFlushThreshold, x) \in Nat
  BY <1>1, LoggerTyped, GetTyped DEF Threshold, AtLeastOne
<1>6. g.disk[name] \o buffer = g.logged[name]
  BY <1>1, <1>3 DEF WholeStream
<1>7. /\ held \in Seq(LogLine) /\ Len(held) = Len(buffer) + 1 /\ Len(buffer) \in Nat
      /\ full \in Seq(LogLine) /\ g.disk[name] \o held = full
  <2> DEFINE a == g.disk[name]
  <2>1. a \o buffer = g.logged[name]
    BY <1>6
  <2>2. Len(held) = Len(buffer) + 1 /\ Len(buffer) \in Nat
    BY <1>4
  <2>3. a \in Seq(LogLine) /\ buffer \in Seq(LogLine) /\ line \in LogLine
    BY <1>4
  <2> HIDE DEF a, line, buffer
  <2>4. a \o Append(buffer, line) = Append(a \o buffer, line)
    BY <2>3, AppendToFile
  <2>5. Append(buffer, line) \in Seq(LogLine) /\ Append(a \o buffer, line) \in Seq(LogLine)
    BY <2>3
  <2> QED
    BY <2>1, <2>2, <2>4, <2>5 DEF a
<1>8. \A x \in Level : /\ Cardinality(Missing(g, x, name)) \in Nat
                       /\ \/ Missing(g, x, name) = {}
                          \/ /\ Get(g.fileStream, x) = id
                             /\ Cardinality(Missing(g, x, name)) <= g.unflushed[x]
  <2> SUFFICES ASSUME NEW x \in Level, Missing(g, x, name) # {}
               PROVE  /\ Get(g.fileStream, x) = id
                      /\ Cardinality(Missing(g, x, name)) <= g.unflushed[x]
    BY <1>1, <1>4, MissingFinite
  <2> DEFINE i == Get(g.fileStream, x)
  <2>1. /\ i # NoStream /\ g.streams[i].file = name
        /\ Cardinality(Missing(g, x, name)) <=
             IF g.streams[i].failed THEN Threshold(g, x) ELSE g.unflushed[x]
    BY <1>1, <1>4 DEF CountedIn
  <2>2. i \in 1 .. Len(g.streams)
    BY <1>1, <2>1, StreamOfLevel
  <2>3. i = id
    BY <1>1, <1>3, <2>1, <2>2 DEF Joined
  <2> QED
    BY <1>3, <2>1, <2>3
<1>9. ASSUME NEW k \in 0 .. Len(buffer) PROVE Writing(g, id, buffer, k, TRUE)
  <2>1. ASSUME NEW x \in Level
        PROVE  \/ Missing(g, x, name) = {}
               \/ /\ Get(g.fileStream, x) = id
                  /\ Cardinality(Missing(g, x, name)) <= Threshold(g, x)
    <3>1. g.unflushed[x] < Threshold(g, x) /\ g.unflushed[x] \in Nat
      BY <1>1, <1>2
    <3> QED
      BY <1>5, <1>8, <3>1
  <2> QED
    BY <1>1, <1>3, <1>4, <1>6, <2>1 DEF Writing
<1>10. /\ h.unflushed = [g.unflushed EXCEPT ![l] = IF flush THEN 0 ELSE count]
       /\ h.logged = [g.logged EXCEPT ![name] = full]
       /\ h = [g EXCEPT !.unflushed = h.unflushed, !.logged = h.logged]
       /\ h.streams = g.streams /\ h.disk = g.disk /\ h.reference = g.reference
       /\ h.fileStream = g.fileStream /\ h.logFlushThreshold = g.logFlushThreshold
  BY <1>1 DEF Taken, Logger
<1>11. (flush <=> count >= t) /\ flush \in BOOLEAN /\ t = Get(g.logFlushThreshold, l)
       /\ count = g.unflushed[l] + 1 /\ name = g.streams[id].file /\ id = Get(g.fileStream, l)
       /\ full = Append(g.logged[name], <<l, n>>)
  BY DEF IsFlushNeeded
<1> HIDE DEF h, flush, count, full, held, name, id, buffer, t
<1>12. /\ h.unflushed \in [Level -> Nat] /\ h.unflushed[l] = (IF flush THEN 0 ELSE count)
       /\ \A x \in Level : x # l => h.unflushed[x] = g.unflushed[x]
  BY <1>2, <1>4, <1>10
<1>13. /\ h.logged \in [FileNames -> Seq(LogLine)] /\ h.logged[name] = full
       /\ \A x \in FileNames : x # name => h.logged[x] = g.logged[x]
  BY <1>2, <1>4, <1>7, <1>10
<1>14. h \in Logger /\ Joined(h) /\ Rooted(h.fileStream) /\ Rooted(h.logFlushThreshold)
  BY <1>1, <1>10, <1>12, <1>13 DEF Logger, Disk, Joined
<1>15. /\ \A i \in 1 .. Len(h.streams) : i # id => WholeStream(h, i)
       /\ \A x \in FileNames : WholeFile(h, x)
  <2>1. ASSUME NEW i \in 1 .. Len(h.streams), i # id PROVE WholeStream(h, i)
    <3>1. i \in 1 .. Len(g.streams) /\ WholeStream(g, i) /\ h.streams = g.streams /\ h.disk = g.disk
      BY <1>1, <1>10, <2>1
    <3>2. g.streams[i].file # name /\ g.streams[i].file \in FileNames
      <4>1. g.reference[g.streams[i].file] = i /\ g.reference[g.streams[id].file] = id
        BY <1>1, <1>3, <3>1 DEF Joined
      <4> QED
        BY <1>2, <1>11, <2>1, <3>1, <4>1
    <3>3. h.logged[g.streams[i].file] = g.logged[g.streams[i].file]
      BY <1>13, <3>2
    <3> QED
      BY <3>1, <3>3 DEF WholeStream
  <2>2. ASSUME NEW x \in FileNames PROVE WholeFile(h, x)
    <3>1. CASE x = name
      BY <1>3, <1>10, <1>11, <3>1 DEF WholeFile
    <3>2. CASE x # name
      BY <1>1, <1>10, <1>13, <3>2 DEF WholeFile
    <3> QED
      BY <3>1, <3>2
  <2> QED
    BY <2>1, <2>2
<1>16. ASSUME NEW x \in Level
       PROVE  /\ h.unflushed[x] < Threshold(h, x) /\ Threshold(h, x) = Threshold(g, x)
              /\ \A f \in FileNames : f # name => CountedIn(h, x, f)
              /\ Cardinality(Missing(h, x, name)) \in Nat
              /\ \/ Missing(h, x, name) = {}
                 \/ /\ Get(h.fileStream, x) = id
                    /\ Cardinality(Missing(h, x, name)) <=
                         IF x = l THEN count ELSE h.unflushed[x]
  <2>1. Threshold(h, x) = Threshold(g, x)
    BY <1>10 DEF Threshold
  <2>2. h.unflushed[x] < Threshold(h, x)
    <3>1. CASE x # l
      BY <1>1, <1>12, <2>1, <3>1
    <3>2. CASE x = l
      <4>1. t \in Nat /\ Threshold(g, x) = IF t = 0 THEN 1 ELSE t
        BY <1>5, <1>11, <3>2 DEF Threshold, AtLeastOne
      <4>2. h.unflushed[x] = (IF flush THEN 0 ELSE count) /\ count \in Nat /\ (flush <=> count >= t)
        BY <1>4, <1>11, <1>12, <3>2
      <4> QED
        BY <2>1, <4>1, <4>2
    <3> QED
      BY <3>1, <3>2
  <2>3. ASSUME NEW f \in FileNames, f # name PROVE CountedIn(h, x, f)
    <3>1. Missing(h, x, f) = Missing(g, x, f)
      BY <1>10, <1>13, <2>3 DEF Missing
    <3>2. CASE Missing(g, x, f) = {}
      BY <3>1, <3>2 DEF CountedIn
    <3>3. CASE Missing(g, x, f) # {}
      <4> DEFINE i == Get(g.fileStream, x)
      <4>1. /\ i # NoStream /\ g.streams[i].file = f
            /\ Cardinality(Missing(g, x, f)) <=
                 IF g.streams[i].failed THEN Threshold(g, x) ELSE g.unflushed[x]
        BY <1>1, <3>3 DEF CountedIn
      <4>2. x # l
        BY <1>11, <2>3, <4>1
      <4>3. i = Get(h.fileStream, x) /\ h.unflushed[x] = g.unflushed[x]
        BY <1>10, <1>12, <4>2
      <4> HIDE DEF i
      <4> QED
        BY <1>10, <2>1, <3>1, <4>1, <4>3 DEF CountedIn
    <3> QED
      BY <3>2, <3>3
  <2>4. /\ x # l => Missing(h, x, name) = Missing(g, x, name)
        /\ Cardinality(Missing(h, x, name)) <= Cardinality(Missing(g, x, name)) + 1
    <3>1. h.disk[name] = g.disk[name] /\ h.logged[name] = Append(g.logged[name], <<l, n>>)
      BY <1>10, <1>11, <1>13
    <3>2. Len(g.disk[name]) <= Len(g.logged[name])
      BY <1>4, <1>6, JoinedIsLonger
    <3> QED
      BY <1>1, <1>4, <1>14, <3>1, <3>2, OneMoreMissing
  <2>5. Cardinality(Missing(h, x, name)) \in Nat
    BY <1>4, <1>14, MissingFinite
  <2>6. CASE x # l
    BY <1>8, <1>10, <1>12, <2>1, <2>2, <2>3, <2>4, <2>5, <2>6
  <2>7. CASE x = l
    <3>1. Cardinality(Missing(g, x, name)) <= g.unflushed[x]
      <4>1. Missing(g, x, name) = {} => Cardinality(Missing(g, x, name)) = 0
        BY FS_EmptySet
      <4> QED
        BY <1>4, <1>8, <2>7, <4>1
    <3>2. Cardinality(Missing(h, x, name)) <= count
      <4> DEFINE more == Cardinality(Missing(h, x, name))
                 few == Cardinality(Missing(g, x, name))
      <4>1. /\ more \in Nat /\ few \in Nat /\ more <= few + 1 /\ few <= g.unflushed[x]
            /\ g.unflushed[x] \in Nat /\ count = g.unflushed[x] + 1
        BY <1>4, <1>8, <1>11, <2>4, <2>5, <2>7, <3>1
      <4> HIDE DEF more, few
      <4>2. more <= count
        BY <4>1
      <4> QED
        BY <4>2 DEF more
    <3> QED
      BY <1>10, <1>11, <2>1, <2>2, <2>3, <2>5, <2>7, <3>2
  <2> QED
    BY <2>6, <2>7
<1>17. count <= Threshold(g, l)
  <2>1. /\ g.unflushed[l] < Threshold(g, l) /\ g.unflushed[l] \in Nat /\ Threshold(g, l) \in Nat
        /\ count = g.unflushed[l] + 1
    BY <1>1, <1>4, <1>5, <1>11
  <2> QED
    BY <2>1
<1>18. ASSUME NEW k \in 0 .. Len(held), NEW fails \in BOOLEAN,
              IF fails THEN flush ELSE k = Len(held) \/ ~flush
       PROVE  Writing(h, id, held, k, fails)
  <2>1. /\ id \in 1 .. Len(h.streams) /\ h.streams[id].file = name
        /\ h.disk[name] \o held = h.logged[name]
    BY <1>3, <1>7, <1>10, <1>11, <1>13
  <2>2. ASSUME NEW x \in Level
        PROVE  \/ Missing(h, x, name) = {}
               \/ k = Len(held) /\ ~fails
               \/ /\ Get(h.fileStream, x) = id
                  /\ Cardinality(Missing(h, x, name)) <=
                       IF fails THEN Threshold(h, x) ELSE h.unflushed[x]
    <3>1. h.unflushed[x] \in Nat /\ Threshold(g, x) \in Nat
      BY <1>5, <1>12
    <3> QED
      BY <1>4, <1>12, <1>16, <1>17, <1>18, <3>1
  <2> QED
    BY <1>7, <1>14, <1>15, <1>16, <1>18, <2>1, <2>2 DEF Writing
<1>19. \A k \in 0 .. Len(held) : /\ k = Len(held) \/ ~flush => Writing(h, id, held, k, FALSE)
                                 /\ flush => Writing(h, id, held, k, TRUE)
  BY <1>18
<1> QED
  BY <1>7, <1>9, <1>19 DEF h, flush, count, held, id, buffer, t, line

\* A line at one level: what the stream holds is written, as far as the disk takes
\* it, or kept, and the line is counted for its level only.
LEMMA DispatchKeeps ==
  ASSUME NEW g, InvLog(g), NEW l \in Level, NEW n \in Nat, NEW h \in Dispatch(g, l, <<l, n>>)
  PROVE  InvLog(h)
<1> DEFINE id == Get(g.fileStream, l)
           buffer == g.streams[id].buffer
           held == Append(buffer, <<l, n>>)
           flush == IsFlushNeeded(g.unflushed[l] + 1, Get(g.logFlushThreshold, l))
           k == Taken(g, l, n)
<1>1. CASE h = g
  BY <1>1
<1>2. CASE h # g
  <2>1. id # NoStream /\ ~g.streams[id].failed
    BY <1>2 DEF Dispatch
  <2>2. \/ \E m \in 0 .. Len(buffer) : h = Write(g, id, buffer, m, TRUE)
        \/ \E m \in IF flush THEN {Len(held)} ELSE 0 .. Len(held) : h = Write(k, id, held, m, FALSE)
        \/ flush /\ \E m \in 0 .. Len(buffer) : h = Write(k, id, held, m, TRUE)
    BY <1>2 DEF Dispatch, Taken
  <2>3. /\ \A m \in 0 .. Len(buffer) : Writing(g, id, buffer, m, TRUE)
        /\ Len(held) = Len(buffer) + 1 /\ Len(buffer) \in Nat
        /\ \A m \in 0 .. Len(held) : /\ m = Len(held) \/ ~flush => Writing(k, id, held, m, FALSE)
                                     /\ flush => Writing(k, id, held, m, TRUE)
    BY <2>1, TakenWrites
  <2> HIDE DEF id, buffer, held, flush, k
  <2>4. Len(held) \in 0 .. Len(held) /\ \A m \in 0 .. Len(buffer) : m \in 0 .. Len(held)
    BY <2>3
  <2> QED
    BY <2>2, <2>3, <2>4, WriteKeeps
<1> QED
  BY <1>1, <1>2

\* A fatal line, and the warning after it.
LEMMA FatalKeeps ==
  ASSUME NEW g, InvLog(g), NEW n \in Nat, NEW h \in DispatchFatal(g, n)
  PROVE  InvLog(h)
<1> DEFINE m == n + 1
<1>1. "FATAL" \in Level /\ "WARNING" \in Level /\ m \in Nat
  BY LoggingAssumption
<1>2. CASE h = g
  BY <1>2
<1>3. CASE h # g
  <2>1. PICK k \in Dispatch(g, "FATAL", <<"FATAL", n>>) : h \in Dispatch(k, "WARNING", <<"WARNING", m>>)
    BY <1>3 DEF DispatchFatal
  <2> HIDE DEF m
  <2>2. InvLog(k)
    BY <1>1, <2>1, DispatchKeeps
  <2> QED
    BY <1>1, <2>1, <2>2, DispatchKeeps
<1> QED
  BY <1>2, <1>3

-----------------------------------------------------------------------------
(* The end                                                                 *)

\* What the streams of a file hold is what its one stream holds.
LEMMA HeldByOne ==
  ASSUME NEW g \in Logger, Joined(g), NEW name \in FileNames
  PROVE  /\ \A id \in 1 .. Len(g.streams) :
              g.streams[id].file = name => Held(g, name) = g.streams[id].buffer
         /\ (\A id \in 1 .. Len(g.streams) : g.streams[id].file # name) => Held(g, name) = <<>>
<1> DEFINE N == Len(g.streams)
           S == Seq(LogLine)
           base == <<>>
           Op(b, s) == IF s.file = name THEN b \o s.buffer ELSE b
           step == [p \in S \X FileStream |-> Op(p[1], p[2])]
           f[n \in 0 .. N] == IF n = 0 THEN base ELSE Op(f[n - 1], g.streams[n])
           Adds(id) == g.streams[id].file = name
           T == {n \in 0 .. N :
                   /\ \A id \in 1 .. n : Adds(id) => f[n] = g.streams[id].buffer
                   /\ (\A id \in 1 .. n : ~ Adds(id)) => f[n] = <<>>}
<1>1. Held(g, name) = f[N]
  BY DEF Held, Iterate
<1>2. base \in S
  OBVIOUS
<1>3. /\ N \in Nat
      /\ \A n \in 1 .. N : g.streams[n] \in FileStream /\ g.streams[n].buffer \in Seq(LogLine)
  BY LoggerTyped
<1>4. \A b \in S, s \in FileStream : Op(b, s) \in S
  BY DEF FileStream
<1>5. \A i, j \in 1 .. N : Adds(i) /\ Adds(j) => i = j
  BY DEF Joined
<1>6. \A n \in 1 .. N : \A b : Op(b, g.streams[n]) = IF Adds(n) THEN b \o g.streams[n].buffer ELSE b
  OBVIOUS
<1>7. step \in [S \X FileStream -> S]
  BY <1>4
<1> HIDE DEF S, base, Op, N, f
<1>8. PICK at \in [0 .. N -> S] :
        at[0] = base /\ \A n \in 1 .. N : at[n] = Op(at[n - 1], g.streams[n])
  <2>1. PICK at \in [0 .. N -> S] : Way(at, N, base, step, g.streams)
    <3> HIDE DEF step
    <3> QED
      BY <1>2, <1>3, <1>7, WayExists
  <2>2. \A n \in 1 .. N : n - 1 \in 0 .. N /\ at[n - 1] \in S
    BY <1>3, <2>1
  <2> QED
    BY <1>3, <2>1, <2>2 DEF Way
<1>9. at = [n \in 0 .. N |-> IF n = 0 THEN base ELSE Op(at[n - 1], g.streams[n])]
  BY <1>3, <1>8
<1>10. f = [n \in 0 .. N |-> IF n = 0 THEN base ELSE Op(f[n - 1], g.streams[n])]
  BY <1>9 DEF f
<1>11. f[0] = base /\ \A n \in 1 .. N : f[n] = Op(f[n - 1], g.streams[n])
  <2>1. 0 \in 0 .. N /\ \A n \in 1 .. N : n \in 0 .. N /\ n # 0
    BY <1>3
  <2> QED
    BY <1>10, <2>1, Zenon
<1>12. 0 \in T
  BY <1>3, <1>11 DEF base
<1>13. ASSUME NEW n \in 1 .. N, n - 1 \in T PROVE n \in T
  <2>1. /\ n \in 0 .. N /\ n - 1 \in 0 .. N
        /\ \A id \in 1 .. n : id \in 1 .. N /\ (id = n \/ id \in 1 .. n - 1)
        /\ \A id \in 1 .. n - 1 : id \in 1 .. n /\ id # n
    BY <1>3
  <2>2. f[n] = IF Adds(n) THEN f[n - 1] \o g.streams[n].buffer ELSE f[n - 1]
    BY <1>6, <1>11
  <2>3. CASE Adds(n)
    <3>1. \A id \in 1 .. n - 1 : ~ Adds(id)
      BY <1>5, <2>1, <2>3
    <3>2. f[n - 1] = <<>>
      BY <1>13, <3>1
    <3>3. f[n] = g.streams[n].buffer
      BY <1>3, <2>2, <2>3, <3>2
    <3> QED
      BY <1>5, <2>1, <2>3, <3>3
  <2>4. CASE ~ Adds(n)
    <3>1. f[n] = f[n - 1]
      BY <2>2, <2>4
    <3> QED
      BY <1>13, <2>1, <2>4, <3>1
  <2> QED
    BY <2>3, <2>4
<1>14. N \in T
  <2> HIDE DEF T
  <2>1. 0 .. N \subseteq T
    BY <1>3, <1>12, <1>13, Climb
  <2> QED
    BY <1>3, <2>1
<1>15. \A id \in 1 .. N : g.streams[id].file = name => f[N] = g.streams[id].buffer
  BY <1>14
<1>16. (\A id \in 1 .. N : g.streams[id].file # name) => f[N] = <<>>
  BY <1>14
<1> QED
  BY <1>1, <1>15, <1>16 DEF N

\* What a file held is the beginning of what it holds.
LEMMA JoinedIsPrefix ==
  ASSUME NEW T, NEW a \in Seq(T), NEW b \in Seq(T)
  PROVE  IsPrefix(a, a \o b)
<1> DEFINE c == a \o b
<1>1. c \in Seq(T) /\ Len(a) \in Nat /\ Len(c) \in Nat /\ Len(a) <= Len(c)
      /\ \A i \in 1 .. Len(a) : c[i] = a[i]
  OBVIOUS
<1> HIDE DEF c
<1>2. /\ SubSeq(a, 1, Len(a)) = [i \in 1 .. Len(a) |-> a[i]]
      /\ SubSeq(c, 1, Len(a)) = [i \in 1 .. Len(a) |-> c[i]]
  BY <1>1
<1>3. IsPrefix(a, c)
  BY <1>1, <1>2 DEF IsPrefix
<1> QED
  BY <1>3 DEF c

\* A file holds the first of the lines that were logged to it.
LEMMA WholeIsPrefix ==
  ASSUME NEW T, NEW a \in Seq(T)
  PROVE  IsPrefix(a, a)
<1>1. a \o <<>> = a /\ <<>> \in Seq(T)
  OBVIOUS
<1>2. IsPrefix(a, a \o <<>>)
  BY <1>1, JoinedIsPrefix
<1> QED
  BY <1>1, <1>2

\* How many lines at a level may be missing from a file.
FailedIn(g, name) == \E id \in 1 .. Len(g.streams) :
                       g.streams[id].file = name /\ g.streams[id].failed
Bounded(g, l, name) ==
  Cardinality(Missing(g, l, name)) < Threshold(g, l) + (IF FailedIn(g, name) THEN 1 ELSE 0)

\* A process that has returned has written all but what failed streams held.
Flushed(g) ==
  /\ g \in Logger /\ Joined(g)
  /\ \A name \in FileNames : /\ FailedIn(g, name) \/ g.disk[name] = g.logged[name]
                             /\ \A l \in Level : Bounded(g, l, name)

\* The bound that counting the lines gives.
LEMMA CountedBounds ==
  ASSUME NEW g, InvLog(g), NEW name \in FileNames, NEW l \in Level
  PROVE  Bounded(g, l, name)
<1>1. /\ g \in Logger /\ Joined(g) /\ Rooted(g.fileStream) /\ Rooted(g.logFlushThreshold)
      /\ g.unflushed[l] < Threshold(g, l) /\ CountedIn(g, l, name)
  BY DEF InvLog, Counted
<1>2. /\ Threshold(g, l) \in Nat /\ g.unflushed[l] \in Nat
      /\ Cardinality(Missing(g, l, name)) \in Nat
  BY <1>1, LoggerTyped, GetTyped, MissingFinite DEF Threshold, AtLeastOne
<1>3. CASE Missing(g, l, name) = {}
  BY <1>1, <1>2, <1>3, FS_EmptySet DEF Bounded
<1>4. CASE Missing(g, l, name) # {}
  <2> DEFINE id == Get(g.fileStream, l)
  <2>1. /\ id # NoStream /\ g.streams[id].file = name
        /\ Cardinality(Missing(g, l, name)) <=
             IF g.streams[id].failed THEN Threshold(g, l) ELSE g.unflushed[l]
    BY <1>1, <1>4 DEF CountedIn
  <2>2. id \in 1 .. Len(g.streams)
    BY <1>1, <2>1, StreamOfLevel
  <2>3. g.streams[id].failed => FailedIn(g, name)
    BY <2>1, <2>2 DEF FailedIn
  <2> HIDE DEF id
  <2> QED
    BY <1>1, <1>2, <2>1, <2>3 DEF Bounded
<1> QED
  BY <1>3, <1>4

\* What is in a file is the beginning of what was logged to it.
LEMMA WholePrefix ==
  ASSUME NEW g, InvLog(g), NEW name \in FileNames
  PROVE  IsPrefix(g.disk[name], g.logged[name])
<1>1. g \in Logger /\ Whole(g)
  BY DEF InvLog
<1>2. g.disk[name] \in Seq(LogLine)
  BY <1>1, LoggerTyped
<1>3. CASE g.disk[name] = g.logged[name]
  BY <1>2, <1>3, WholeIsPrefix
<1>4. CASE g.disk[name] # g.logged[name]
  <2>1. PICK id \in 1 .. Len(g.streams) : g.streams[id].file = name
    BY <1>1, <1>4 DEF Whole, WholeFile
  <2>2. PICK rest \in Seq(LogLine) : g.disk[name] \o rest = g.logged[name]
    BY <1>1, <2>1 DEF Whole, WholeStream
  <2>3. IsPrefix(g.disk[name], g.disk[name] \o rest)
    BY <1>2, JoinedIsPrefix
  <2> QED
    BY <2>2, <2>3
<1> QED
  BY <1>3, <1>4

\* The end of a process, whatever the disk refuses of what the streams hold.
LEMMA FlushAllFlushes ==
  ASSUME NEW g, InvLog(g), NEW h \in FlushAll(g)
  PROVE  Flushed(h)
<1>1. /\ g \in Logger /\ Joined(g) /\ Rooted(g.fileStream) /\ Rooted(g.logFlushThreshold)
      /\ Whole(g) /\ \A l \in Level : Counted(g, l)
  BY DEF InvLog
<1>2. /\ g.streams \in Seq(FileStream) /\ Len(g.streams) \in Nat
      /\ DOMAIN g.streams = 1 .. Len(g.streams)
      /\ g.disk \in [FileNames -> Seq(LogLine)] /\ g.logged \in [FileNames -> Seq(LogLine)]
      /\ \A id \in 1 .. Len(g.streams) :
           /\ g.streams[id] \in FileStream /\ g.streams[id].buffer \in Seq(LogLine)
           /\ g.streams[id].file \in FileNames /\ g.streams[id].failed \in BOOLEAN
  BY <1>1, LoggerTyped
<1>3. PICK refused \in SUBSET {name \in FileNames : Held(g, name) # <<>>} : h = Close(g, refused)
  BY DEF FlushAll
<1> DEFINE written == [name \in FileNames |-> IF name \in refused THEN g.disk[name]
                                              ELSE g.disk[name] \o Held(g, name)]
           closed == [id \in DOMAIN g.streams |->
                        [g.streams[id] EXCEPT
                           !.buffer = <<>>,
                           !.failed = g.streams[id].failed \/ g.streams[id].file \in refused]]
<1>4. /\ h.disk = written /\ h.streams = closed
      /\ h = [g EXCEPT !.disk = h.disk, !.streams = h.streams]
      /\ h.reference = g.reference /\ h.fileStream = g.fileStream
      /\ h.logFlushThreshold = g.logFlushThreshold /\ h.logged = g.logged
  <2>1. h = [g EXCEPT !.disk = written, !.streams = closed]
    BY <1>3 DEF Close
  <2> HIDE DEF written, closed
  <2> QED
    BY <1>1, <2>1 DEF Logger
<1>5. ASSUME NEW id \in 1 .. Len(g.streams)
      PROVE  /\ closed[id] \in FileStream /\ closed[id].file = g.streams[id].file
             /\ closed[id].failed <=> g.streams[id].failed \/ g.streams[id].file \in refused
  <2> DEFINE s == g.streams[id]
             fails == s.failed \/ s.file \in refused
  <2>1. closed[id] = [s EXCEPT !.buffer = <<>>, !.failed = fails] /\ s \in FileStream
    BY <1>2 DEF FileStream
  <2>2. <<>> \in Seq(LogLine) /\ fails \in BOOLEAN
    BY <1>2
  <2>3. fails <=> s.failed \/ s.file \in refused
    OBVIOUS
  <2> HIDE DEF closed, s, fails
  <2>4. closed[id] \in FileStream /\ closed[id].file = s.file /\ closed[id].failed = fails
    BY <2>1, <2>2 DEF FileStream
  <2> QED
    BY <2>3, <2>4 DEF s
<1>6. closed \in Seq(FileStream) /\ Len(closed) = Len(g.streams)
  <2> DEFINE N == Len(g.streams)
  <2>1. closed \in [1 .. N -> FileStream] /\ N \in Nat
    BY <1>2, <1>5
  <2> HIDE DEF closed, N
  <2>2. closed \in Seq(FileStream) /\ Len(closed) = N
    BY <2>1
  <2> QED
    BY <2>2 DEF N
<1> DEFINE Ends(name) ==
             /\ h.disk[name] \in Seq(LogLine) /\ Len(g.disk[name]) <= Len(h.disk[name])
             /\ h.disk[name] = g.logged[name] \/ FailedIn(h, name)
<1>7. \A name \in FileNames : FailedIn(g, name) => FailedIn(h, name)
  <2> HIDE DEF closed
  <2> QED
    BY <1>4, <1>5, <1>6 DEF FailedIn
<1>8. ASSUME NEW name \in FileNames PROVE Ends(name)
  <2> DEFINE a == g.disk[name]
             c == g.logged[name]
  <2>1. /\ h.disk[name] = IF name \in refused THEN a ELSE a \o Held(g, name)
        /\ a \in Seq(LogLine) /\ c \in Seq(LogLine)
    BY <1>2, <1>4
  <2>2. CASE \A id \in 1 .. Len(g.streams) : g.streams[id].file # name
    <3>1. Held(g, name) = <<>> /\ a = c /\ name \notin refused
      BY <1>1, <2>2, HeldByOne DEF Whole, WholeFile
    <3> HIDE DEF a, c
    <3>2. a \o <<>> = a
      BY <2>1
    <3>3. h.disk[name] = c
      BY <2>1, <3>1, <3>2
    <3> QED
      BY <2>1, <3>1, <3>3 DEF a, c
  <2>3. CASE \E id \in 1 .. Len(g.streams) : g.streams[id].file = name
    <3>1. PICK id \in 1 .. Len(g.streams) : g.streams[id].file = name
      BY <2>3
    <3>2. Held(g, name) = g.streams[id].buffer /\ g.streams[id].buffer \in Seq(LogLine)
      BY <1>1, <1>2, <3>1, HeldByOne
    <3>3. g.streams[id].failed \/ name \in refused => FailedIn(h, name)
      <4> HIDE DEF closed
      <4> QED
        BY <1>4, <1>5, <1>6, <3>1 DEF FailedIn
    <3>4. ~g.streams[id].failed => a \o Held(g, name) = c
      BY <1>1, <3>1, <3>2 DEF Whole, WholeStream
    <3> HIDE DEF a, c
    <3>5. CASE name \in refused
      BY <2>1, <3>3, <3>5 DEF a
    <3>6. CASE name \notin refused
      <4>1. a \o Held(g, name) \in Seq(LogLine) /\ Len(a) <= Len(a \o Held(g, name))
        BY <2>1, <3>2, JoinedIsLonger
      <4> QED
        BY <2>1, <3>3, <3>4, <3>6, <4>1 DEF a, c
    <3> QED
      BY <3>5, <3>6
  <2> QED
    BY <2>2, <2>3
<1>9. h.disk \in [FileNames -> Seq(LogLine)]
  BY <1>4, <1>8
<1> HIDE DEF closed, written
<1>10. h \in Logger
  BY <1>1, <1>4, <1>6, <1>9 DEF Logger, Disk
<1>11. Joined(h)
  BY <1>1, <1>4, <1>5, <1>6 DEF Joined
<1>12. ASSUME NEW name \in FileNames, NEW l \in Level PROVE Bounded(h, l, name)
  <2>1. Len(g.disk[name]) <= Len(h.disk[name])
    BY <1>8
  <2>2. Cardinality(Missing(h, l, name)) <= Cardinality(Missing(g, l, name))
    BY <1>1, <1>4, <1>10, <2>1, FewerMissing
  <2>3. Bounded(g, l, name)
    BY CountedBounds
  <2>4. /\ Threshold(g, l) \in Nat /\ Cardinality(Missing(g, l, name)) \in Nat
        /\ Cardinality(Missing(h, l, name)) \in Nat /\ Threshold(h, l) = Threshold(g, l)
    BY <1>1, <1>4, <1>10, LoggerTyped, GetTyped, MissingFinite DEF Threshold, AtLeastOne
  <2>5. FailedIn(g, name) => FailedIn(h, name)
    BY <1>7
  <2> QED
    BY <2>2, <2>3, <2>4, <2>5 DEF Bounded
<1>13. \A name \in FileNames : FailedIn(h, name) \/ h.disk[name] = h.logged[name]
  BY <1>4, <1>8
<1> QED
  BY <1>10, <1>11, <1>12, <1>13 DEF Flushed

-----------------------------------------------------------------------------
(* The process                                                             *)

ProcInv ==
  /\ file \in Files /\ lines \in Nat /\ log \in Logger
  /\ proc = "init" => Built(log)
  /\ proc # "returned" => InvLog(log)
  /\ proc = "returned" => Flushed(log)

\* It holds at the start.
LEMMA ProcInvInit == Init => ProcInv
<1> SUFFICES ASSUME Init PROVE ProcInv
  OBVIOUS
<1>1. [name \in FileNames |-> <<>>] \in Disk
  BY DEF Disk
<1>2. Built(log)
  BY <1>1, NewLoggerBuilt DEF Init
<1>3. InvLog(log) /\ log \in Logger
  BY <1>2, BuiltInv DEF InvLog
<1> QED
  BY <1>2, <1>3 DEF Init, ProcInv

\* A fatal line that is logged, whatever the process does then.
LEMMA LogFatalKeeps ==
  ASSUME NEW g, InvLog(g), NEW otherwise, LogFatal(g, otherwise), lines \in Nat
  PROVE  InvLog(log') /\ lines' \in Nat /\ proc' \in {"aborted", otherwise}
<1> DEFINE n == lines + 2
<1>1. /\ log' \in DispatchFatal(g, n) /\ n \in Nat
      /\ proc' \in {"aborted", otherwise} /\ lines' = lines + 3
  BY DEF LogFatal
<1> HIDE DEF n
<1>2. InvLog(log')
  BY <1>1, FatalKeeps
<1> QED
  BY <1>1, <1>2

\* A line of a handler.
LEMMA DebugLineKeeps ==
  ASSUME InvLog(log), lines \in Nat,
         NEW g \in Dispatch(log, "DEBUG", <<"DEBUG", lines + 1>>)
  PROVE  InvLog(g)
<1> DEFINE n == lines + 1
<1>1. n \in Nat /\ "DEBUG" \in Level /\ g \in Dispatch(log, "DEBUG", <<"DEBUG", n>>)
  BY LoggingAssumption
<1> HIDE DEF n
<1> QED
  BY <1>1, DispatchKeeps

\* The same, for a handler that logs one.
LEMMA LogDebugKeeps ==
  ASSUME InvLog(log), LogDebug, lines \in Nat
  PROVE  InvLog(log') /\ lines' \in Nat
BY DebugLineKeeps DEF LogDebug

\* Each action keeps the invariant.
LEMMA ProcInvNext ==
  ASSUME ProcInv, Next
  PROVE  ProcInv'
<1>1. /\ file \in Files /\ lines \in Nat /\ log \in Logger
      /\ proc = "init" => Built(log)
      /\ proc # "returned" => InvLog(log)
      /\ proc = "returned" => Flushed(log)
  BY DEF ProcInv
<1> DEFINE Goes == /\ file' \in Files /\ lines' \in Nat /\ InvLog(log')
                   /\ proc' \notin {"init", "returned"}
<1>2. ASSUME Goes PROVE ProcInv'
  <2>1. log' \in Logger
    BY <1>2 DEF InvLog
  <2> QED
    BY <1>2, <2>1 DEF ProcInv
<1>3. CASE ReadSettings
  <2>1. Built(log) /\ proc' = "configured" /\ log' = ConfigureLogger(log, file)
    BY <1>1, <1>3 DEF ReadSettings
  <2>2. log \in Logger /\ Joined(log) /\ Fresh(log)
    BY <2>1 DEF Built, Building
  <2>3. InvLog(log')
    BY <1>1, <2>1, <2>2, ConfigureBuilt, BuiltInv
  <2> QED
    BY <1>1, <1>2, <1>3, <2>1, <2>3 DEF ReadSettings
<1>4. CASE LoadGame
  <2>1. InvLog(log') /\ proc' \in {"loaded", "aborted"}
    BY <1>1, <1>4 DEF LoadGame
  <2> QED
    BY <1>1, <1>2, <1>4, <2>1 DEF LoadGame
<1>5. CASE StartServer
  <2>1. InvLog(log) /\ file' = file
    BY <1>1, <1>5 DEF StartServer
  <2>2. CASE LogFatal(log, "run")
    <3>1. InvLog(log') /\ lines' \in Nat /\ proc' \in {"aborted", "run"}
      BY <1>1, <2>1, <2>2, LogFatalKeeps
    <3> QED
      BY <1>1, <1>2, <2>1, <3>1
  <2>3. CASE proc' = "run" /\ UNCHANGED <<log, lines>>
    BY <1>1, <1>2, <2>1, <2>3
  <2> QED
    BY <1>5, <2>2, <2>3 DEF StartServer
<1>6. CASE Return
  <2>1. InvLog(log) /\ proc' = "returned" /\ UNCHANGED <<file, lines>>
    BY <1>1, <1>6 DEF Return
  <2>2. log' \in FlushAll(log)
    BY <1>6 DEF Return
  <2>3. Flushed(log')
    BY <2>1, <2>2, FlushAllFlushes
  <2> QED
    BY <1>1, <2>1, <2>3 DEF ProcInv, Flushed
<1>7. CASE OnAccept
  <2>1. InvLog(log) /\ proc' = "run" /\ UNCHANGED <<file, log, lines>>
    BY <1>1, <1>7 DEF OnAccept
  <2> QED
    BY <1>1, <1>2, <2>1
<1>8. CASE OnMessage
  <2>1. InvLog(log) /\ proc' = "run" /\ LogDebug /\ file' = file
    BY <1>1, <1>8 DEF OnMessage, Handling
  <2> QED
    BY <1>1, <1>2, <2>1, LogDebugKeeps
<1>9. CASE OnClose
  <2>1. InvLog(log) /\ proc' = "run" /\ file' = file /\ (LogDebug \/ UNCHANGED <<log, lines>>)
    BY <1>1, <1>9 DEF OnClose, Handling
  <2> QED
    BY <1>1, <1>2, <2>1, LogDebugKeeps
<1>10. CASE HandleStopServer
  <2>1. InvLog(log) /\ proc' = "stopped" /\ LogDebug /\ file' = file
    BY <1>1, <1>10 DEF HandleStopServer, Handling
  <2> QED
    BY <1>1, <1>2, <2>1, LogDebugKeeps
<1>11. CASE HandleGameTooEarly
  <2>1. InvLog(log) /\ file' = file
    BY <1>1, <1>11 DEF HandleGameTooEarly, Handling
  <2>2. PICK g \in Dispatch(log, "DEBUG", <<"DEBUG", lines + 1>>) : LogFatal(g, "aborted")
    BY <1>11 DEF HandleGameTooEarly
  <2>3. InvLog(g)
    BY <1>1, <2>1, DebugLineKeeps
  <2>4. InvLog(log') /\ lines' \in Nat /\ proc' \in {"aborted", "aborted"}
    BY <1>1, <2>2, <2>3, LogFatalKeeps
  <2> QED
    BY <1>1, <1>2, <2>1, <2>4
<1>12. CASE Restart
  <2>1. proc' = "init" /\ log' = NewLogger(log.disk) /\ UNCHANGED <<file, lines>>
    BY <1>12 DEF Restart
  <2>2. log.disk \in Disk
    BY <1>1 DEF Logger
  <2>3. Built(log') /\ InvLog(log') /\ log' \in Logger
    BY <2>1, <2>2, NewLoggerBuilt, BuiltInv DEF InvLog
  <2> QED
    BY <1>1, <2>1, <2>3 DEF ProcInv
<1> QED
  BY <1>3, <1>4, <1>5, <1>6, <1>7, <1>8, <1>9, <1>10, <1>11, <1>12 DEF Next

\* The invariant of the process: what its logger is between two steps.
THEOREM ProcessInductive == Spec => []ProcInv
<1>1. ASSUME ProcInv, [Next]_vars PROVE ProcInv'
  <2>1. CASE Next
    BY <1>1, <2>1, ProcInvNext
  <2>2. CASE UNCHANGED vars
    <3>1. file' = file /\ lines' = lines /\ log' = log /\ proc' = proc
      BY <2>2 DEF vars
    <3> QED
      BY <1>1, <3>1 DEF ProcInv
  <2> QED
    BY <1>1, <2>1, <2>2
<1> QED
  BY <1>1, ProcInvInit, PTL DEF Spec

\* What the invariant says of one file.
LEMMA InvKeepsLines ==
  ASSUME ProcInv, NEW name \in FileNames
  PROVE  /\ ~Failed(name) =>
              /\ proc = "returned" => log.disk[name] = log.logged[name]
              /\ proc \notin Gone => log.disk[name] \o Held(log, name) = log.logged[name]
         /\ (Failed(name) /\ proc = "returned") \/ IsPrefix(log.disk[name], log.logged[name])
<1>1. /\ log \in Logger /\ log.disk[name] \in Seq(LogLine)
      /\ DOMAIN log.streams = 1 .. Len(log.streams)
  BY LoggerTyped DEF ProcInv
<1>2. CASE proc # "returned"
  <2>1. InvLog(log) /\ Joined(log) /\ Whole(log) /\ IsPrefix(log.disk[name], log.logged[name])
    BY <1>2, WholePrefix DEF ProcInv, InvLog
  <2>2. ASSUME ~Failed(name) PROVE log.disk[name] \o Held(log, name) = log.logged[name]
    <3>1. CASE \A id \in 1 .. Len(log.streams) : log.streams[id].file # name
      <4> DEFINE a == log.disk[name]
                 b == Held(log, name)
      <4>1. a \in Seq(LogLine) /\ b = <<>> /\ a = log.logged[name]
        BY <1>1, <2>1, <3>1, HeldByOne DEF Whole, WholeFile
      <4> HIDE DEF a, b
      <4>2. a \o b = a
        BY <4>1
      <4> QED
        BY <4>1, <4>2 DEF a, b
    <3>2. CASE \E id \in 1 .. Len(log.streams) : log.streams[id].file = name
      <4>1. PICK id \in 1 .. Len(log.streams) : log.streams[id].file = name
        BY <3>2
      <4>2. Held(log, name) = log.streams[id].buffer /\ ~log.streams[id].failed
        BY <1>1, <2>1, <2>2, <4>1, HeldByOne DEF Failed
      <4> QED
        BY <2>1, <4>1, <4>2 DEF Whole, WholeStream
    <3> QED
      BY <3>1, <3>2
  <2> QED
    BY <1>2, <2>1, <2>2
<1>3. CASE proc = "returned"
  <2>1. Flushed(log) /\ proc \in Gone
    BY <1>3 DEF ProcInv, Gone
  <2>2. ~ Failed(name) => log.disk[name] = log.logged[name]
    BY <1>1, <2>1 DEF Flushed, FailedIn, Failed
  <2>3. ~ Failed(name) => IsPrefix(log.disk[name], log.logged[name])
    BY <1>1, <2>2, WholeIsPrefix
  <2> QED
    BY <1>3, <2>1, <2>2, <2>3
<1> QED
  BY <1>2, <1>3

\* Whatever is configured and whatever the disk refuses, a file is at any time a
\* beginning of what was logged to it, until a stream that failed is closed; unless
\* its stream failed the rest is in the stream's buffer, until the process aborts,
\* and when it has returned there is no rest (easylogging++.h:3025-3060, 3978-4014).
THEOREM ProcessLinesKept == Spec => []LinesKept
<1>1. ProcInv => LinesKept
  BY InvKeepsLines DEF LinesKept
<1> QED
  BY <1>1, ProcessInductive, PTL

\* For any thresholds: of the lines of a level fewer than its flush threshold are
\* not in the file, none if every line is flushed, and one more only if the stream
\* has failed, also when it is the flush of a line that was taken that failed and the
\* count was reset (easylogging++.h:3486-3498, 3992-4001).
THEOREM ProcessLossBounded == Spec => []LossBounded
<1>1. ASSUME ProcInv PROVE LossBounded
  <2>1. ASSUME NEW name \in FileNames, NEW l \in Level PROVE Bounded(log, l, name)
    <3>1. CASE proc # "returned"
      BY <1>1, <3>1, CountedBounds DEF ProcInv
    <3>2. CASE proc = "returned"
      BY <1>1, <3>2 DEF ProcInv, Flushed
    <3> QED
      BY <3>1, <3>2
  <2>2. DOMAIN log.streams = 1 .. Len(log.streams)
    BY <1>1, LoggerTyped DEF ProcInv
  <2>3. \A name \in FileNames : FailedIn(log, name) <=> Failed(name)
    BY <2>2 DEF FailedIn, Failed
  <2> QED
    BY <2>1, <2>3 DEF LossBounded, Bounded, Threshold, AtLeastOne
<1> QED
  BY <1>1, ProcessInductive, PTL

-----------------------------------------------------------------------------
(* What a configuration says                                               *)

\* Within a setting, GLOBAL was registered before the level.
Led(c, x, t) == \A i, j \in DOMAIN c.keys :
                  c.keys[i] = <<"GLOBAL", t>> /\ c.keys[j] = <<x, t>> => i < j

\* The names of levels, and what no level is called.
LEMMA LevelsKnown ==
  /\ "GLOBAL" \in Where /\ Level \subseteq Where /\ "GLOBAL" \notin Level
  /\ "UNKNOWN" \notin Where
  /\ \A x \in Where, t \in Type : <<x, t>> \in Key
BY LoggingAssumption DEF Where, Key

\* What one entry changes.
LEMMA PutOneSays ==
  ASSUME NEW c \in Conf, NEW key \in Key, NEW v
  PROVE  /\ DOMAIN PutOne(c, key, v).of = DOMAIN c.of \cup {key}
         /\ PutOne(c, key, v).of[key] = v
         /\ \A k \in DOMAIN c.of : k # key => PutOne(c, key, v).of[k] = c.of[k]
         /\ \A x \in Level, t \in Type :
              /\ Led(c, x, t)
              /\ key # <<"GLOBAL", t>> \/ key \in DOMAIN c.of \/ <<x, t>> \notin DOMAIN c.of
              => Led(PutOne(c, key, v), x, t)
<1> DEFINE d == PutOne(c, key, v)
<1>1. d.of = With(c.of, key, v)
  BY DEF PutOne
<1>2. /\ d.keys = IF key \in DOMAIN c.of THEN c.keys ELSE Append(c.keys, key)
      /\ c.keys \in Seq(Key) /\ Len(c.keys) \in Nat /\ DOMAIN c.keys = 1 .. Len(c.keys)
      /\ \A k \in Key : k \in DOMAIN c.of <=> \E i \in DOMAIN c.keys : c.keys[i] = k
  BY DEF PutOne, Conf
<1> HIDE DEF d
<1>3. /\ DOMAIN d.of = DOMAIN c.of \cup {key} /\ d.of[key] = v
      /\ \A k \in DOMAIN c.of : k # key => d.of[k] = c.of[k]
  <2>1. /\ DOMAIN With(c.of, key, v) = DOMAIN c.of \cup {key} /\ With(c.of, key, v)[key] = v
        /\ \A k \in DOMAIN c.of : k # key => With(c.of, key, v)[k] = c.of[k]
    BY DEF With
  <2> QED
    BY <1>1, <2>1, Zenon
<1>4. ASSUME NEW x \in Level, NEW t \in Type, Led(c, x, t),
             key # <<"GLOBAL", t>> \/ key \in DOMAIN c.of \/ <<x, t>> \notin DOMAIN c.of
      PROVE  Led(d, x, t)
  <2>1. CASE key \in DOMAIN c.of
    BY <1>2, <1>4, <2>1 DEF Led
  <2>2. CASE key \notin DOMAIN c.of
    <3> DEFINE n == Len(c.keys)
               G == <<"GLOBAL", t>>
               K == <<x, t>>
    <3>1. /\ n \in Nat /\ DOMAIN d.keys = 1 .. n + 1 /\ d.keys[n + 1] = key
          /\ \A i \in 1 .. n : d.keys[i] = c.keys[i]
      BY <1>2, <2>2
    <3>2. G \in Key /\ K \in Key /\ G # K
      BY LevelsKnown
    <3>3. \A i, j \in 1 .. n : c.keys[i] = G /\ c.keys[j] = K => i < j
      BY <1>2, <1>4 DEF Led
    <3>4. key # G \/ \A j \in 1 .. n : c.keys[j] # K
      BY <1>2, <1>4, <2>2, <3>2
    <3>5. \A i \in 1 .. n : c.keys[i] # key
      BY <1>2, <2>2
    <3> HIDE DEF n, G, K
    <3>6. ASSUME NEW i \in 1 .. n + 1, NEW j \in 1 .. n + 1, d.keys[i] = G, d.keys[j] = K
          PROVE  i < j
      <4>1. i # j
        BY <3>2, <3>6
      <4>2. CASE i \in 1 .. n /\ j \in 1 .. n
        BY <3>1, <3>3, <3>6, <4>2
      <4>3. CASE i \in 1 .. n /\ j = n + 1
        BY <3>1, <4>3
      <4>4. CASE i = n + 1 /\ j \in 1 .. n
        BY <3>1, <3>4, <3>6, <4>4
      <4> QED
        BY <3>1, <4>1, <4>2, <4>3, <4>4
    <3> QED
      BY <3>1, <3>6 DEF Led, G, K
  <2> QED
    BY <2>1, <2>2
<1>5. \A x \in Level, t \in Type :
        /\ Led(c, x, t)
        /\ key # <<"GLOBAL", t>> \/ key \in DOMAIN c.of \/ <<x, t>> \notin DOMAIN c.of
        => Led(d, x, t)
  BY <1>4
<1> QED
  BY <1>3, <1>5 DEF d

\* The entries that are put for a level, or for GLOBAL and every level.
Touched(l, t) == IF l = "GLOBAL" THEN {<<x, t>> : x \in Where} ELSE {<<l, t>>}

\* What putting a value changes.
PutRight(d, c, l, type, v) ==
  /\ DOMAIN d.of = DOMAIN c.of \cup Touched(l, type)
  /\ \A k \in Touched(l, type) : d.of[k] = v
  /\ \A k \in DOMAIN c.of \ Touched(l, type) : d.of[k] = c.of[k]
  /\ \A x \in Level, t \in Type :
       /\ Led(c, x, t)
       /\ l # "GLOBAL" \/ t # type \/ <<"GLOBAL", t>> \in DOMAIN c.of \/ <<x, t>> \notin DOMAIN c.of
       => Led(d, x, t)

\* Putting a value, for one level or for all of them.
LEMMA PutSays ==
  ASSUME NEW c \in Conf, NEW l \in Where, NEW type \in Type, NEW v \in ValueOf(type), v \in Value
  PROVE  PutRight(Put(c, l, type, v), c, l, type, v)
<1>1. CASE l # "GLOBAL"
  <2>1. <<l, type>> \in Key
    BY LevelsKnown
  <2>2. Put(c, l, type, v) = PutOne(c, <<l, type>>, v) /\ Touched(l, type) = {<<l, type>>}
    BY <1>1 DEF Put, Touched
  <2>3. \A t \in Type : <<l, type>> # <<"GLOBAL", t>>
    BY <1>1
  <2> QED
    BY <2>1, <2>2, <2>3, PutOneSays DEF PutRight
<1>2. CASE l = "GLOBAL"
  <2> DEFINE G == <<"GLOBAL", type>>
             N == Len(LevelOrder)
             Stays(d) ==
               /\ G \in DOMAIN d.of /\ DOMAIN c.of \subseteq DOMAIN d.of
               /\ DOMAIN d.of \subseteq DOMAIN c.of \cup Touched(l, type)
               /\ d.of[G] = v
               /\ \A k \in DOMAIN c.of \ Touched(l, type) : d.of[k] = c.of[k]
               /\ \A x \in Level, t \in Type :
                    /\ Led(c, x, t)
                    /\ t # type \/ <<"GLOBAL", t>> \in DOMAIN c.of \/ <<x, t>> \notin DOMAIN c.of
                    => Led(d, x, t)
             S == {d \in Conf : Stays(d)}
  <2>1. /\ \A x \in Where : <<x, type>> \in Key /\ <<x, type>> \in Touched(l, type)
        /\ G \in Touched(l, type) /\ Touched(l, type) = {<<x, type>> : x \in Where}
        /\ G \in Key
    BY <1>2, LevelsKnown DEF Touched
  <2>2. PICK f : /\ f[0] = PutOne(c, G, v)
                 /\ \A n \in 1 .. N : f[n] = PutOne(f[n - 1], <<LevelOrder[n], type>>, v)
                 /\ \A n \in 0 .. N : f[n] \in Conf
                 /\ Put(c, l, type, v) = f[N]
    BY <1>2, PutWay
  <2>3. /\ N \in Nat /\ \A n \in 1 .. N : LevelOrder[n] \in Level
        /\ Level = {LevelOrder[n] : n \in 1 .. N}
    BY LoggingAssumption DEF Level, Range
  <2>4. f[0] \in S
    <3>1. f[0] \in Conf
      BY <2>2, <2>3
    <3>2. Stays(f[0])
      BY <2>1, <2>2, LevelsKnown, PutOneSays
    <3> QED
      BY <3>1, <3>2
  <2>5. ASSUME NEW d \in S, NEW x \in Level, PutOne(d, <<x, type>>, v) \in Conf
        PROVE  PutOne(d, <<x, type>>, v) \in S
    <3>1. x \in Where /\ <<x, type>> \in Key /\ <<x, type>> # G /\ <<x, type>> \in Touched(l, type)
      BY <2>1, LevelsKnown
    <3>2. \A t \in Type : <<x, type>> # <<"GLOBAL", t>>
      BY LevelsKnown
    <3>3. Stays(PutOne(d, <<x, type>>, v))
      BY <2>1, <3>1, <3>2, PutOneSays
    <3> QED
      BY <2>5, <3>3
  <2> HIDE DEF S, N
  <2>6. \A n \in 1 .. N : n - 1 \in 0 .. N /\ n \in 0 .. N
    BY <2>3
  <2>7. \A n \in 0 .. N : f[n] \in S
    <3>1. \A n \in 1 .. N : f[n - 1] \in S => f[n] \in S
      BY <2>2, <2>3, <2>5, <2>6
    <3> QED
      BY <2>3, <2>4, <3>1, Along
  <2>8. ASSUME NEW x \in Where
        PROVE  <<x, type>> \in DOMAIN f[N].of /\ f[N].of[<<x, type>>] = v
    <3> DEFINE K == <<x, type>>
               R == {d \in Conf : K \in DOMAIN d.of /\ d.of[K] = v}
    <3>1. CASE x = "GLOBAL"
      <4>1. f[N] \in S
        BY <2>3, <2>7
      <4> QED
        BY <3>1, <4>1 DEF S
    <3>2. CASE x # "GLOBAL"
      <4>1. x \in Level
        BY <3>2 DEF Where
      <4>2. PICK a \in 1 .. N : x = LevelOrder[a]
        BY <2>3, <4>1
      <4>3. a \in 0 .. N /\ a - 1 \in 0 .. N /\ f[a] = PutOne(f[a - 1], K, v)
        BY <2>2, <2>6, <4>2
      <4>4. f[a] \in R
        BY <2>1, <2>2, <4>3, PutOneSays
      <4>5. ASSUME NEW n \in a + 1 .. N, f[n - 1] \in R PROVE f[n] \in R
        <5>1. n \in 1 .. N /\ n \in 0 .. N /\ n - 1 \in 0 .. N
          BY <2>3, <4>3
        <5>2. <<LevelOrder[n], type>> \in Key
          BY <2>1, <2>3, <5>1, LevelsKnown
        <5> QED
          BY <2>2, <4>5, <5>1, <5>2, PutOneSays
      <4>6. f[N] \in R
        <5> HIDE DEF R
        <5> QED
          BY <2>3, <4>3, <4>4, <4>5, AlongFrom
      <4> QED
        BY <4>6
    <3> QED
      BY <3>1, <3>2
  <2>9. f[N] \in S
    BY <2>3, <2>7
  <2> HIDE DEF G
  <2> QED
    BY <1>2, <2>1, <2>2, <2>8, <2>9 DEF PutRight, S, G
<1> QED
  BY <1>1, <1>2

\* The value of a setting for GLOBAL or a level, if it is registered.
Has(c, x, t) == <<x, t>> \in DOMAIN c.of
Val(c, x, t) == c.of[<<x, t>>]

\* The same, seen from one setting of one level.
LEMMA PutGives ==
  ASSUME NEW c \in Conf, NEW l \in Where, NEW type \in Type, NEW v \in ValueOf(type), v \in Value,
         NEW x \in Where, NEW t \in Type
  PROVE  LET d == Put(c, l, type, v)
         IN  /\ t = type /\ l \in {x, "GLOBAL"} => Has(d, x, t) /\ Val(d, x, t) = v
             /\ ~ (t = type /\ l \in {x, "GLOBAL"}) =>
                  /\ Has(d, x, t) <=> Has(c, x, t)
                  /\ Has(c, x, t) => Val(d, x, t) = Val(c, x, t)
             /\ /\ x \in Level /\ Led(c, x, t)
                /\ l # "GLOBAL" \/ t # type \/ Has(c, "GLOBAL", t) \/ ~ Has(c, x, t)
                => Led(d, x, t)
<1> DEFINE d == Put(c, l, type, v)
           K == <<x, t>>
<1>1. PutRight(d, c, l, type, v)
  BY PutSays
<1> HIDE DEF d
<1>2. K \in Touched(l, type) <=> t = type /\ l \in {x, "GLOBAL"}
  BY LevelsKnown DEF Touched
<1>3. /\ K \in Touched(l, type) => K \in DOMAIN d.of /\ d.of[K] = v
      /\ K \notin Touched(l, type) => /\ K \in DOMAIN d.of <=> K \in DOMAIN c.of
                                      /\ K \in DOMAIN c.of => d.of[K] = c.of[K]
  <2> HIDE DEF K
  <2> QED
    BY <1>1 DEF PutRight
<1>4. /\ x \in Level /\ Led(c, x, t)
      /\ l # "GLOBAL" \/ t # type \/ Has(c, "GLOBAL", t) \/ ~ Has(c, x, t)
      => Led(d, x, t)
  BY <1>1 DEF PutRight, Has
<1> QED
  BY <1>2, <1>3, <1>4 DEF Has, Val, d

\* What a setting is before anything is read.
DefaultOf(t) == (CHOOSE d \in Range(Defaults) : d[1] = t)[2]

\* Every setting has one default.
LEMMA DefaultsKnown ==
  /\ \A n \in 1 .. 5 : DefaultOf(Defaults[n][1]) = Defaults[n][2]
  /\ \A n, m \in 1 .. 5 : Defaults[n][1] = Defaults[m][1] => n = m
  /\ Defaults[5][1] = "LOG_FLUSH_THRESHOLD"
<1>1. DOMAIN Defaults = 1 .. 5
  BY DEF Defaults
<1>2. /\ Defaults[1] = <<"ENABLED", TRUE>> /\ Defaults[2] = <<"FILENAME", DefaultFile>>
      /\ Defaults[3] = <<"TO_FILE", TRUE>> /\ Defaults[4] = <<"MAX_LOG_FILE_SIZE", 0>>
      /\ Defaults[5] = <<"LOG_FLUSH_THRESHOLD", 0>>
  BY DEF Defaults
<1>3. /\ Defaults[1][1] = "ENABLED" /\ Defaults[2][1] = "FILENAME" /\ Defaults[3][1] = "TO_FILE"
      /\ Defaults[4][1] = "MAX_LOG_FILE_SIZE" /\ Defaults[5][1] = "LOG_FLUSH_THRESHOLD"
  BY DEF Defaults
<1> HIDE DEF Defaults
<1>4. \A n, m \in 1 .. 5 : Defaults[n][1] = Defaults[m][1] => n = m
  <2>1. \A n \in 1 .. 5 : n = 1 \/ n = 2 \/ n = 3 \/ n = 4 \/ n = 5
    OBVIOUS
  <2> QED
    BY <1>3, <2>1
<1>5. ASSUME NEW n \in 1 .. 5 PROVE DefaultOf(Defaults[n][1]) = Defaults[n][2]
  <2> DEFINE e == CHOOSE d \in Range(Defaults) : d[1] = Defaults[n][1]
  <2>1. Range(Defaults) = {Defaults[m] : m \in 1 .. 5}
    BY <1>1 DEF Range
  <2>2. e \in Range(Defaults) /\ e[1] = Defaults[n][1]
    <3>1. Defaults[n] \in Range(Defaults)
      BY <2>1
    <3> QED
      BY <3>1
  <2> HIDE DEF e
  <2>3. PICK m \in 1 .. 5 : e = Defaults[m]
    BY <2>1, <2>2
  <2>4. m = n
    BY <1>4, <2>2, <2>3
  <2>5. DefaultOf(Defaults[n][1]) = e[2]
    BY DEF DefaultOf, e
  <2> QED
    BY <2>3, <2>4, <2>5
<1> QED
  BY <1>3, <1>4, <1>5

\* The defaults set everything for every level, for GLOBAL first.
LEMMA SetToDefaultSays ==
  ASSUME NEW x \in Level, NEW t \in Type
  PROVE  /\ Has(SetToDefault, x, t) /\ Has(SetToDefault, "GLOBAL", t)
         /\ Val(SetToDefault, x, t) = DefaultOf(t) /\ Led(SetToDefault, x, t)
<1> DEFINE Good(d, n) ==
             /\ \A y \in {x, "GLOBAL"} : Has(d, y, t) <=> \E i \in 1 .. n : Defaults[i][1] = t
             /\ Has(d, x, t) => Val(d, x, t) = DefaultOf(t)
             /\ Led(d, x, t)
<1>1. PICK f : /\ f[0] = NoEntries /\ \A n \in 1 .. 5 : f[n] = PutAlways(f[n - 1], Defaults[n])
               /\ \A n \in 0 .. 5 : f[n] \in Conf
               /\ SetToDefault = f[5]
  BY SetToDefaultWay
<1>2. x \in Where /\ "GLOBAL" \in Where
  BY LevelsKnown
<1> DEFINE T == {n \in 0 .. 5 : Good(f[n], n)}
<1>3. 0 \in T
  <2>1. DOMAIN NoEntries.of = {} /\ DOMAIN NoEntries.keys = {}
    BY DEF NoEntries
  <2> QED
    BY <1>1, <2>1 DEF Has, Led
<1>4. ASSUME NEW n \in 1 .. 5, n - 1 \in T PROVE n \in T
  <2> DEFINE type == Defaults[n][1]
             v == Defaults[n][2]
  <2>1. type \in Type /\ v \in ValueOf(type) /\ v \in Value /\ v = DefaultOf(type)
    BY DefaultsTyped, DefaultsKnown
  <2>2. f[n] = Put(f[n - 1], "GLOBAL", type, v) /\ f[n - 1] \in Conf /\ Good(f[n - 1], n - 1)
    BY <1>1, <1>4 DEF PutAlways
  <2>3. type = t => \A i \in 1 .. n - 1 : Defaults[i][1] # t
    <3>1. \A i \in 1 .. n - 1 : i \in 1 .. 5 /\ i # n
      OBVIOUS
    <3> QED
      BY <3>1, DefaultsKnown
  <2>4. (\E i \in 1 .. n : Defaults[i][1] = t)
          <=> type = t \/ \E i \in 1 .. n - 1 : Defaults[i][1] = t
    OBVIOUS
  <2> HIDE DEF type, v
  <2>5. \A y \in {x, "GLOBAL"} :
          /\ t = type => Has(f[n], y, t) /\ Val(f[n], y, t) = v
          /\ t # type => /\ Has(f[n], y, t) <=> Has(f[n - 1], y, t)
                         /\ Has(f[n - 1], y, t) => Val(f[n], y, t) = Val(f[n - 1], y, t)
    BY <1>2, <2>1, <2>2, PutGives
  <2>6. Led(f[n], x, t)
    <3>1. t # type \/ ~ Has(f[n - 1], x, t)
      BY <2>2, <2>3
    <3> QED
      BY <1>2, <2>1, <2>2, <3>1, PutGives
  <2>7. Good(f[n], n)
    BY <2>1, <2>2, <2>4, <2>5, <2>6
  <2> QED
    BY <2>7
<1>5. Good(f[5], 5)
  <2> HIDE DEF T
  <2>1. 0 .. 5 \subseteq T
    BY <1>3, <1>4, Climb
  <2> QED
    BY <2>1 DEF T
<1>6. \E i \in 1 .. 5 : Defaults[i][1] = t
  BY DefaultsTyped
<1> QED
  BY <1>1, <1>5, <1>6

\* A setting that GLOBAL has, or that is not among those that remain, stays as it
\* is; one that neither GLOBAL nor the level has gets its default.
LEMMA RemainingSays ==
  ASSUME NEW c \in Conf, NEW x \in Level, NEW t \in Type, Led(c, x, t)
  PROVE  LET d == SetRemainingToDefault(c)
         IN  /\ Has(c, "GLOBAL", t) \/ t = "LOG_FLUSH_THRESHOLD" =>
                  /\ Has(d, x, t) <=> Has(c, x, t)
                  /\ Has(d, "GLOBAL", t) <=> Has(c, "GLOBAL", t)
                  /\ Has(c, x, t) => Val(d, x, t) = Val(c, x, t)
                  /\ Led(d, x, t)
             /\ ~ Has(c, "GLOBAL", t) /\ t # "LOG_FLUSH_THRESHOLD" /\ ~ Has(c, x, t) =>
                  Has(d, x, t) /\ Val(d, x, t) = DefaultOf(t) /\ Led(d, x, t)
<1> DEFINE d == SetRemainingToDefault(c)
<1>1. PICK f : /\ f[0] = c /\ \A n \in 1 .. 4 : f[n] = PutIfNotExist(f[n - 1], Defaults[n])
               /\ \A n \in 0 .. 4 : f[n] \in Conf
               /\ d = f[4]
  BY SetRemainingWay
<1>2. x \in Where /\ "GLOBAL" \in Where
  BY LevelsKnown
\* one step
<1>3. ASSUME NEW n \in 1 .. 4
      PROVE  LET type == Defaults[n][1]
             IN  /\ type # "LOG_FLUSH_THRESHOLD"
                 /\ t # type \/ Has(f[n - 1], "GLOBAL", t) =>
                      /\ \A y \in {x, "GLOBAL"} :
                           /\ Has(f[n], y, t) <=> Has(f[n - 1], y, t)
                           /\ Has(f[n - 1], y, t) => Val(f[n], y, t) = Val(f[n - 1], y, t)
                      /\ Led(f[n - 1], x, t) => Led(f[n], x, t)
                 /\ t = type /\ ~ Has(f[n - 1], "GLOBAL", t) =>
                      /\ Has(f[n], x, t) /\ Has(f[n], "GLOBAL", t) /\ Val(f[n], x, t) = DefaultOf(t)
                      /\ Led(f[n - 1], x, t) /\ ~ Has(f[n - 1], x, t) => Led(f[n], x, t)
  <2> DEFINE type == Defaults[n][1]
             v == Defaults[n][2]
  <2>1. type \in Type /\ v \in ValueOf(type) /\ v \in Value /\ v = DefaultOf(type)
    BY DefaultsTyped, DefaultsKnown
  <2>2. f[n - 1] \in Conf
    <3>1. n - 1 \in 0 .. 4
      OBVIOUS
    <3> QED
      BY <1>1, <3>1
  <2>3. f[n] = IF Has(f[n - 1], "GLOBAL", type) THEN f[n - 1] ELSE Put(f[n - 1], "GLOBAL", type, v)
    BY <1>1 DEF PutIfNotExist, Has
  <2>4. type # "LOG_FLUSH_THRESHOLD"
    <3>1. n \in 1 .. 5 /\ 5 \in 1 .. 5 /\ n # 5
      OBVIOUS
    <3> QED
      BY <3>1, DefaultsKnown
  <2> HIDE DEF type, v
  <2>5. CASE Has(f[n - 1], "GLOBAL", type)
    BY <2>3, <2>4, <2>5 DEF type
  <2>6. CASE ~ Has(f[n - 1], "GLOBAL", type)
    <3> DEFINE e == f[n - 1]
               h == Put(e, "GLOBAL", type, v)
    <3>1. f[n] = h
      BY <2>3, <2>6
    <3>2. \A y \in {x, "GLOBAL"} :
            /\ t = type => Has(h, y, t) /\ Val(h, y, t) = v
            /\ t # type => /\ Has(h, y, t) <=> Has(e, y, t)
                           /\ Has(e, y, t) => Val(h, y, t) = Val(e, y, t)
      BY <1>2, <2>1, <2>2, PutGives
    <3>3. Led(e, x, t) /\ (t # type \/ ~ Has(e, x, t)) => Led(h, x, t)
      BY <1>2, <2>1, <2>2, PutGives
    <3> QED
      BY <2>1, <2>4, <2>6, <3>1, <3>2, <3>3 DEF type
  <2> QED
    BY <2>5, <2>6
<1>4. ASSUME Has(c, "GLOBAL", t) \/ t = "LOG_FLUSH_THRESHOLD"
      PROVE  /\ Has(d, x, t) <=> Has(c, x, t)
             /\ Has(d, "GLOBAL", t) <=> Has(c, "GLOBAL", t)
             /\ Has(c, x, t) => Val(d, x, t) = Val(c, x, t)
             /\ Led(d, x, t)
  <2> DEFINE Same(e) == /\ \A y \in {x, "GLOBAL"} : Has(e, y, t) <=> Has(c, y, t)
                        /\ Has(c, x, t) => Val(e, x, t) = Val(c, x, t)
                        /\ Led(e, x, t)
             S == {e \in Conf : Same(e)}
  <2>1. f[0] \in S
    BY <1>1
  <2>2. ASSUME NEW n \in 1 .. 4, f[n - 1] \in S PROVE f[n] \in S
    <3>1. f[n] \in Conf
      BY <1>1
    <3>2. t # Defaults[n][1] \/ Has(f[n - 1], "GLOBAL", t)
      BY <1>3, <1>4, <2>2
    <3>3. Same(f[n])
      BY <1>3, <2>2, <3>2
    <3> QED
      BY <3>1, <3>3
  <2>3. f[4] \in S
    <3> HIDE DEF S
    <3>1. \A n \in 0 .. 4 : f[n] \in S
      BY <2>1, <2>2, Along
    <3> QED
      BY <3>1
  <2> QED
    BY <1>1, <2>3
<1>5. ASSUME ~ Has(c, "GLOBAL", t), t # "LOG_FLUSH_THRESHOLD", ~ Has(c, x, t)
      PROVE  Has(d, x, t) /\ Val(d, x, t) = DefaultOf(t) /\ Led(d, x, t)
  <2> DEFINE Good(e, n) ==
               /\ \A y \in {x, "GLOBAL"} : Has(e, y, t) <=> \E i \in 1 .. n : Defaults[i][1] = t
               /\ Has(e, x, t) => Val(e, x, t) = DefaultOf(t)
               /\ Led(e, x, t)
             T == {n \in 0 .. 4 : Good(f[n], n)}
  <2>1. 0 \in T
    BY <1>1, <1>5
  <2>2. ASSUME NEW n \in 1 .. 4, n - 1 \in T PROVE n \in T
    <3>1. Good(f[n - 1], n - 1)
      BY <2>2
    <3>2. Defaults[n][1] = t => \A i \in 1 .. n - 1 : Defaults[i][1] # t
      <4>1. n \in 1 .. 5 /\ \A i \in 1 .. n - 1 : i \in 1 .. 5 /\ i # n
        OBVIOUS
      <4> QED
        BY <4>1, DefaultsKnown
    <3>3. (\E i \in 1 .. n : Defaults[i][1] = t)
            <=> Defaults[n][1] = t \/ \E i \in 1 .. n - 1 : Defaults[i][1] = t
      OBVIOUS
    <3>4. CASE Defaults[n][1] = t
      <4>1. ~ Has(f[n - 1], x, t) /\ ~ Has(f[n - 1], "GLOBAL", t) /\ Led(f[n - 1], x, t)
        BY <3>1, <3>2, <3>4
      <4>2. /\ Has(f[n], x, t) /\ Has(f[n], "GLOBAL", t) /\ Val(f[n], x, t) = DefaultOf(t)
            /\ Led(f[n], x, t)
        BY <1>3, <3>4, <4>1
      <4> QED
        BY <3>3, <3>4, <4>2
    <3>5. CASE Defaults[n][1] # t
      <4>1. /\ \A y \in {x, "GLOBAL"} :
                 /\ Has(f[n], y, t) <=> Has(f[n - 1], y, t)
                 /\ Has(f[n - 1], y, t) => Val(f[n], y, t) = Val(f[n - 1], y, t)
            /\ Led(f[n - 1], x, t) => Led(f[n], x, t)
        BY <1>3, <3>5
      <4> QED
        BY <3>1, <3>3, <3>5, <4>1
    <3> QED
      BY <3>4, <3>5
  <2>3. Good(f[4], 4)
    <3> HIDE DEF T
    <3>1. 0 .. 4 \subseteq T
      BY <2>1, <2>2, Climb
    <3> QED
      BY <3>1 DEF T
  <2>4. \E i \in 1 .. 4 : Defaults[i][1] = t
    <3>1. PICK i \in 1 .. 5 : Defaults[i][1] = t
      BY DefaultsTyped
    <3>2. i # 5
      BY <1>5, <3>1, DefaultsKnown
    <3> QED
      BY <3>1, <3>2
  <2> QED
    BY <1>1, <2>3, <2>4
<1> QED
  BY <1>4, <1>5

\* A setting from the base replaces the default, if GLOBAL does not come after.
LEMMA FromBaseSays ==
  ASSUME NEW b \in Conf, NEW x \in Level, NEW t \in Type
  PROVE  LET r == SetFromBase(SetToDefault, b)
         IN  /\ Has(r, x, t) /\ Has(r, "GLOBAL", t) /\ Led(r, x, t)
             /\ Has(b, x, t) /\ Led(b, x, t) => Val(r, x, t) = Val(b, x, t)
             /\ ~ Has(b, x, t) /\ ~ Has(b, "GLOBAL", t) => Val(r, x, t) = DefaultOf(t)
<1> DEFINE r == SetFromBase(SetToDefault, b)
           N == Len(b.keys)
           at(n) == b.keys[n][1]
           type(n) == b.keys[n][2]
<1>1. PICK f : /\ f[0] = SetToDefault
               /\ \A n \in 1 .. N : f[n] = Put(f[n - 1], at(n), type(n), b.of[b.keys[n]])
               /\ \A n \in 0 .. N : f[n] \in Conf
               /\ r = f[N]
  BY SetToDefaultConf, SetFromBaseWay
<1>2. N \in Nat /\ x \in Where /\ "GLOBAL" \in Where
  BY Entries, LevelsKnown
<1>3. ASSUME NEW n \in 1 .. N
      PROVE  /\ n - 1 \in 0 .. N /\ f[n - 1] \in Conf /\ f[n] \in Conf
             /\ \A y \in {x, "GLOBAL"} :
                  /\ t = type(n) /\ at(n) \in {y, "GLOBAL"} =>
                       Has(f[n], y, t) /\ Val(f[n], y, t) = Val(b, at(n), t)
                  /\ ~ (t = type(n) /\ at(n) \in {y, "GLOBAL"}) =>
                       /\ Has(f[n], y, t) <=> Has(f[n - 1], y, t)
                       /\ Has(f[n - 1], y, t) => Val(f[n], y, t) = Val(f[n - 1], y, t)
             /\ Led(f[n - 1], x, t) /\ Has(f[n - 1], "GLOBAL", t) => Led(f[n], x, t)
  <2>1. n - 1 \in 0 .. N /\ n \in 0 .. N
    BY <1>2
  <2>2. /\ at(n) \in Where /\ type(n) \in Type /\ b.of[b.keys[n]] \in ValueOf(type(n))
        /\ b.of[b.keys[n]] \in Value /\ b.of[b.keys[n]] = Val(b, at(n), type(n))
    BY Entries DEF Val
  <2>3. f[n] = Put(f[n - 1], at(n), type(n), b.of[b.keys[n]]) /\ f[n - 1] \in Conf /\ f[n] \in Conf
    BY <1>1, <2>1
  <2> HIDE DEF N, at, type
  <2> QED
    BY <1>2, <2>1, <2>2, <2>3, PutGives
<1>4. Has(r, x, t) /\ Has(r, "GLOBAL", t) /\ Led(r, x, t)
  <2> DEFINE S == {d \in Conf : Has(d, x, t) /\ Has(d, "GLOBAL", t) /\ Led(d, x, t)}
  <2>1. f[0] \in S
    BY <1>1, SetToDefaultConf, SetToDefaultSays
  <2>2. ASSUME NEW n \in 1 .. N, f[n - 1] \in S PROVE f[n] \in S
    BY <1>3, <2>2
  <2> HIDE DEF S, N
  <2>3. \A n \in 0 .. N : f[n] \in S
    BY <1>2, <2>1, <2>2, Along
  <2>4. f[N] \in S
    BY <1>2, <2>3
  <2> QED
    BY <1>1, <2>4 DEF S
<1>5. ASSUME Has(b, x, t), Led(b, x, t) PROVE Val(r, x, t) = Val(b, x, t)
  <2> DEFINE R == {d \in Conf : Has(d, x, t) /\ Val(d, x, t) = Val(b, x, t)}
  <2>1. PICK a \in 1 .. N : b.keys[a] = <<x, t>>
    BY <1>5, Entries DEF Has
  <2>2. at(a) = x /\ type(a) = t /\ a \in 0 .. N
    BY <1>2, <2>1
  <2>3. f[a] \in R
    BY <1>3, <2>2
  <2>4. ASSUME NEW n \in a + 1 .. N, f[n - 1] \in R PROVE f[n] \in R
    <3>1. n \in 1 .. N /\ a < n
      BY <1>2, <2>1
    <3>2. ~ (type(n) = t /\ at(n) = "GLOBAL")
      <4>1. b.keys[n] = <<at(n), type(n)>> /\ DOMAIN b.keys = 1 .. N
        BY <3>1, Entries DEF Conf
      <4>2. b.keys[n] # <<"GLOBAL", t>>
        BY <1>2, <1>5, <2>1, <3>1, <4>1 DEF Led
      <4> QED
        BY <4>1, <4>2
    <3>3. CASE type(n) = t /\ at(n) = x
      BY <1>3, <3>1, <3>3
    <3>4. CASE ~ (type(n) = t /\ at(n) = x)
      BY <1>3, <2>4, <3>1, <3>2, <3>4
    <3> QED
      BY <3>3, <3>4
  <2> HIDE DEF R, N
  <2>5. f[N] \in R
    BY <1>2, <2>2, <2>3, <2>4, AlongFrom
  <2> QED
    BY <1>1, <2>5 DEF R
<1>6. ASSUME ~ Has(b, x, t), ~ Has(b, "GLOBAL", t) PROVE Val(r, x, t) = DefaultOf(t)
  <2> DEFINE S == {d \in Conf : Has(d, x, t) /\ Val(d, x, t) = DefaultOf(t)}
  <2>1. f[0] \in S
    BY <1>1, SetToDefaultConf, SetToDefaultSays
  <2>2. ASSUME NEW n \in 1 .. N, f[n - 1] \in S PROVE f[n] \in S
    <3>1. b.keys[n] = <<at(n), type(n)>> /\ b.keys[n] \in DOMAIN b.of
      BY Entries
    <3>2. ~ (type(n) = t /\ at(n) \in {x, "GLOBAL"})
      BY <1>6, <3>1 DEF Has
    <3> QED
      BY <1>3, <2>2, <3>2
  <2> HIDE DEF S, N
  <2>3. \A n \in 0 .. N : f[n] \in S
    BY <1>2, <2>1, <2>2, Along
  <2>4. f[N] \in S
    BY <1>2, <2>3
  <2> QED
    BY <1>1, <2>4 DEF S
<1> QED
  BY <1>4, <1>5, <1>6

-----------------------------------------------------------------------------
(* The file                                                                *)

\* A set of positions that is not empty has a last one.
LEMMA LastOne ==
  ASSUME NEW N \in Nat, NEW T, T \subseteq 1 .. N, T # {}
  PROVE  \E m \in T : \A k \in T : k <= m
<1> DEFINE R == {a \in Nat : N - a \in T}
<1>1. R \subseteq Nat /\ R # {}
  <2>1. PICK k \in T : TRUE
    OBVIOUS
  <2>2. N - k \in Nat /\ N - (N - k) = k
    BY <2>1
  <2>3. N - k \in R
    BY <2>2
  <2> QED
    BY <2>3
<1>2. PICK a \in R : \A b \in R : a <= b
  <2> HIDE DEF R
  <2> QED
    BY <1>1, LeastNat
<1>3. N - a \in T /\ a \in Nat
  BY <1>2
<1>4. ASSUME NEW k \in T PROVE k <= N - a
  <2>1. k \in 1 .. N /\ N - k \in Nat /\ N - (N - k) = k
    OBVIOUS
  <2>2. N - k \in R
    BY <2>1
  <2>3. a <= N - k
    BY <1>2, <2>2
  <2> QED
    BY <1>3, <2>1, <2>3
<1> QED
  BY <1>3, <1>4

\* The section that line n + 1 is in.
In(l, n) == \E j \in 1 .. n : /\ IsSection(file[j]) /\ file[j].section = l
                              /\ \A k \in j + 1 .. n : ~ IsSection(file[k])

\* The section of a line is the one it opens or that of the line before.
LEMMA InNext ==
  ASSUME NEW n \in Nat \ {0}, NEW l
  PROVE  In(l, n) <=> IF IsSection(file[n]) THEN file[n].section = l ELSE In(l, n - 1)
<1>1. CASE IsSection(file[n])
  <2>1. ASSUME In(l, n) PROVE file[n].section = l
    <3>1. PICK j \in 1 .. n : /\ IsSection(file[j]) /\ file[j].section = l
                              /\ \A k \in j + 1 .. n : ~ IsSection(file[k])
      BY <2>1 DEF In
    <3>2. j = n
      BY <1>1, <3>1
    <3> QED
      BY <3>1, <3>2
  <2>2. ASSUME file[n].section = l PROVE In(l, n)
    <3>1. n \in 1 .. n /\ n + 1 .. n = {}
      OBVIOUS
    <3> QED
      BY <1>1, <2>2, <3>1 DEF In
  <2> QED
    BY <1>1, <2>1, <2>2
<1>2. CASE ~ IsSection(file[n])
  <2>1. ASSUME In(l, n) PROVE In(l, n - 1)
    <3>1. PICK j \in 1 .. n : /\ IsSection(file[j]) /\ file[j].section = l
                              /\ \A k \in j + 1 .. n : ~ IsSection(file[k])
      BY <2>1 DEF In
    <3>2. j # n
      BY <1>2, <3>1
    <3>3. j \in 1 .. n - 1 /\ \A k \in j + 1 .. n - 1 : k \in j + 1 .. n
      BY <3>2
    <3> QED
      BY <3>1, <3>3 DEF In
  <2>2. ASSUME In(l, n - 1) PROVE In(l, n)
    <3>1. PICK j \in 1 .. n - 1 : /\ IsSection(file[j]) /\ file[j].section = l
                                  /\ \A k \in j + 1 .. n - 1 : ~ IsSection(file[k])
      BY <2>2 DEF In
    <3>2. j \in 1 .. n /\ \A k \in j + 1 .. n : k = n \/ k \in j + 1 .. n - 1
      OBVIOUS
    <3>3. \A k \in j + 1 .. n : ~ IsSection(file[k])
      BY <1>2, <3>1, <3>2
    <3> QED
      BY <3>1, <3>2, <3>3 DEF In
  <2> QED
    BY <1>2, <2>1, <2>2
<1> QED
  BY <1>1, <1>2

\* What the entries of the file are.
LEMMA ParseSays ==
  ASSUME file \in Files, NEW x \in Level, NEW t \in Type
  PROVE  LET p == ParseFromFile(file)
             own == LinesFor(x, t) \cup LinesFor("GLOBAL", t)
         IN  /\ Has(p, "GLOBAL", t) <=> LinesFor("GLOBAL", t) # {}
             /\ Has(p, x, t) <=> own # {}
             /\ own # {} => Val(p, x, t) = LastValue(x, t)
             /\ InOrder(x, t) => Led(p, x, t)
<1> DEFINE N == Len(file)
           X == LinesFor(x, t)
           G == LinesFor("GLOBAL", t)
           own == X \cup G
<1>1. PICK f : /\ f[0] = [level |-> "UNKNOWN", conf |-> NoEntries]
               /\ \A n \in 1 .. N : f[n] = ParseLine(f[n - 1], file[n])
               /\ \A n \in 0 .. N : f[n] \in Parser
               /\ ParseFromFile(file) = f[N].conf
  BY ParseWay
<1>2. /\ N \in Nat /\ DOMAIN file = 1 .. N /\ x \in Where /\ "GLOBAL" \in Where
      /\ "UNKNOWN" \notin Where /\ Where = Level \cup {"GLOBAL"} /\ x # "GLOBAL"
  BY FilesAssumption, LevelsKnown DEF Where
<1>3. \A n \in 1 .. N : /\ n - 1 \in 0 .. N /\ n \in 0 .. N
                        /\ f[n - 1].conf \in Conf /\ f[n].conf \in Conf
  BY <1>1, <1>2 DEF Parser
<1>4. \A n \in 0 .. N, l \in Where : f[n].level = l <=> In(l, n)
  <2> DEFINE T == {n \in 0 .. N : \A l \in Where : f[n].level = l <=> In(l, n)}
  <2>1. 0 \in T
    BY <1>1, <1>2 DEF In
  <2>2. ASSUME NEW n \in 1 .. N, n - 1 \in T PROVE n \in T
    <3>1. n \in Nat \ {0}
      BY <1>2
    <3>2. f[n].level = IF IsSection(file[n]) THEN LevelNamed(file[n]) ELSE f[n - 1].level
      BY <1>1, <1>3 DEF ParseLine, TypeKnown, Parser
    <3>3. \A l \in Where : LevelNamed(file[n]) = l <=> file[n].section = l
      BY <1>2 DEF LevelNamed
    <3>4. \A l \in Where :
            In(l, n) <=> IF IsSection(file[n]) THEN file[n].section = l ELSE In(l, n - 1)
      BY <3>1, InNext
    <3>5. \A l \in Where : f[n].level = l <=> In(l, n)
      BY <2>2, <3>2, <3>3, <3>4
    <3> QED
      BY <1>3, <3>5
  <2> HIDE DEF T
  <2>3. 0 .. N \subseteq T
    BY <1>2, <2>1, <2>2, Climb
  <2> QED
    BY <2>3 DEF T
<1>5. ASSUME NEW n \in 1 .. N, NEW l \in Where
      PROVE  n \in LinesFor(l, t) <=> /\ ~ IsSection(file[n]) /\ file[n].type = t
                                      /\ f[n - 1].level = l
  <2>1. f[n - 1].level = l <=> In(l, n - 1)
    BY <1>3, <1>4
  <2>2. n \in DOMAIN file
    BY <1>2
  <2> QED
    BY <2>1, <2>2 DEF LinesFor, In
\* one line
<1>6. ASSUME NEW n \in 1 .. N
      PROVE  LET c == f[n - 1].conf
                 d == f[n].conf
             IN  /\ n \in own => Has(d, x, t) /\ Val(d, x, t) = file[n].value
                 /\ n \notin own => /\ Has(d, x, t) <=> Has(c, x, t)
                                    /\ Has(c, x, t) => Val(d, x, t) = Val(c, x, t)
                 /\ n \in G => Has(d, "GLOBAL", t)
                 /\ n \notin G => (Has(d, "GLOBAL", t) <=> Has(c, "GLOBAL", t))
                 /\ Led(c, x, t) /\ (n \notin G \/ Has(c, "GLOBAL", t) \/ ~ Has(c, x, t)) =>
                      Led(d, x, t)
  <2> DEFINE c == f[n - 1].conf
             d == f[n].conf
             l == f[n - 1].level
             type == file[n].type
             v == file[n].value
  <2>1. /\ n \in X <=> ~ IsSection(file[n]) /\ type = t /\ l = x
        /\ n \in G <=> ~ IsSection(file[n]) /\ type = t /\ l = "GLOBAL"
    BY <1>2, <1>5
  <2>2. CASE IsSection(file[n]) \/ l = "UNKNOWN" \/ type \notin Type
    <3>1. d = c
      BY <1>1, <1>3, <2>2 DEF ParseLine, TypeKnown, Parser
    <3>2. n \notin X /\ n \notin G
      BY <1>2, <2>1, <2>2
    <3> HIDE DEF X, G, c, d
    <3> QED
      BY <3>1, <3>2 DEF c, d
  <2>3. CASE ~ IsSection(file[n]) /\ l # "UNKNOWN" /\ type \in Type
    <3>1. l \in Where /\ c \in Conf
      BY <1>1, <1>3, <2>3 DEF Parser
    <3>2. v \in ValueOf(type) /\ v \in Value
      <4>1. v \in ValueOf(type)
        BY <1>2, <2>3, FilesAssumption
      <4> QED
        BY <2>3, <4>1 DEF ValueOf, Value
    <3>3. d = Put(c, l, type, v)
      BY <1>1, <1>3, <2>3 DEF ParseLine, TypeKnown, Parser
    <3>4. /\ n \in X <=> type = t /\ l = x
          /\ n \in G <=> type = t /\ l = "GLOBAL"
      BY <2>1, <2>3
    <3> HIDE DEF X, G, c, d, l, type, v
    <3>5. \A y \in {x, "GLOBAL"} :
            /\ t = type /\ l \in {y, "GLOBAL"} => Has(d, y, t) /\ Val(d, y, t) = v
            /\ ~ (t = type /\ l \in {y, "GLOBAL"}) =>
                 /\ Has(d, y, t) <=> Has(c, y, t)
                 /\ Has(c, y, t) => Val(d, y, t) = Val(c, y, t)
      BY <1>2, <2>3, <3>1, <3>2, <3>3, PutGives
    <3>6. /\ Led(c, x, t)
          /\ l # "GLOBAL" \/ t # type \/ Has(c, "GLOBAL", t) \/ ~ Has(c, x, t)
          => Led(d, x, t)
      BY <1>2, <2>3, <3>1, <3>2, <3>3, PutGives
    <3> QED
      BY <1>2, <3>4, <3>5, <3>6 DEF c, d, v
  <2> QED
    BY <2>2, <2>3
<1> DEFINE Good(c, n) ==
             /\ Has(c, "GLOBAL", t) <=> \E i \in G : i <= n
             /\ Has(c, x, t) <=> \E i \in own : i <= n
             /\ \A i \in own : i <= n /\ (\A j \in own : j <= n => j <= i) =>
                                 Val(c, x, t) = file[i].value
             /\ InOrder(x, t) => Led(c, x, t)
           T == {n \in 0 .. N : Good(f[n].conf, n)}
<1>7. X \subseteq 1 .. N /\ G \subseteq 1 .. N
  BY <1>2 DEF LinesFor
<1>8. InOrder(x, t) <=> \/ X = {} \/ \E g \in G : \A i \in X : g < i
                        \/ t = "LOG_FLUSH_THRESHOLD" /\ G = {}
  BY DEF InOrder
<1> HIDE DEF X, G, N
<1>9. 0 \in T
  <2>1. DOMAIN NoEntries.of = {} /\ DOMAIN NoEntries.keys = {} /\ f[0].conf = NoEntries
    BY <1>1 DEF NoEntries
  <2>2. ~ Has(f[0].conf, "GLOBAL", t) /\ ~ Has(f[0].conf, x, t) /\ Led(f[0].conf, x, t)
    BY <2>1 DEF Has, Led
  <2>3. \A i \in own : ~ i <= 0
    BY <1>2, <1>7
  <2>4. Good(f[0].conf, 0)
    BY <2>2, <2>3
  <2> QED
    BY <1>2, <2>4
<1>10. ASSUME NEW n \in 1 .. N, n - 1 \in T PROVE n \in T
  <2> DEFINE c == f[n - 1].conf
             d == f[n].conf
  <2>1. Good(c, n - 1)
    BY <1>10
  <2>2. \A i \in own : i \in 1 .. N /\ (i <= n <=> i = n \/ i <= n - 1)
    BY <1>2, <1>7
  <2>3. /\ n \in own => Has(d, x, t) /\ Val(d, x, t) = file[n].value
        /\ n \notin own => /\ Has(d, x, t) <=> Has(c, x, t)
                           /\ Has(c, x, t) => Val(d, x, t) = Val(c, x, t)
        /\ n \in G => Has(d, "GLOBAL", t)
        /\ n \notin G => (Has(d, "GLOBAL", t) <=> Has(c, "GLOBAL", t))
        /\ Led(c, x, t) /\ (n \notin G \/ Has(c, "GLOBAL", t) \/ ~ Has(c, x, t)) => Led(d, x, t)
    BY <1>6
  <2> HIDE DEF c, d
  <2>4. (Has(d, "GLOBAL", t) <=> \E i \in G : i <= n) /\ (Has(d, x, t) <=> \E i \in own : i <= n)
    BY <2>1, <2>2, <2>3
  <2>5. ASSUME NEW i \in own, i <= n, \A j \in own : j <= n => j <= i
        PROVE  Val(d, x, t) = file[i].value
    <3>1. CASE n \in own
      <4>1. i = n
        BY <1>2, <2>2, <2>5, <3>1
      <4> QED
        BY <2>3, <3>1, <4>1
    <3>2. CASE n \notin own
      <4>1. i <= n - 1 /\ \A j \in own : j <= n - 1 => j <= i
        BY <2>2, <2>5, <3>2
      <4> QED
        BY <2>1, <2>3, <3>2, <4>1
    <3> QED
      BY <3>1, <3>2
  <2>6. ASSUME InOrder(x, t) PROVE Led(d, x, t)
    <3>1. n \notin G \/ Has(c, "GLOBAL", t) \/ ~ Has(c, x, t)
      <4> SUFFICES ASSUME n \in G, ~ Has(c, "GLOBAL", t), Has(c, x, t) PROVE FALSE
        OBVIOUS
      <4>1. \A i \in G : ~ i <= n - 1
        BY <2>1
      <4>2. PICK i \in X : i <= n - 1
        BY <2>1, <4>1
      <4>3. PICK g \in G : \A k \in X : g < k
        BY <1>8, <2>6, <4>2
      <4>4. g < i /\ g \in 1 .. N /\ i \in 1 .. N
        BY <2>2, <4>2, <4>3
      <4> QED
        BY <1>2, <4>1, <4>2, <4>4
    <3> QED
      BY <2>1, <2>3, <2>6, <3>1
  <2>7. Good(d, n)
    BY <2>4, <2>5, <2>6
  <2> QED
    BY <1>3, <2>7 DEF d
<1>11. Good(f[N].conf, N)
  <2> HIDE DEF T
  <2>1. 0 .. N \subseteq T
    BY <1>2, <1>9, <1>10, Climb
  <2>2. N \in T
    BY <1>2, <2>1
  <2> QED
    BY <2>2 DEF T
<1>12. \A i \in own : i <= N
  BY <1>2, <1>7
<1>13. ASSUME own # {} PROVE Val(f[N].conf, x, t) = LastValue(x, t)
  <2> DEFINE last == CHOOSE i \in own : \A j \in own : j <= i
  <2>1. own \subseteq 1 .. N
    BY <1>7
  <2>2. last \in own /\ \A j \in own : j <= last
    BY <1>2, <1>13, <2>1, LastOne
  <2>3. LastValue(x, t) = file[last].value
    BY <1>13 DEF LastValue, X, G
  <2> HIDE DEF last
  <2>4. last <= N /\ \A j \in own : j <= N => j <= last
    BY <1>12, <2>2
  <2> QED
    BY <1>11, <2>2, <2>3, <2>4
<1>14. /\ Has(f[N].conf, "GLOBAL", t) <=> G # {}
       /\ Has(f[N].conf, x, t) <=> own # {}
       /\ InOrder(x, t) => Led(f[N].conf, x, t)
  BY <1>11, <1>12
<1> QED
  BY <1>1, <1>13, <1>14 DEF X, G

\* What the process is configured with.
LEMMA ConfiguredSays ==
  ASSUME file \in Files, NEW x \in Level, NEW t \in Type
  PROVE  LET r == SetFromBase(SetToDefault, Configurations(file))
         IN  /\ Has(r, x, t) /\ Has(r, "GLOBAL", t) /\ Led(r, x, t)
             /\ Applies(x, t, Val(r, x, t))
<1> DEFINE p == ParseFromFile(file)
           b == SetRemainingToDefault(p)
           r == SetFromBase(SetToDefault, b)
           X == LinesFor(x, t)
           G == LinesFor("GLOBAL", t)
<1>1. /\ Has(p, "GLOBAL", t) <=> G # {}
      /\ Has(p, x, t) <=> X \cup G # {}
      /\ X \cup G # {} => Val(p, x, t) = LastValue(x, t)
      /\ InOrder(x, t) => Led(p, x, t)
  BY ParseSays
<1>2. p \in Conf /\ b \in Conf
  BY ParseConf, SetRemainingConf
<1>3. Configurations(file) = b
  BY DEF Configurations
<1>4. /\ Has(r, x, t) /\ Has(r, "GLOBAL", t) /\ Led(r, x, t)
      /\ Has(b, x, t) /\ Led(b, x, t) => Val(r, x, t) = Val(b, x, t)
      /\ ~ Has(b, x, t) /\ ~ Has(b, "GLOBAL", t) => Val(r, x, t) = DefaultOf(t)
  BY <1>2, FromBaseSays
<1>5. X \cup G = {} => LastValue(x, t) = DefaultOf(t)
  BY DEF LastValue, DefaultOf
<1>6. InOrder(x, t) => X = {} \/ G # {} \/ t = "LOG_FLUSH_THRESHOLD"
  BY DEF InOrder
<1> HIDE DEF p, b, r, X, G
<1>7. ASSUME InOrder(x, t) PROVE Val(r, x, t) = LastValue(x, t)
  <2>1. Led(p, x, t)
    BY <1>1, <1>7
  <2>2. /\ Has(p, "GLOBAL", t) \/ t = "LOG_FLUSH_THRESHOLD" =>
             /\ Has(b, x, t) <=> Has(p, x, t)
             /\ Has(b, "GLOBAL", t) <=> Has(p, "GLOBAL", t)
             /\ Has(p, x, t) => Val(b, x, t) = Val(p, x, t)
             /\ Led(b, x, t)
        /\ ~ Has(p, "GLOBAL", t) /\ t # "LOG_FLUSH_THRESHOLD" /\ ~ Has(p, x, t) =>
             Has(b, x, t) /\ Val(b, x, t) = DefaultOf(t) /\ Led(b, x, t)
    BY <1>2, <2>1, RemainingSays DEF b
  <2>3. CASE X \cup G # {}
    BY <1>1, <1>4, <1>6, <1>7, <2>2, <2>3
  <2>4. CASE X \cup G = {}
    BY <1>1, <1>4, <1>5, <2>2, <2>4
  <2> QED
    BY <2>3, <2>4
<1> QED
  BY <1>3, <1>4, <1>7 DEF Applies, r

-----------------------------------------------------------------------------
(* What a logger is configured to                                          *)

\* A map after one value has been set.
LEMMA SetValueGives ==
  ASSUME NEW map, NEW l, NEW v
  PROVE  LET on == SetValue(map, l, v)
         IN  /\ map = <<>> => DOMAIN on = {"GLOBAL"} /\ on["GLOBAL"] = v
             /\ Rooted(map) =>
                  /\ Rooted(on) /\ \A x : x # l => /\ x \in DOMAIN on <=> x \in DOMAIN map
                                                   /\ x \in DOMAIN map => on[x] = map[x]
                  /\ (on = map /\ map["GLOBAL"] = v) \/ (l \in DOMAIN on /\ on[l] = v)
<1> DEFINE on == SetValue(map, l, v)
<1>1. CASE map = <<>>
  <2>1. on = With(map, "GLOBAL", v) /\ DOMAIN map = {}
    BY <1>1 DEF SetValue
  <2>2. DOMAIN on = {"GLOBAL"} /\ on["GLOBAL"] = v
    <3> HIDE DEF on
    <3> QED
      BY <2>1 DEF With
  <2> QED
    BY <2>1, <2>2 DEF Rooted
<1>2. CASE map # <<>> /\ Rooted(map)
  <2>1. (on = map /\ map["GLOBAL"] = v) \/ on = With(map, l, v)
    BY <1>2 DEF SetValue, Rooted
  <2> HIDE DEF on
  <2> QED
    BY <1>2, <2>1 DEF With, Rooted, on
<1>3. CASE map # <<>> /\ ~ Rooted(map)
  BY <1>3
<1> QED
  BY <1>1, <1>2, <1>3

\* Whatever is looked up in the map of a setting is what the configuration has.
LEMMA MapOfSays ==
  ASSUME NEW c \in Conf, NEW t \in Type, NEW x \in Level, Has(c, x, t),
         \A y \in Level : Led(c, y, t), Has(c, "GLOBAL", t)
  PROVE  Get(MapOf(c, t), x) = Val(c, x, t)
<1> DEFINE N == Len(c.keys)
           at(n) == c.keys[n][1]
           type(n) == c.keys[n][2]
           Seen(y, n) == \E i \in 1 .. n : c.keys[i] = <<y, t>>
           Good(m, n) ==
             /\ ~ Seen("GLOBAL", n) => m = <<>>
             /\ Seen("GLOBAL", n) => Rooted(m) /\ m["GLOBAL"] = Val(c, "GLOBAL", t)
             /\ x \in DOMAIN m => m[x] = Val(c, x, t)
             /\ Seen(x, n) => Get(m, x) = Val(c, x, t)
<1>1. PICK f : /\ f[0] = <<>>
               /\ \A n \in 1 .. N :
                    f[n] = IF type(n) = t THEN SetValue(f[n - 1], at(n), c.of[c.keys[n]])
                           ELSE f[n - 1]
               /\ MapOf(c, t) = f[N]
  BY MapWay
<1>2. /\ N \in Nat /\ DOMAIN c.keys = 1 .. N /\ x # "GLOBAL" /\ Where = Level \cup {"GLOBAL"}
      /\ \A n \in 1 .. N : c.keys[n] = <<at(n), type(n)>> /\ at(n) \in Where
  BY Entries, LevelsKnown DEF Conf, Where
<1>3. PICK g \in 1 .. N : c.keys[g] = <<"GLOBAL", t>>
  BY Entries DEF Has
<1>4. PICK a \in 1 .. N : c.keys[a] = <<x, t>>
  BY Entries DEF Has
<1>5. DOMAIN <<>> = {}
  OBVIOUS
<1> DEFINE T == {n \in 0 .. N : Good(f[n], n)}
<1>6. 0 \in T
  BY <1>1, <1>2, <1>5
<1>7. ASSUME NEW n \in 1 .. N, n - 1 \in T PROVE n \in T
  <2> DEFINE m == f[n - 1]
             on == f[n]
             v == c.of[c.keys[n]]
  <2>1. Good(m, n - 1)
    BY <1>7
  <2>2. \A y : Seen(y, n) <=> c.keys[n] = <<y, t>> \/ Seen(y, n - 1)
    OBVIOUS
  <2> HIDE DEF Seen
  <2>3. CASE type(n) # t
    <3>1. on = m
      BY <1>1, <2>3
    <3>2. \A y : Seen(y, n) <=> Seen(y, n - 1)
      BY <1>2, <2>2, <2>3
    <3>3. Good(on, n)
      BY <2>1, <3>1, <3>2
    <3> QED
      BY <3>3
  <2>4. CASE type(n) = t
    <3>1. on = SetValue(m, at(n), v) /\ v = Val(c, at(n), t)
      BY <1>1, <1>2, <2>4 DEF Val
    <3>2. \A y : Seen(y, n) <=> y = at(n) \/ Seen(y, n - 1)
      BY <1>2, <2>2, <2>4
    <3> HIDE DEF m, on, v
    <3>3. CASE ~ Seen("GLOBAL", n - 1)
      <4>1. at(n) = "GLOBAL"
        <5> SUFFICES ASSUME at(n) # "GLOBAL" PROVE FALSE
          OBVIOUS
        <5>1. at(n) \in Level /\ c.keys[n] = <<at(n), t>>
          BY <1>2, <2>4
        <5>2. g < n
          BY <1>2, <1>3, <5>1 DEF Led
        <5> QED
          BY <1>2, <1>3, <3>3, <5>2 DEF Seen
      <4>2. m = <<>>
        BY <2>1, <3>3
      <4>3. DOMAIN on = {"GLOBAL"} /\ on["GLOBAL"] = v
        BY <3>1, <4>2, SetValueGives
      <4>4. ~ Seen(x, n - 1)
        <5>1. \A i \in 1 .. n - 1 : c.keys[i] # <<x, t>>
          <6> SUFFICES ASSUME NEW i \in 1 .. n - 1, c.keys[i] = <<x, t>> PROVE FALSE
            OBVIOUS
          <6>1. i \in 1 .. N /\ i < n
            BY <1>2
          <6>2. g < i
            BY <1>2, <1>3, <6>1 DEF Led
          <6>3. g \in 1 .. n - 1
            BY <1>2, <1>3, <6>1, <6>2
          <6> QED
            BY <1>3, <3>3, <6>3 DEF Seen
        <5> QED
          BY <5>1 DEF Seen
      <4>5. Good(on, n)
        BY <1>2, <3>1, <3>2, <4>1, <4>3, <4>4 DEF Rooted
      <4> QED
        BY <4>5 DEF on
    <3>4. CASE Seen("GLOBAL", n - 1)
      <4>1. Rooted(m) /\ m["GLOBAL"] = Val(c, "GLOBAL", t)
        BY <2>1, <3>4
      <4>2. /\ Rooted(on) /\ \A y : y # at(n) => /\ y \in DOMAIN on <=> y \in DOMAIN m
                                                 /\ y \in DOMAIN m => on[y] = m[y]
            /\ (on = m /\ m["GLOBAL"] = v) \/ (at(n) \in DOMAIN on /\ on[at(n)] = v)
        BY <3>1, <4>1, SetValueGives
      <4>3. Seen("GLOBAL", n)
        BY <3>2, <3>4
      <4>4. on["GLOBAL"] = Val(c, "GLOBAL", t)
        BY <3>1, <4>1, <4>2 DEF Rooted
      <4>5. x \in DOMAIN on => on[x] = Val(c, x, t)
        BY <2>1, <3>1, <4>2
      <4>6. Seen(x, n) => Get(on, x) = Val(c, x, t)
        <5>1. CASE at(n) = x
          BY <2>1, <3>1, <4>1, <4>2, <4>5, <5>1 DEF Get
        <5>2. CASE at(n) # x
          BY <2>1, <3>2, <4>1, <4>2, <4>4, <5>2 DEF Get
        <5> QED
          BY <5>1, <5>2
      <4>7. Good(on, n)
        BY <4>2, <4>3, <4>4, <4>5, <4>6
      <4> QED
        BY <4>7 DEF on
    <3> QED
      BY <3>3, <3>4
  <2> QED
    BY <2>3, <2>4
<1>8. N \in T
  <2> HIDE DEF T
  <2>1. 0 .. N \subseteq T
    BY <1>2, <1>6, <1>7, Climb
  <2> QED
    BY <1>2, <2>1
<1>9. Seen(x, N)
  BY <1>4
<1> QED
  BY <1>1, <1>8, <1>9

\* Every file that was asked for has the stream that is known for it, and has none
\* only if it cannot be opened.
Opened(h) == \A name \in DOMAIN h.reference :
               IF h.reference[name] = NoStream THEN name \in BadFiles
               ELSE /\ h.reference[name] \in 1 .. Len(h.streams)
                    /\ h.streams[h.reference[name]].file = name

\* Opening a file for a level keeps that.
LEMMA InsertOpened ==
  ASSUME NEW g \in Logger, Joined(g), Opened(g), NEW l \in Where, NEW name \in FileNames
  PROVE  Opened(InsertFile(g, l, name))
<1> DEFINE h == InsertFile(g, l, name)
           id == IdFor(g, name)
<1>1. Opens(h, g, name, id, LevelFor(g, l))
  BY InsertParts
<1>2. name \notin DOMAIN g.reference => \/ id = NoStream /\ name \in BadFiles
                                        \/ id = Len(g.streams) + 1
  BY DEF IdFor
<1>3. Len(g.streams) \in Nat /\ NoStream = 0
  BY DEF Logger, NoStream
<1> HIDE DEF h, id
<1>4. ASSUME NEW n \in DOMAIN h.reference
      PROVE  IF h.reference[n] = NoStream THEN n \in BadFiles
             ELSE h.reference[n] \in 1 .. Len(h.streams) /\ h.streams[h.reference[n]].file = n
  <2>1. CASE n \in DOMAIN g.reference
    <3>1. h.reference[n] = g.reference[n]
      BY <1>1, <2>1 DEF Opens
    <3>2. \/ g.reference[n] = NoStream /\ n \in BadFiles
          \/ /\ g.reference[n] # NoStream /\ g.reference[n] \in 1 .. Len(g.streams)
             /\ g.streams[g.reference[n]].file = n
      BY <2>1 DEF Opened
    <3>3. /\ 1 .. Len(g.streams) \subseteq 1 .. Len(h.streams)
          /\ \A i \in 1 .. Len(g.streams) : h.streams[i] = g.streams[i]
      BY <1>1 DEF Opens
    <3> QED
      BY <3>1, <3>2, <3>3
  <2>2. CASE n \notin DOMAIN g.reference
    <3>1. n = name /\ h.reference[n] = id /\ id \in {0} \cup 1 .. Len(h.streams)
      BY <1>1, <2>2 DEF Opens
    <3>2. \A i \in 1 .. Len(h.streams) :
            i \in 1 .. Len(g.streams) \/ h.streams[i] = Stream(name)
      BY <1>1 DEF Opens
    <3>3. Stream(name).file = name
      BY DEF Stream
    <3>4. CASE id = NoStream
      BY <1>2, <1>3, <2>2, <3>1, <3>4
    <3>5. CASE id # NoStream
      <4>1. id = Len(g.streams) + 1 /\ id \in 1 .. Len(h.streams) /\ id \notin 1 .. Len(g.streams)
        BY <1>2, <1>3, <2>2, <3>1, <3>5
      <4> QED
        BY <3>1, <3>2, <3>3, <3>5, <4>1
    <3> QED
      BY <3>4, <3>5
  <2> QED
    BY <2>1, <2>2
<1> QED
  BY <1>4 DEF Opened, h

\* The stream of a level is the one that is known for the level's file; and what
\* is said to be written to a file stays so where the file can be opened.
LEMMA FilesSays ==
  ASSUME NEW g, NEW c \in Conf, Building(MapsOf(g, c)), Opened(MapsOf(g, c)),
         Rooted(MapsOf(g, c).toFile), MapsOf(g, c).fileStream = <<>>,
         NEW x \in Level, Has(c, x, "FILENAME"), Has(c, "GLOBAL", "FILENAME"),
         \A y \in Level : Led(c, y, "FILENAME")
  PROVE  LET m == MapsOf(g, c)
             h == FilesOf(g, c)
             name == Val(c, x, "FILENAME")
         IN  /\ h.enabled = m.enabled /\ h.maxLogFileSize = m.maxLogFileSize
             /\ h.logFlushThreshold = m.logFlushThreshold
             /\ Opened(h) /\ x \in DOMAIN h.fileStream
             /\ name \in DOMAIN h.reference /\ h.fileStream[x] = h.reference[name]
             /\ h.fileStream[x] # NoStream /\ Get(h.fileStream, "GLOBAL") # NoStream =>
                  Get(h.toFile, x) = Get(m.toFile, x)
<1> DEFINE N == Len(c.keys)
           F == "FILENAME"
           at(n) == c.keys[n][1]
           type(n) == c.keys[n][2]
           m == MapsOf(g, c)
           Seen(y, n) == \E i \in 1 .. n : c.keys[i] = <<y, F>>
           Two == {x, "GLOBAL"}
           Same(h) == /\ h.enabled = m.enabled /\ h.maxLogFileSize = m.maxLogFileSize
                      /\ h.logFlushThreshold = m.logFlushThreshold
           Placed(h, n) ==
             \A y \in Two : /\ y \in DOMAIN h.fileStream <=> Seen(y, n)
                            /\ y \in DOMAIN h.fileStream =>
                                 /\ Val(c, y, F) \in DOMAIN h.reference
                                 /\ h.fileStream[y] = h.reference[Val(c, y, F)]
           Live(h) == \A y \in Two : y \in DOMAIN h.fileStream => h.fileStream[y] # NoStream
           Writes(h) == /\ Rooted(h.toFile)
                        /\ Live(h) => Get(h.toFile, x) = Get(m.toFile, x)
           Good(h, n) == Same(h) /\ Placed(h, n) /\ Writes(h) /\ Opened(h)
<1>1. PICK f : /\ f[0] = m
               /\ \A n \in 1 .. N : f[n] = InsertKey(f[n - 1], c, c.keys[n])
               /\ \A n \in 0 .. N : Building(f[n])
               /\ FilesOf(g, c) = f[N]
  BY InsertWay
<1>2. /\ N \in Nat /\ DOMAIN c.keys = 1 .. N /\ x # "GLOBAL" /\ Where = Level \cup {"GLOBAL"}
      /\ \A n \in 1 .. N : c.keys[n] = <<at(n), type(n)>> /\ at(n) \in Where
  BY Entries, LevelsKnown DEF Conf, Where
<1>3. PICK e \in 1 .. N : c.keys[e] = <<"GLOBAL", F>>
  BY Entries DEF Has
<1>4. PICK a \in 1 .. N : c.keys[a] = <<x, F>>
  BY Entries DEF Has
<1>5. DOMAIN <<>> = {}
  OBVIOUS
<1> DEFINE T == {n \in 0 .. N : Good(f[n], n)}
<1>6. 0 \in T
  <2>1. Good(m, 0)
    <3> HIDE DEF m
    <3> QED
      BY <1>5 DEF m
  <2> QED
    BY <1>1, <1>2, <2>1
<1>7. ASSUME NEW n \in 1 .. N, n - 1 \in T PROVE n \in T
  <2> DEFINE h == f[n - 1]
             k == f[n]
             v == c.of[c.keys[n]]
             l == at(n)
  <2>1. Good(h, n - 1)
    BY <1>7
  <2>2. \A y : Seen(y, n) <=> c.keys[n] = <<y, F>> \/ Seen(y, n - 1)
    OBVIOUS
  <2>3. Building(h) /\ k = InsertKey(h, c, c.keys[n])
    BY <1>1, <1>2
  <2>4. CASE type(n) # F
    <3>1. k = h
      BY <2>3, <2>4 DEF InsertKey
    <3>2. \A y : Seen(y, n) <=> Seen(y, n - 1)
      <4> HIDE DEF Seen
      <4> QED
        BY <1>2, <2>2, <2>4
    <3> HIDE DEF Seen, Same, Writes, h, k
    <3>3. Good(k, n)
      BY <2>1, <3>1, <3>2
    <3> QED
      BY <3>3 DEF k
  <2>5. CASE type(n) = F
    <3>1. /\ k = InsertFile(h, l, v) /\ v = Val(c, l, F) /\ l \in Where /\ v \in FileNames
          /\ h \in Logger /\ Joined(h) /\ Opened(h)
      <4>1. c.of[c.keys[n]] \in FileNames
        BY <2>5, Entries DEF ValueOf
      <4> QED
        BY <1>2, <2>1, <2>3, <2>5, <4>1 DEF InsertKey, Building, Val
    <3>2. \A y : Seen(y, n) <=> y = l \/ Seen(y, n - 1)
      <4> HIDE DEF Seen
      <4> QED
        BY <1>2, <2>2, <2>5
    <3>3. ~ Seen("GLOBAL", n - 1) => l = "GLOBAL"
      <4> SUFFICES ASSUME ~ Seen("GLOBAL", n - 1), l # "GLOBAL" PROVE FALSE
        OBVIOUS
      <4>1. l \in Level /\ c.keys[n] = <<l, F>>
        BY <1>2, <2>5
      <4>2. e < n
        BY <1>2, <1>3, <4>1 DEF Led
      <4> QED
        BY <1>2, <1>3, <4>2
    <3> DEFINE id == IdFor(h, v)
    <3>4. Opens(k, h, v, id, LevelFor(h, l))
      <4> HIDE DEF h, k, v, l, id
      <4> QED
        BY <3>1, InsertParts DEF id
    <3>5. Opened(k)
      <4> HIDE DEF h, k, v, l
      <4> QED
        BY <3>1, InsertOpened
    <3> HIDE DEF Seen, h, k, v, l, id
    <3>6. LevelFor(h, l) = l
      <4>1. CASE Seen("GLOBAL", n - 1)
        <5>1. h.fileStream # <<>>
          BY <1>5, <2>1, <4>1
        <5> QED
          BY <5>1 DEF LevelFor
      <4>2. CASE ~ Seen("GLOBAL", n - 1)
        BY <3>3, <4>2 DEF LevelFor
      <4> QED
        BY <4>1, <4>2
    <3>7. /\ \A z \in DOMAIN h.reference :
               z \in DOMAIN k.reference /\ k.reference[z] = h.reference[z]
          /\ v \in DOMAIN k.reference /\ k.reference[v] = id
          /\ DOMAIN k.fileStream = DOMAIN h.fileStream \cup {l}
          /\ \A y \in DOMAIN h.fileStream : k.fileStream[y] = h.fileStream[y]
          /\ l \notin DOMAIN h.fileStream => k.fileStream[l] = id
          /\ k.toFile = IF id = NoStream THEN SetValue(h.toFile, l, FALSE) ELSE h.toFile
          /\ k.enabled = h.enabled /\ k.maxLogFileSize = h.maxLogFileSize
          /\ k.logFlushThreshold = h.logFlushThreshold
      BY <3>4, <3>6 DEF Opens
    <3>8. Same(k)
      BY <2>1, <3>7
    <3>9. Placed(k, n)
      <4>1. Placed(h, n - 1)
        BY <2>1
      <4> QED
        BY <3>1, <3>2, <3>7, <4>1
    <3>10. l \in Two => k.fileStream[l] = id
      BY <2>1, <3>1, <3>7
    <3>11. Rooted(h.toFile)
      BY <2>1
    <3> DEFINE on == SetValue(h.toFile, l, FALSE)
    <3>12. /\ Rooted(on)
           /\ \A y : y # l => /\ y \in DOMAIN on <=> y \in DOMAIN h.toFile
                              /\ y \in DOMAIN h.toFile => on[y] = h.toFile[y]
      <4> DEFINE no == FALSE
                 some == SetValue(h.toFile, l, no)
      <4> HIDE DEF no
      <4>1. /\ Rooted(some)
            /\ \A y : y # l => /\ y \in DOMAIN some <=> y \in DOMAIN h.toFile
                               /\ y \in DOMAIN h.toFile => some[y] = h.toFile[y]
        BY <3>11, SetValueGives
      <4> QED
        BY <4>1 DEF no
    <3> HIDE DEF on
    <3>13. k.toFile = on \/ k.toFile = h.toFile
      BY <3>7 DEF on
    <3>14. Rooted(k.toFile)
      BY <3>11, <3>12, <3>13
    <3>15. ASSUME Live(k) PROVE Get(k.toFile, x) = Get(m.toFile, x)
      <4>1. Live(h)
        BY <3>7, <3>15
      <4>2. Get(h.toFile, x) = Get(m.toFile, x)
        BY <2>1, <4>1
      <4>3. CASE l \in Two
        <5>1. id # NoStream
          BY <3>7, <3>10, <3>15, <4>3
        <5> QED
          BY <3>7, <4>2, <5>1
      <4>4. CASE l \notin Two
        <5>1. Get(k.toFile, x) = Get(h.toFile, x)
          BY <3>11, <3>12, <3>13, <4>4 DEF Get, Rooted
        <5> QED
          BY <4>2, <5>1
      <4> QED
        BY <4>3, <4>4
    <3>16. Good(k, n)
      BY <3>5, <3>8, <3>9, <3>14, <3>15
    <3> QED
      BY <3>16 DEF k
  <2> QED
    BY <2>4, <2>5
<1>8. Good(f[N], N)
  <2>1. N \in T
    <3> HIDE DEF T
    <3>1. 0 .. N \subseteq T
      BY <1>2, <1>6, <1>7, Climb
    <3> QED
      BY <1>2, <3>1
  <2> QED
    BY <2>1
<1>9. Seen(x, N) /\ Seen("GLOBAL", N)
  BY <1>3, <1>4
<1> QED
  <2> DEFINE h == f[N]
  <2> HIDE DEF Seen, h, m
  <2>1. Good(h, N) /\ FilesOf(g, c) = h
    BY <1>1, <1>8 DEF h
  <2>2. /\ x \in DOMAIN h.fileStream /\ "GLOBAL" \in DOMAIN h.fileStream
        /\ Val(c, x, F) \in DOMAIN h.reference /\ h.fileStream[x] = h.reference[Val(c, x, F)]
    BY <1>9, <2>1
  <2>3. Get(h.fileStream, "GLOBAL") = h.fileStream["GLOBAL"]
    BY DEF Get
  <2>4. h.fileStream[x] # NoStream /\ Get(h.fileStream, "GLOBAL") # NoStream => Live(h)
    BY <2>3
  <2> QED
    BY <2>1, <2>2, <2>4 DEF m

\* Emptying files changes nothing but the files.
LEMMA ValidateSays ==
  ASSUME NEW g, NEW c \in Conf, Built(FilesOf(g, c))
  PROVE  LET h == FilesOf(g, c)
             r == Build(g, c)
         IN  /\ r.enabled = h.enabled /\ r.toFile = h.toFile
             /\ r.maxLogFileSize = h.maxLogFileSize /\ r.logFlushThreshold = h.logFlushThreshold
             /\ r.fileStream = h.fileStream /\ r.streams = h.streams
             /\ r.reference = h.reference
<1> DEFINE N == Len(c.keys)
           h == FilesOf(g, c)
           Same(r) == /\ r.enabled = h.enabled /\ r.toFile = h.toFile
                      /\ r.maxLogFileSize = h.maxLogFileSize
                      /\ r.logFlushThreshold = h.logFlushThreshold
                      /\ r.fileStream = h.fileStream /\ r.streams = h.streams
                      /\ r.reference = h.reference
           S == {r \in Logger : Same(r)}
<1>1. PICK f : /\ f[0] = h
               /\ \A n \in 1 .. N : f[n] = ValidateKey(f[n - 1], c.keys[n])
               /\ \A n \in 0 .. N : Built(f[n])
               /\ Build(g, c) = f[N]
  BY ValidateWay
<1>2. N \in Nat
  BY Entries
<1> HIDE DEF h, N
<1>3. f[0] \in S
  BY <1>1, <1>2 DEF Built, Building
<1>4. ASSUME NEW n \in 1 .. N, f[n - 1] \in S PROVE f[n] \in S
  <2> DEFINE r == f[n - 1]
             q == f[n]
             l == c.keys[n][1]
             name == r.streams[Get(r.fileStream, l)].file
  <2>1. \/ q = r
        \/ q = [r EXCEPT !.disk[name] = <<>>, !.logged[name] = <<>>]
    BY <1>1 DEF ValidateKey, ValidateFileRolling
  <2>2. r \in Logger /\ Same(r)
    BY <1>4
  <2>3. q \in Logger
    BY <1>1, <1>2 DEF Built, Building
  <2> HIDE DEF r, q, l, name
  <2>4. Same(q)
    BY <2>1, <2>2 DEF Logger
  <2> QED
    BY <2>3, <2>4 DEF q
<1>5. f[N] \in S
  <2> HIDE DEF S
  <2>1. \A n \in 0 .. N : f[n] \in S
    BY <1>2, <1>3, <1>4, Along
  <2> QED
    BY <1>2, <2>1
<1> QED
  BY <1>1, <1>5 DEF h

\* A logger has the settings of the configuration it is built with.
LEMMA BuildSays ==
  ASSUME NEW g \in Logger, Joined(g), Fresh(g), g.unflushed = InitUnflushedCount, Opened(g),
         NEW c \in Conf, Complete(c), NEW x \in Level, \A t \in Type : Has(c, x, t),
         \A y \in Level, t \in Type : Led(c, y, t)
  PROVE  LET r == Build(g, c)
             id == Get(r.fileStream, x)
             name == Val(c, x, "FILENAME")
         IN  /\ Get(r.enabled, x) = Val(c, x, "ENABLED")
             /\ Get(r.logFlushThreshold, x) = Val(c, x, "LOG_FLUSH_THRESHOLD")
             /\ Get(r.maxLogFileSize, x) = Val(c, x, "MAX_LOG_FILE_SIZE")
             /\ IF id = NoStream THEN name \in BadFiles ELSE r.streams[id].file = name
             /\ id # NoStream /\ Get(r.fileStream, "GLOBAL") # NoStream =>
                  Get(r.toFile, x) = Val(c, x, "TO_FILE")
             /\ Opened(r)
<1> DEFINE m == MapsOf(g, c)
           h == FilesOf(g, c)
           r == Build(g, c)
           name == Val(c, x, "FILENAME")
           id == Get(r.fileStream, x)
<1>1. /\ {"ENABLED", "FILENAME", "TO_FILE", "MAX_LOG_FILE_SIZE",
           "LOG_FLUSH_THRESHOLD"} \subseteq Type
      /\ \A t \in Type : Has(c, "GLOBAL", t)
  BY DefaultsTyped DEF Complete, Has
<1>2. /\ Building(m) /\ m.enabled = MapOf(c, "ENABLED") /\ m.toFile = MapOf(c, "TO_FILE")
      /\ m.maxLogFileSize = MapOf(c, "MAX_LOG_FILE_SIZE")
      /\ m.logFlushThreshold = MapOf(c, "LOG_FLUSH_THRESHOLD")
      /\ m.fileStream = <<>> /\ Rooted(m.toFile)
      /\ m.streams = g.streams /\ m.reference = g.reference
  BY MapsBuild
<1>3. Opened(m)
  <2> HIDE DEF m
  <2> QED
    BY <1>2 DEF Opened
<1>4. Built(h)
  BY <1>2, FilesBuilt
<1>5. /\ h.enabled = m.enabled /\ h.maxLogFileSize = m.maxLogFileSize
      /\ h.logFlushThreshold = m.logFlushThreshold
      /\ Opened(h) /\ x \in DOMAIN h.fileStream
      /\ name \in DOMAIN h.reference /\ h.fileStream[x] = h.reference[name]
      /\ h.fileStream[x] # NoStream /\ Get(h.fileStream, "GLOBAL") # NoStream =>
           Get(h.toFile, x) = Get(m.toFile, x)
  BY <1>1, <1>2, <1>3, FilesSays
<1>6. /\ r.enabled = h.enabled /\ r.toFile = h.toFile
      /\ r.maxLogFileSize = h.maxLogFileSize /\ r.logFlushThreshold = h.logFlushThreshold
      /\ r.fileStream = h.fileStream /\ r.streams = h.streams /\ r.reference = h.reference
  BY <1>4, ValidateSays
<1>7. \A t \in Type : Get(MapOf(c, t), x) = Val(c, x, t)
  BY <1>1, MapOfSays
<1> HIDE DEF m, h, r, name
<1>8. id = h.reference[name] /\ id = h.fileStream[x]
  BY <1>5, <1>6 DEF Get
<1>9. IF id = NoStream THEN name \in BadFiles ELSE r.streams[id].file = name
  BY <1>5, <1>6, <1>8 DEF Opened
<1>10. Opened(r)
  BY <1>5, <1>6 DEF Opened
<1>11. /\ Get(r.enabled, x) = Val(c, x, "ENABLED")
       /\ Get(r.logFlushThreshold, x) = Val(c, x, "LOG_FLUSH_THRESHOLD")
       /\ Get(r.maxLogFileSize, x) = Val(c, x, "MAX_LOG_FILE_SIZE")
       /\ Get(m.toFile, x) = Val(c, x, "TO_FILE")
  BY <1>1, <1>2, <1>5, <1>6, <1>7
<1>12. id # NoStream /\ Get(r.fileStream, "GLOBAL") # NoStream =>
         Get(r.toFile, x) = Val(c, x, "TO_FILE")
  BY <1>5, <1>6, <1>8, <1>11
<1> QED
  BY <1>9, <1>10, <1>11, <1>12, Zenon DEF r, name

-----------------------------------------------------------------------------
(* The settings of the process                                             *)

\* A new process has opened its files, or could not.
LEMMA NewLoggerOpened ==
  ASSUME NEW disk \in Disk
  PROVE  Opened(NewLogger(disk))
<1> DEFINE g == [streams |-> <<>>, reference |-> <<>>, fileStream |-> <<>>, enabled |-> <<>>,
                 toFile |-> <<>>, maxLogFileSize |-> <<>>, logFlushThreshold |-> <<>>,
                 unflushed |-> InitUnflushedCount, disk |-> disk, logged |-> disk]
<1>1. InitUnflushedCount \in [Level -> Nat] /\ <<>> \in Seq(FileStream)
  BY DEF InitUnflushedCount
<1>2. /\ <<>> \in Maps(FileNames, Nat) /\ <<>> \in Maps(Where, Nat)
      /\ <<>> \in Maps(Where, BOOLEAN)
  BY EmptyMap
<1>3. g \in Logger
  BY <1>1, <1>2 DEF Logger
<1>4. /\ g.streams = <<>> /\ g.reference = <<>> /\ g.fileStream = <<>> /\ g.disk = g.logged
      /\ g.unflushed = InitUnflushedCount
  OBVIOUS
<1>5. NewLogger(disk) = Build(g, SetToDefault)
  BY DEF NewLogger
<1> HIDE DEF g
<1>6. DOMAIN <<>> = {} /\ Len(<<>>) = 0 /\ 1 .. 0 = {}
  OBVIOUS
<1>7. Joined(g) /\ Fresh(g) /\ Opened(g)
  BY <1>4, <1>6 DEF Joined, Fresh, Opened
<1>8. /\ "DEBUG" \in Level /\ SetToDefault \in Conf /\ Complete(SetToDefault)
      /\ \A y \in Level, t \in Type : Has(SetToDefault, y, t) /\ Led(SetToDefault, y, t)
  BY LoggingAssumption, SetToDefaultConf, SetToDefaultSays
<1> QED
  BY <1>3, <1>4, <1>5, <1>7, <1>8, BuildSays

\* The logger that the settings were read into has them.
LEMMA ConfigureApplies ==
  ASSUME file \in Files, NEW g \in Logger, Joined(g), Fresh(g), Opened(g), NEW l \in Level
  PROVE  LET h == ConfigureLogger(g, file)
             id == Get(h.fileStream, l)
         IN  /\ Applies(l, "ENABLED", Enabled(h, l))
             /\ Applies(l, "LOG_FLUSH_THRESHOLD", Get(h.logFlushThreshold, l))
             /\ Applies(l, "MAX_LOG_FILE_SIZE", Get(h.maxLogFileSize, l))
             /\ \E name \in FileNames :
                  /\ Applies(l, "FILENAME", name)
                  /\ IF id = NoStream THEN name \in BadFiles ELSE h.streams[id].file = name
             /\ id # NoStream /\ Get(h.fileStream, "GLOBAL") # NoStream =>
                  Applies(l, "TO_FILE", Get(h.toFile, l))
<1> DEFINE k == [g EXCEPT !.unflushed = InitUnflushedCount]
           c == SetFromBase(SetToDefault, Configurations(file))
           h == ConfigureLogger(g, file)
           id == Get(h.fileStream, l)
           name == Val(c, l, "FILENAME")
<1>1. InitUnflushedCount \in [Level -> Nat]
  BY DEF InitUnflushedCount
<1>2. k \in Logger
  BY <1>1 DEF Logger
<1>3. /\ k.unflushed = InitUnflushedCount /\ k.streams = g.streams /\ k.reference = g.reference
      /\ k.fileStream = g.fileStream /\ k.disk = g.disk /\ k.logged = g.logged
  BY DEF Logger
<1>4. h = Build(k, c)
  BY DEF ConfigureLogger
<1>5. /\ c \in Conf /\ Complete(c)
      /\ \A y \in Level, t \in Type : Has(c, y, t) /\ Led(c, y, t) /\ Applies(y, t, Val(c, y, t))
  BY ConfiguredConf, ConfiguredSays
<1>6. {"ENABLED", "FILENAME", "TO_FILE", "MAX_LOG_FILE_SIZE", "LOG_FLUSH_THRESHOLD"} \subseteq Type
  BY DefaultsTyped
<1> HIDE DEF k, c, h
<1>7. Joined(k) /\ Fresh(k) /\ Opened(k)
  BY <1>3 DEF Joined, Fresh, Opened
<1>8. /\ Get(h.enabled, l) = Val(c, l, "ENABLED")
      /\ Get(h.logFlushThreshold, l) = Val(c, l, "LOG_FLUSH_THRESHOLD")
      /\ Get(h.maxLogFileSize, l) = Val(c, l, "MAX_LOG_FILE_SIZE")
      /\ IF id = NoStream THEN name \in BadFiles ELSE h.streams[id].file = name
      /\ id # NoStream /\ Get(h.fileStream, "GLOBAL") # NoStream =>
           Get(h.toFile, l) = Val(c, l, "TO_FILE")
  BY <1>2, <1>3, <1>4, <1>5, <1>7, BuildSays
<1>9. name \in FileNames
  <2>1. <<l, "FILENAME">> \in DOMAIN c.of
    BY <1>5, <1>6 DEF Has
  <2>2. PICK n \in 1 .. Len(c.keys) : c.keys[n] = <<l, "FILENAME">>
    BY <1>5, <2>1, Entries
  <2>3. c.of[c.keys[n]] \in ValueOf(c.keys[n][2])
    BY <1>5, Entries
  <2> QED
    BY <2>2, <2>3 DEF Val, ValueOf
<1>10. /\ Applies(l, "ENABLED", Val(c, l, "ENABLED"))
       /\ Applies(l, "LOG_FLUSH_THRESHOLD", Val(c, l, "LOG_FLUSH_THRESHOLD"))
       /\ Applies(l, "MAX_LOG_FILE_SIZE", Val(c, l, "MAX_LOG_FILE_SIZE"))
       /\ Applies(l, "FILENAME", Val(c, l, "FILENAME"))
       /\ Applies(l, "TO_FILE", Val(c, l, "TO_FILE"))
  BY <1>5, <1>6
<1> QED
  BY <1>8, <1>9, <1>10 DEF Enabled, h

\* What the invariant of the process adds to ProcInv: before the settings are read,
\* every file the logger was asked to open is open or cannot be.
SettingsInv == ProcInv /\ (proc = "init" => Opened(log)) /\ SettingsApply

\* It holds at the start.
LEMMA SettingsInvInit == Init => SettingsInv
<1> SUFFICES ASSUME Init PROVE SettingsInv
  OBVIOUS
<1>1. [name \in FileNames |-> <<>>] \in Disk
  BY DEF Disk
<1>2. Opened(log)
  BY <1>1, NewLoggerOpened DEF Init
<1>3. ProcInv
  BY ProcInvInit
<1>4. SettingsApply
  BY DEF Init, SettingsApply
<1> QED
  BY <1>2, <1>3, <1>4 DEF SettingsInv

\* The file says the same as long as it is the same.
LEMMA AppliesStays ==
  ASSUME file' = file, NEW l, NEW t, NEW v
  PROVE  Applies(l, t, v) <=> Applies(l, t, v)'
BY DEF Applies, InOrder, LastValue, LinesFor

\* Each action keeps it.
LEMMA SettingsInvNext ==
  ASSUME SettingsInv, [Next]_vars
  PROVE  SettingsInv'
<1>1. ProcInv /\ (proc = "init" => Opened(log)) /\ SettingsApply
  BY DEF SettingsInv
<1>2. ProcInv'
  <2>1. CASE Next
    BY <1>1, <2>1, ProcInvNext
  <2>2. CASE UNCHANGED vars
    BY <1>1, <2>2 DEF vars, ProcInv
  <2> QED
    BY <2>1, <2>2
<1>3. (proc = "init" => Opened(log))'
  <2>1. proc' = "init" /\ Next => Restart
    BY DEF Next, ReadSettings, LoadGame, StartServer, LogFatal, Return, OnAccept, OnMessage,
       OnClose, HandleStopServer, HandleGameTooEarly, Handling
  <2>2. CASE Restart
    <3>1. log' = NewLogger(log.disk) /\ log.disk \in Disk
      BY <1>1, <2>2 DEF Restart, ProcInv, Logger
    <3> QED
      BY <3>1, NewLoggerOpened
  <2>3. CASE UNCHANGED vars
    BY <1>1, <2>3 DEF vars
  <2> QED
    BY <2>1, <2>2, <2>3
<1>4. SettingsApply'
  <2>1. CASE ReadSettings
    <3>1. log' = ConfigureLogger(log, file) /\ file' = file /\ proc = "init"
      BY <2>1 DEF ReadSettings
    <3>2. file \in Files /\ log \in Logger /\ Joined(log) /\ Fresh(log) /\ Opened(log)
      BY <1>1, <3>1 DEF ProcInv, Built, Building
    <3> QED
      BY <3>1, <3>2, ConfigureApplies, AppliesStays DEF SettingsApply
  <2>2. CASE UNCHANGED vars
    <3>1. file' = file /\ log' = log /\ proc' = proc
      BY <2>2 DEF vars
    <3> QED
      BY <1>1, <3>1, AppliesStays DEF SettingsApply
  <2>3. CASE proc' # "configured"
    BY <2>3 DEF SettingsApply
  <2>4. proc' = "configured" /\ Next => ReadSettings
    BY DEF Next, ReadSettings, LoadGame, StartServer, LogFatal, Return, OnAccept, OnMessage,
       OnClose, HandleStopServer, HandleGameTooEarly, Restart, Handling
  <2> QED
    BY <2>1, <2>2, <2>3, <2>4
<1> QED
  BY <1>2, <1>3, <1>4 DEF SettingsInv

\* SettingsApply: when main has read the file, every level has the settings that
\* the last line for it or for GLOBAL gives it, or else the defaults, whatever the
\* file holds, as long as GLOBAL is set before the level is; and a level is without
\* a stream only if its file cannot be opened (easylogging++.h:2361-2756,
\* 2897-3084, 3336-3354).
THEOREM ProcessSettings == Spec => []SettingsApply
<1>1. SettingsInv => SettingsApply
  BY DEF SettingsInv
<1> QED
  BY <1>1, SettingsInvInit, SettingsInvNext, PTL DEF Spec

=============================================================================
