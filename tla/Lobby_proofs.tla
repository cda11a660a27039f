---------------------------- MODULE Lobby_proofs ----------------------------
(***************************************************************************)
(* Proofs about Lobby, for any sessions, any number of tables and any      *)
(* number of messages on the way: the lobby is the server with readers     *)
(* added, and no message names a user its reader has not heard of.         *)
(***************************************************************************)
EXTENDS Lobby, ChessServer_proofs

-----------------------------------------------------------------------------
(* The lobby is the server with readers added                              *)

LEMMA ServerSteps == [LobbyNext]_lobbyVars => [Next]_vars
BY DEF LobbyNext, ServerStep, Deliver, lobbyVars

\* The channels and the clients take nothing away from the server and add
\* nothing to it: what is proved of ChessServer holds in the lobby
\* (chess_server.cpp:49-211).
THEOREM LobbyIsServer == LobbySpec => Spec
<1>1. LobbyInit => Init
  BY DEF LobbyInit
<1> QED
  BY <1>1, ServerSteps, PTL DEF LobbySpec, Spec

\* Who is on a seat is a user, also while the clients lag behind
\* (chess_server.cpp:79-113, game_table.cpp:84-92).
COROLLARY LobbySeats == LobbySpec => []SeatsConsistent
BY LobbyIsServer, ServerSeats, PTL

-----------------------------------------------------------------------------
(* Type correctness                                                        *)

View == [health : {"up", "null", "undefined"}, known : SUBSET Session,
         state : [Session -> UserState], table : [Session -> Table \cup {NoTable}],
         seats : [Table -> [Seat -> Session \cup {NoSession}]]]

LEMMA EmptyViewType == EmptyView \in View
BY DEF EmptyView, View, UserState

LEMMA LoginType ==
  ASSUME NEW w \in View, NEW us \in SUBSET Info
  PROVE  ClientLogin(w, us) \in View
<1> DEFINE info(v) == CHOOSE i \in us : i.user = v
           here    == {i.user : i \in us}
           states  == [v \in Session |-> IF v \in here THEN info(v).state ELSE w.state[v]]
           tables  == [v \in Session |-> IF v \in here THEN info(v).table ELSE w.table[v]]
<1>1. ASSUME NEW v \in here PROVE info(v) \in us
  BY <1>1
<1>2. here \in SUBSET Session
  BY DEF Info
<1>3. states \in [Session -> UserState]
  BY <1>1 DEF View, Info
<1>4. tables \in [Session -> Table \cup {NoTable}]
  BY <1>1 DEF View, Info
<1>5. LoginSeats(w, us) \in [Table -> [Seat -> Session \cup {NoSession}]]
  <2>1. ASSUME NEW t \in Table, NEW s \in Seat,
               {i \in us : i.table = t /\ i.seat = s} # {}
        PROVE  (CHOOSE i \in {i \in us : i.table = t /\ i.seat = s} : TRUE).user \in Session
    BY <2>1 DEF Info
  <2> QED
    BY <2>1 DEF LoginSeats, View
<1>6. ClientLogin(w, us) =
        IF \E i \in us : i.table # NoTable /\ i.seat = NoSeat
        THEN [w EXCEPT !.health = "undefined"]
        ELSE [w EXCEPT !.known = w.known \cup here, !.state = states,
                       !.table = tables, !.seats = LoginSeats(w, us)]
  BY Zenon DEF ClientLogin, Broken
<1> HIDE DEF states, tables, here
<1>7. /\ w.known \cup here \in SUBSET Session
      /\ [w EXCEPT !.health = "undefined"] \in View
  BY <1>2 DEF View
<1>8. [w EXCEPT !.known = w.known \cup here, !.state = states,
                !.table = tables, !.seats = LoginSeats(w, us)] \in View
  BY <1>3, <1>4, <1>5, <1>7 DEF View
<1> QED
  BY <1>6, <1>7, <1>8

LEMMA HandleType ==
  ASSUME NEW u \in Session, NEW w \in View, NEW m \in Message
  PROVE  Handle(u, w, m) \in View
<1>1. CASE w.health # "up"
  BY <1>1 DEF Handle
<1>2. CASE w.health = "up" /\ m.cmd = "LOGIN"
  <2>1. m.users \in SUBSET Info
    BY <1>2 DEF Message
  <2> QED
    BY <1>2, <2>1, LoginType DEF Handle
<1>3. CASE w.health = "up" /\ m.cmd = "ADDUSER"
  <2>1. m.user \in Session
    BY <1>3 DEF Message
  <2>2. ClientAddUser(w, m.user) \in View
    BY <2>1 DEF ClientAddUser, View, UserState
  <2> QED
    BY <1>3, <2>2 DEF Handle
<1>4. CASE w.health = "up" /\ m.cmd = "SITDOWN"
  <2>1. m.user \in Session /\ m.table \in Table /\ m.seat \in Seat
    BY <1>4 DEF Message
  <2>2. ClientSitdown(w, u, m.user, m.table, m.seat) \in View
    BY <2>1 DEF ClientSitdown, Broken, View
  <2> QED
    BY <1>4, <2>2 DEF Handle
<1>5. CASE w.health = "up" /\ m.cmd = "UPDATEUSERSTATE"
  <2>1. m.user \in Session /\ m.state \in UserState
    BY <1>5 DEF Message
  <2>2. ClientState(w, u, m.user, m.state) \in View
    BY <2>1 DEF ClientState, Broken, View
  <2> QED
    BY <1>5, <2>2 DEF Handle
<1>6. CASE m.cmd = "GAME"
  BY <1>6 DEF Handle
<1> QED
  BY <1>1, <1>2, <1>3, <1>4, <1>5, <1>6 DEF Message

LEMMA ToldType ==
  ASSUME TypeOK', NEW c \in Seq(Message), NEW u \in Session, NEW i \in {1, 2}
  PROVE  Told(c, u, i) \in Seq(Message)
<1>1. ASSUME i \in DOMAIN out' PROVE out'[i].msg \in Message
  <2>1. out' \in Seq(Sent)
    BY DEF TypeOK, Sent
  <2>2. out'[i] \in Sent
    BY <1>1, <2>1
  <2> QED
    BY <2>2 DEF Sent
<1>2. ASSUME NEW m \in Message PROVE Append(c, m) \in Seq(Message)
  OBVIOUS
<1> QED
  BY <1>1, <1>2 DEF Told

LEMMA LobbyTypeNext == TypeOK /\ LobbyTypeOK /\ [LobbyNext]_lobbyVars => LobbyTypeOK'
<1> SUFFICES ASSUME TypeOK, LobbyTypeOK, [LobbyNext]_lobbyVars PROVE LobbyTypeOK'
  OBVIOUS
<1>1. chan \in [Session -> Seq(Message)] /\ view \in [Session -> View]
  BY DEF LobbyTypeOK, View
<1>2. CASE ServerStep
  <2>1. TypeOK'
    BY <1>2, TypeNext DEF ServerStep
  <2>2. ASSUME NEW u \in Session PROVE Queue(u) \in Seq(Message)
    BY <1>1, <2>1, ToldType DEF Queue
  <2> QED
    BY <1>1, <1>2, <2>2 DEF ServerStep, LobbyTypeOK, View
<1>3. ASSUME NEW u \in Session, Deliver(u) PROVE LobbyTypeOK'
  <2>1. chan[u] \in Seq(Message) /\ chan[u] # <<>>
    BY <1>1, <1>3 DEF Deliver
  <2>2. Head(chan[u]) \in Message /\ Tail(chan[u]) \in Seq(Message)
    BY <2>1
  <2>3. Handle(u, view[u], Head(chan[u])) \in View
    BY <1>1, <2>2, HandleType
  <2> QED
    BY <1>1, <1>3, <2>2, <2>3 DEF Deliver, LobbyTypeOK, View
<1>4. CASE UNCHANGED lobbyVars
  BY <1>4 DEF lobbyVars, LobbyTypeOK
<1> QED
  BY <1>2, <1>3, <1>4 DEF LobbyNext

LEMMA LobbyTypeInit == LobbyInit => LobbyTypeOK
BY EmptyViewType DEF LobbyInit, LobbyTypeOK, View

\* What is on its way are messages the client knows, and its replica keeps
\* its type whatever it reads (GameLogi.cpp:95-180).
THEOREM LobbyTypeCorrect == LobbySpec => []LobbyTypeOK
<1>1. LobbySpec => []TypeOK
  BY LobbyIsServer, ServerTypeCorrect, PTL
<1> QED
  BY <1>1, LobbyTypeInit, LobbyTypeNext, PTL DEF LobbySpec

-----------------------------------------------------------------------------
(* What the clients will have read                                         *)

\* f[i] is the replica of u, now w, after the first i messages of c.
Reading(f, u, w, c) ==
  f = [i \in 0 .. Len(c) |-> IF i = 0 THEN w ELSE Handle(u, f[i - 1], c[i])]

\* What the replicas are to agree with.
Truth == [users |-> Users, state |-> state, table |-> table, seats |-> seats]

Agrees(w, a) ==
  w.health = "up" =>
    /\ \A v \in a.users : /\ v \in w.known /\ w.table[v] = a.table[v]
                          /\ w.state[v] = "READY" <=> a.state[v] = "READY"
    /\ \A t \in Table, s \in Seat :
         a.seats[t][s] # NoSession => w.seats[t][s] = a.seats[t][s]

\* Read to the end, the messages c bring the replica w of u to agree with a;
\* on the way nobody is unknown and a deal finds the table full.
Sound(f, u, c, a) ==
  /\ \A i \in 0 .. Len(c) : f[i] \in View /\ f[i].health # "null"
  /\ \A i \in 1 .. Len(c) :
       c[i].cmd = "GAME" /\ f[i - 1].health = "up" => AtFullTable(u, f[i - 1])
  /\ Agrees(f[Len(c)], a)

CatchesUp(u, w, c, a) ==
  /\ \E f : Reading(f, u, w, c)
  /\ \A f : Reading(f, u, w, c) => Sound(f, u, c, a)

From0(f, n) == f = [i \in 0 .. n |-> f[i]]

LEMMA ReadingGives ==
  ASSUME NEW f, NEW u, NEW w, NEW c \in Seq(Message), Reading(f, u, w, c)
  PROVE  f[0] = w /\ \A i \in 1 .. Len(c) : f[i] = Handle(u, f[i - 1], c[i])
<1> DEFINE body(i) == IF i = 0 THEN w ELSE Handle(u, f[i - 1], c[i])
<1>1. Len(c) \in Nat
  OBVIOUS
<1>2. f = [i \in 0 .. Len(c) |-> body(i)]
  BY DEF Reading
<1> HIDE DEF body
<1>3. \A i \in 0 .. Len(c) : f[i] = body(i)
  BY <1>2
<1> QED
  BY <1>1, <1>3 DEF body

LEMMA ReadingIs ==
  ASSUME NEW f, NEW u, NEW w, NEW c \in Seq(Message), From0(f, Len(c)), f[0] = w,
         \A i \in 1 .. Len(c) : f[i] = Handle(u, f[i - 1], c[i])
  PROVE  Reading(f, u, w, c)
<1> DEFINE body(i) == IF i = 0 THEN w ELSE Handle(u, f[i - 1], c[i])
<1>1. Len(c) \in Nat
  OBVIOUS
<1>2. ASSUME NEW i \in 0 .. Len(c) PROVE f[i] = body(i)
  <2>1. i = 0 \/ i \in 1 .. Len(c)
    BY <1>1
  <2> QED
    BY <2>1
<1> HIDE DEF body
<1>3. [i \in 0 .. Len(c) |-> f[i]] = [i \in 0 .. Len(c) |-> body(i)]
  BY <1>2
<1>4. f = [i \in 0 .. Len(c) |-> body(i)]
  BY <1>3 DEF From0
<1> QED
  BY <1>4 DEF Reading, body

\* Nothing is on its way.
LEMMA ReadNothing ==
  ASSUME NEW u, NEW w \in View, w.health # "null", NEW a, Agrees(w, a)
  PROVE  CatchesUp(u, w, <<>>, a)
<1>1. <<>> \in Seq(Message) /\ Len(<<>>) = 0
  OBVIOUS
<1>2. Reading([i \in {0} |-> w], u, w, <<>>)
  <2> DEFINE f == [i \in {0} |-> w]
  <2>1. From0(f, 0) /\ f[0] = w
    BY DEF From0
  <2> HIDE DEF f
  <2>2. \A i \in 1 .. Len(<<>>) : f[i] = Handle(u, f[i - 1], <<>>[i])
    BY <1>1
  <2>3. From0(f, Len(<<>>))
    BY <1>1, <2>1
  <2>4. Reading(f, u, w, <<>>)
    BY <1>1, <2>1, <2>2, <2>3, ReadingIs
  <2> QED
    BY <2>4 DEF f
<1>3. ASSUME NEW f, Reading(f, u, w, <<>>) PROVE Sound(f, u, <<>>, a)
  <2>1. f[0] = w
    BY <1>1, <1>3, ReadingGives
  <2> QED
    BY <1>1, <2>1 DEF Sound
<1> QED
  BY <1>2, <1>3 DEF CatchesUp

\* The server changes and says nothing.
LEMMA ReadSame ==
  ASSUME NEW u, NEW w, NEW c \in Seq(Message), NEW a, NEW b, CatchesUp(u, w, c, a),
         \A r \in View : Agrees(r, a) => Agrees(r, b)
  PROVE  CatchesUp(u, w, c, b)
<1>1. Len(c) \in 0 .. Len(c)
  OBVIOUS
<1> QED
  BY <1>1 DEF CatchesUp, Sound

\* Message m brings the replica r of u to agree with b.
Brings(u, r, m, b) ==
  /\ Handle(u, r, m).health # "null" /\ Agrees(Handle(u, r, m), b)
  /\ m.cmd = "GAME" /\ r.health = "up" => AtFullTable(u, r)

\* One more message behind those on their way.
LEMMA ReadMore ==
  ASSUME NEW u \in Session, NEW w, NEW c \in Seq(Message), NEW m \in Message,
         NEW a, NEW b, CatchesUp(u, w, c, a),
         \A r \in View : r.health # "null" /\ Agrees(r, a) => Brings(u, r, m, b)
  PROVE  CatchesUp(u, w, Append(c, m), b)
<1> DEFINE d == Append(c, m)
           n == Len(c)
<1>1. /\ d \in Seq(Message) /\ Len(d) = n + 1 /\ n \in Nat
      /\ d[n + 1] = m /\ \A i \in 1 .. n : d[i] = c[i]
  OBVIOUS
<1> HIDE DEF d, n
<1>2. ASSUME NEW f, Reading(f, u, w, c)
      PROVE  \E g : Reading(g, u, w, d)
  <2> DEFINE g == [i \in 0 .. n + 1 |-> IF i = n + 1 THEN Handle(u, f[n], m) ELSE f[i]]
  <2>1. /\ f[0] = w /\ \A i \in 1 .. n : f[i] = Handle(u, f[i - 1], c[i])
    BY <1>2, ReadingGives DEF n
  <2>2. /\ g[n + 1] = Handle(u, f[n], m) /\ \A i \in 0 .. n : g[i] = f[i]
        /\ From0(g, n + 1)
    BY <1>1 DEF From0
  <2> HIDE DEF g
  <2>3. g[0] = w
    BY <1>1, <2>1, <2>2
  <2>4. ASSUME NEW i \in 1 .. n + 1 PROVE g[i] = Handle(u, g[i - 1], d[i])
    <3>1. CASE i = n + 1
      <4>1. i - 1 = n /\ n \in 0 .. n
        BY <1>1, <3>1
      <4> QED
        BY <1>1, <2>2, <3>1, <4>1
    <3>2. CASE i # n + 1
      <4>1. i \in 1 .. n /\ i \in 0 .. n /\ i - 1 \in 0 .. n
        BY <1>1, <3>2
      <4> QED
        BY <1>1, <2>1, <2>2, <4>1
    <3> QED
      BY <3>1, <3>2
  <2> QED
    BY <1>1, <2>2, <2>3, <2>4, ReadingIs
<1>3. ASSUME NEW g, Reading(g, u, w, d)
      PROVE  Sound(g, u, d, b)
  <2> DEFINE f == [i \in 0 .. n |-> g[i]]
  <2>1. /\ g[0] = w /\ \A i \in 1 .. n + 1 : g[i] = Handle(u, g[i - 1], d[i])
    BY <1>1, <1>3, ReadingGives
  <2>2. \A i \in 0 .. n : f[i] = g[i]
    OBVIOUS
  <2>3. From0(f, n)
    BY DEF From0
  <2> HIDE DEF f
  <2>4. \A i \in 1 .. n : f[i] = Handle(u, f[i - 1], c[i])
    <3>1. ASSUME NEW i \in 1 .. n PROVE i \in 0 .. n /\ i - 1 \in 0 .. n /\ i \in 1 .. n + 1
      BY <1>1
    <3> QED
      BY <1>1, <2>1, <2>2, <3>1
  <2>5. f[0] = w
    BY <1>1, <2>1, <2>2
  <2>6. Reading(f, u, w, c)
    BY <2>3, <2>4, <2>5, ReadingIs DEF n
  <2>7. Sound(f, u, c, a)
    BY <2>6 DEF CatchesUp
  <2>8. /\ g[n] = f[n] /\ g[n] \in View /\ g[n].health # "null" /\ Agrees(g[n], a)
        /\ g[n + 1] = Handle(u, g[n], m)
    <3>1. n \in 0 .. n /\ n + 1 \in 1 .. n + 1 /\ (n + 1) - 1 = n
      BY <1>1
    <3> QED
      BY <1>1, <2>1, <2>2, <2>7, <3>1 DEF Sound, n
  <2>9. /\ g[n + 1] \in View /\ g[n + 1].health # "null" /\ Agrees(g[n + 1], b)
        /\ m.cmd = "GAME" /\ g[n].health = "up" => AtFullTable(u, g[n])
    BY <2>8, HandleType DEF Brings
  <2>10. ASSUME NEW i \in 0 .. n + 1 PROVE g[i] \in View /\ g[i].health # "null"
    <3>1. i \in 0 .. n \/ i = n + 1
      BY <1>1
    <3> QED
      BY <2>2, <2>7, <2>9, <3>1 DEF Sound, n
  <2>11. ASSUME NEW i \in 1 .. n + 1, d[i].cmd = "GAME", g[i - 1].health = "up"
         PROVE  AtFullTable(u, g[i - 1])
    <3>1. CASE i = n + 1
      <4>1. i - 1 = n
        BY <1>1, <3>1
      <4> QED
        BY <1>1, <2>9, <2>11, <3>1, <4>1
    <3>2. CASE i # n + 1
      <4>1. i \in 1 .. n /\ i - 1 \in 0 .. n
        BY <1>1, <3>2
      <4> QED
        BY <1>1, <2>2, <2>7, <2>11, <4>1 DEF Sound, n
    <3> QED
      BY <3>1, <3>2
  <2> QED
    BY <1>1, <2>9, <2>10, <2>11 DEF Sound
<1> QED
  BY <1>2, <1>3 DEF CatchesUp, d

\* The client reads the first of the messages on their way.
LEMMA ReadOne ==
  ASSUME NEW u \in Session, NEW w, NEW c \in Seq(Message), NEW a,
         CatchesUp(u, w, c, a), c # <<>>
  PROVE  CatchesUp(u, Handle(u, w, Head(c)), Tail(c), a)
<1> DEFINE d == Tail(c)
           x == Handle(u, w, Head(c))
           n == Len(d)
<1>1. /\ d \in Seq(Message) /\ Len(c) = n + 1 /\ n \in Nat
      /\ \A i \in 1 .. n : d[i] = c[i + 1]
  OBVIOUS
<1>2. x = Handle(u, w, c[1])
  OBVIOUS
<1> HIDE DEF d, x, n
<1>3. ASSUME NEW f, Reading(f, u, w, c)
      PROVE  \E g : Reading(g, u, x, d)
  <2> DEFINE g == [i \in 0 .. n |-> f[i + 1]]
  <2>1. f[0] = w /\ \A i \in 1 .. n + 1 : f[i] = Handle(u, f[i - 1], c[i])
    BY <1>1, <1>3, ReadingGives
  <2>2. (\A i \in 0 .. n : g[i] = f[i + 1]) /\ From0(g, n)
    BY DEF From0
  <2> HIDE DEF g
  <2>3. g[0] = x
    <3>1. 1 \in 1 .. n + 1 /\ 0 \in 0 .. n /\ 0 + 1 = 1 /\ 1 - 1 = 0
      BY <1>1
    <3> QED
      BY <1>2, <2>1, <2>2, <3>1
  <2>4. ASSUME NEW i \in 1 .. n PROVE g[i] = Handle(u, g[i - 1], d[i])
    <3>1. /\ i \in 0 .. n /\ i - 1 \in 0 .. n /\ i + 1 \in 1 .. n + 1
          /\ (i - 1) + 1 = i /\ (i + 1) - 1 = i
      BY <1>1
    <3>2. f[i + 1] = Handle(u, f[i], c[i + 1])
      BY <2>1, <3>1
    <3>3. g[i] = f[i + 1] /\ g[i - 1] = f[i]
      BY <2>2, <3>1
    <3> QED
      BY <1>1, <3>2, <3>3
  <2> QED
    BY <1>1, <2>2, <2>3, <2>4, ReadingIs DEF n
<1>4. ASSUME NEW g, Reading(g, u, x, d)
      PROVE  Sound(g, u, d, a)
  <2> DEFINE f == [i \in 0 .. n + 1 |-> IF i = 0 THEN w ELSE g[i - 1]]
  <2>1. g[0] = x /\ \A i \in 1 .. n : g[i] = Handle(u, g[i - 1], d[i])
    BY <1>1, <1>4, ReadingGives DEF n
  <2>2. /\ f[0] = w /\ \A i \in 1 .. n + 1 : f[i] = g[i - 1]
        /\ From0(f, n + 1)
    BY <1>1 DEF From0
  <2> HIDE DEF f
  <2>3. ASSUME NEW i \in 1 .. n + 1 PROVE f[i] = Handle(u, f[i - 1], c[i])
    <3>1. CASE i = 1
      <4>1. f[i] = g[0] /\ f[i - 1] = w
        BY <2>2, <3>1
      <4> QED
        BY <1>2, <2>1, <3>1, <4>1
    <3>2. CASE i # 1
      <4>1. i - 1 \in 1 .. n /\ i - 1 \in 1 .. n + 1 /\ (i - 1) + 1 = i
        BY <1>1, <3>2
      <4>2. f[i] = g[i - 1] /\ f[i - 1] = g[(i - 1) - 1]
        BY <2>2, <4>1
      <4>3. g[i - 1] = Handle(u, g[(i - 1) - 1], d[i - 1]) /\ d[i - 1] = c[i]
        BY <1>1, <2>1, <4>1
      <4> QED
        BY <4>2, <4>3
    <3> QED
      BY <3>1, <3>2
  <2>4. Reading(f, u, w, c)
    BY <1>1, <2>2, <2>3, ReadingIs
  <2>5. Sound(f, u, c, a)
    BY <2>4 DEF CatchesUp
  <2>6. ASSUME NEW i \in 0 .. n PROVE g[i] = f[i + 1] /\ i + 1 \in 0 .. n + 1
    <3>1. i + 1 \in 1 .. n + 1 /\ (i + 1) - 1 = i
      BY <1>1
    <3> QED
      BY <2>2, <3>1
  <2>7. \A i \in 0 .. n : g[i] \in View /\ g[i].health # "null"
    BY <1>1, <2>5, <2>6 DEF Sound
  <2>8. ASSUME NEW i \in 1 .. n, d[i].cmd = "GAME", g[i - 1].health = "up"
        PROVE  AtFullTable(u, g[i - 1])
    <3>1. i + 1 \in 1 .. n + 1 /\ (i + 1) - 1 = i /\ i - 1 \in 0 .. n /\ (i - 1) + 1 = i
      BY <1>1
    <3>2. g[i - 1] = f[i] /\ d[i] = c[i + 1]
      BY <1>1, <2>6, <3>1
    <3>3. c[i + 1].cmd = "GAME" /\ f[(i + 1) - 1].health = "up"
             => AtFullTable(u, f[(i + 1) - 1])
      BY <1>1, <2>5, <3>1 DEF Sound
    <3> QED
      BY <2>8, <3>1, <3>2, <3>3
  <2>9. Agrees(g[n], a)
    BY <1>1, <2>5, <2>6 DEF Sound
  <2> QED
    BY <2>7, <2>8, <2>9 DEF Sound, n
<1> QED
  BY <1>3, <1>4 DEF CatchesUp, d, x

-----------------------------------------------------------------------------
(* What each message does                                                  *)

\* Only the messages to a client that is up have to be looked at.
LEMMA BringsDown ==
  ASSUME NEW u, NEW r \in View, NEW m, NEW b, r.health = "undefined"
  PROVE  Brings(u, r, m, b)
BY DEF Brings, Handle, Agrees

LEMMA BringsUp ==
  ASSUME NEW u, NEW m, NEW a, NEW b,
         \A r \in View : r.health = "up" /\ Agrees(r, a) => Brings(u, r, m, b)
  PROVE  \A r \in View : r.health # "null" /\ Agrees(r, a) => Brings(u, r, m, b)
<1>1. \A r \in View : r.health = "up" \/ r.health = "null" \/ r.health = "undefined"
  BY DEF View
<1> QED
  BY <1>1, BringsDown

\* What a newcomer is told, whatever it knew.
LEMMA BringsLogin ==
  ASSUME SInv, TypeOK', NEW n \in Session, HandleLogin(n), NEW r \in View, r.health = "up"
  PROVE  Brings(n, r, LoginMsg({UserInfo(v) : v \in Listed(n)}), Truth')
<1> DEFINE us == {UserInfo(v) : v \in Listed(n)}
           m  == LoginMsg(us)
           q  == ClientLogin(r, us)
<1>1. /\ Users' = Users \cup {n} /\ Listed(n) = Users \cup {n} /\ Users \subseteq Session
      /\ UNCHANGED <<state, table, seats>>
  BY DEF HandleLogin, Running, Become, Users, Listed, SInv, TypeOK
<1>2. m.cmd = "LOGIN" /\ m.users = us
  BY DEF LoginMsg
<1>3. Handle(n, r, m) = q
  BY <1>2 DEF Handle
<1>4. \A v \in Listed(n) : UserInfo(v) \in us
  OBVIOUS
<1>5. \A i \in us : \E v \in Listed(n) : i = UserInfo(v)
  OBVIOUS
<1>6. \A v : /\ UserInfo(v).user = v /\ UserInfo(v).state = state[v]
             /\ UserInfo(v).table = table[v] /\ UserInfo(v).seat = SeatOf(v)
  BY DEF UserInfo
<1> HIDE DEF us, m
<1>7. CASE \E i \in us : i.table # NoTable /\ i.seat = NoSeat
  <2>1. q = [r EXCEPT !.health = "undefined"]
    BY <1>7 DEF ClientLogin, Broken
  <2>2. q.health = "undefined"
    BY <2>1 DEF View
  <2> QED
    BY <1>2, <1>3, <2>2 DEF Brings, Agrees, m, us
<1>8. CASE ~ \E i \in us : i.table # NoTable /\ i.seat = NoSeat
  <2> DEFINE info(v) == CHOOSE i \in us : i.user = v
             here    == {i.user : i \in us}
  <2>1. ASSUME NEW v \in Users' PROVE v \in here /\ info(v) = UserInfo(v) /\ v \in Session
    <3>1. v \in Listed(n) /\ UserInfo(v) \in us /\ UserInfo(v).user = v /\ v \in Session
      BY <1>1, <1>4, <1>6
    <3>2. \A i \in us : i.user = v => i = UserInfo(v)
      BY <1>5, <1>6
    <3> QED
      BY <3>1, <3>2
  <2>2. /\ q.health = "up" /\ q.known = r.known \cup here
        /\ q.state = [v \in Session |-> IF v \in here THEN info(v).state ELSE r.state[v]]
        /\ q.table = [v \in Session |-> IF v \in here THEN info(v).table ELSE r.table[v]]
        /\ q.seats = LoginSeats(r, us)
    BY <1>8 DEF ClientLogin, View
  <2> HIDE DEF info, here, q
  <2>3. ASSUME NEW v \in Users'
        PROVE  v \in q.known /\ q.table[v] = table[v] /\ q.state[v] = state[v]
    BY <1>6, <2>1, <2>2
  <2>4. ASSUME NEW t \in Table, NEW s \in Seat, seats[t][s] # NoSession
        PROVE  q.seats[t][s] = seats[t][s]
    <3> DEFINE v == seats[t][s]
               there == {i \in us : i.table = t /\ i.seat = s}
    <3>1. v \in Session /\ v \in Users /\ table[v] = t /\ SeatOf(v) = s
      BY <2>4, OnlySeat DEF SInv, TypeOK, SeatsConsistent, Users
    <3>2. UserInfo(v) \in there
      BY <1>1, <1>4, <1>6, <3>1
    <3>3. ASSUME NEW i \in there PROVE i.user = v
      <4>1. PICK x \in Listed(n) : i = UserInfo(x)
        BY <1>5
      <4>2. x \in Session /\ table[x] = t /\ SeatOf(x) = s
        BY <1>1, <1>6, <4>1
      <4>3. Seated(x)
        BY <4>2 DEF SeatOf, Seat, NoSeat, SEAT_COUNT
      <4>4. seats[t][s] = x
        BY <4>2, <4>3, SeatFound DEF SInv
      <4> QED
        BY <1>6, <4>1, <4>4
    <3>4. q.seats[t][s] = IF there = {} THEN r.seats[t][s]
                                        ELSE (CHOOSE i \in there : TRUE).user
      BY <2>2 DEF LoginSeats
    <3> QED
      BY <3>2, <3>3, <3>4
  <2>5. Agrees(q, Truth')
    BY <1>1, <2>3, <2>4 DEF Agrees, Truth
  <2> QED
    BY <1>2, <1>3, <2>2, <2>5 DEF Brings, m, us
<1> QED
  BY <1>7, <1>8

\* What the others are told of a newcomer, who has no seat yet.
LEMMA BringsAddUser ==
  ASSUME SInv, TypeOK', NEW n \in Session, HandleLogin(n), NEW u \in Users,
         NEW r \in View, r.health = "up", Agrees(r, Truth)
  PROVE  Brings(u, r, AddUserMsg(n), Truth')
<1> DEFINE q == ClientAddUser(r, n)
<1>1. /\ Users' = Users \cup {n} /\ n \notin Users /\ Users \subseteq Session
      /\ UNCHANGED <<state, table, seats>>
      /\ state[n] = "STANDUP" /\ table[n] = NoTable
  BY DEF HandleLogin, Running, Become, Users, SInv, Fresh, TypeOK
<1>2. Handle(u, r, AddUserMsg(n)) = q /\ AddUserMsg(n).cmd = "ADDUSER"
  BY DEF Handle, AddUserMsg
<1>3. /\ q.health = "up" /\ q.known = r.known \cup {n} /\ q.seats = r.seats
      /\ q.state = [r.state EXCEPT ![n] = "STANDUP"]
      /\ q.table = [r.table EXCEPT ![n] = NoTable]
  BY DEF ClientAddUser, View
<1> HIDE DEF q
<1>4. ASSUME NEW v \in Users'
      PROVE  /\ v \in q.known /\ q.table[v] = table[v]
             /\ q.state[v] = "READY" <=> state[v] = "READY"
  <2>1. CASE v = n
    BY <1>1, <1>3, <2>1 DEF View
  <2>2. CASE v # n
    BY <1>1, <1>3, <2>2 DEF View, Agrees, Truth
  <2> QED
    BY <2>1, <2>2
<1>5. Agrees(q, Truth')
  BY <1>1, <1>3, <1>4 DEF Agrees, Truth
<1> QED
  BY <1>2, <1>3, <1>5 DEF Brings

\* What a client makes of the new state of n.
LEMMA StateRead ==
  ASSUME NEW u \in Users, NEW n \in Users, NEW st \in UserState,
         NEW r \in View, r.health = "up", Agrees(r, Truth)
  PROVE  LET q == Handle(u, r, StateMsg(n, st)) IN
           /\ q = [r EXCEPT !.state[n] = st] /\ q \in View
           /\ q.health = "up" /\ q.known = r.known /\ q.table = r.table
           /\ q.seats = r.seats /\ q.state = [r.state EXCEPT ![n] = st]
<1>1. n \in Session /\ {u, n} \subseteq r.known
  BY DEF Agrees, Truth, Users
<1>2. /\ StateMsg(n, st).cmd = "UPDATEUSERSTATE" /\ StateMsg(n, st).user = n
      /\ StateMsg(n, st).state = st
  BY DEF StateMsg
<1>3. Handle(u, r, StateMsg(n, st)) = ClientState(r, u, n, st)
  BY <1>2 DEF Handle
<1>4. ClientState(r, u, n, st) = [r EXCEPT !.state[n] = st]
  BY <1>1 DEF ClientState
<1>5. [r EXCEPT !.state[n] = st] \in View
  BY <1>1 DEF View
<1> QED
  BY <1>1, <1>3, <1>4, <1>5 DEF View

LEMMA BringsStandup ==
  ASSUME SInv, NEW n \in Users, Seated(n), NEW told, Standup(n, told),
         table' = table, Users' \subseteq Users,
         NEW u \in Users, NEW r \in View, r.health = "up", Agrees(r, Truth)
  PROVE  Brings(u, r, StateMsg(n, "STANDUP"), Truth')
<1> DEFINE q == Handle(u, r, StateMsg(n, "STANDUP"))
<1>1. n \in Session /\ Users \subseteq Session /\ "STANDUP" \in UserState
  BY DEF Users, UserState
<1>2. /\ state' = [state EXCEPT ![n] = "STANDUP"]
      /\ \A t \in Table, s \in Seat :
           seats'[t][s] = IF seats[t][s] = n THEN NoSession ELSE seats[t][s]
  BY <1>1, FreesOne
<1>3. /\ q.health = "up" /\ q.known = r.known /\ q.table = r.table /\ q.seats = r.seats
      /\ q.state = [r.state EXCEPT ![n] = "STANDUP"]
  BY <1>1, StateRead
<1> HIDE DEF q
<1>4. ASSUME NEW v \in Users'
      PROVE  /\ v \in q.known /\ q.table[v] = table'[v]
             /\ q.state[v] = "READY" <=> state'[v] = "READY"
  BY <1>1, <1>2, <1>3 DEF Agrees, Truth, View, SInv, TypeOK
<1>5. \A t \in Table, s \in Seat :
        seats'[t][s] # NoSession => q.seats[t][s] = seats'[t][s]
  BY <1>2, <1>3 DEF Agrees, Truth
<1>6. Agrees(q, Truth')
  BY <1>4, <1>5 DEF Agrees, Truth
<1>7. StateMsg(n, "STANDUP").cmd # "GAME"
  BY DEF StateMsg
<1> QED
  BY <1>3, <1>6, <1>7 DEF Brings, q

\* A user that sits down stood before, and has been told to stand.
LEMMA BringsSitdown ==
  ASSUME SInv, TypeOK', NEW n \in Session, NEW t \in Table, NEW s \in Seat,
         HandleSitdown(n, t, s),
         NEW u \in Users, NEW r \in View, r.health = "up", Agrees(r, Truth)
  PROVE  Brings(u, r, SitMsg(n, t, s), Truth')
<1> DEFINE q == Handle(u, r, SitMsg(n, t, s))
<1>1. /\ n \in Users /\ Users \subseteq Session /\ Users' = Users /\ table[n] = NoTable
      /\ seats' = [seats EXCEPT ![t][s] = n] /\ table' = [table EXCEPT ![n] = t]
      /\ state' = [state EXCEPT ![n] = "SITDOWN"]
  BY DEF HandleSitdown, MaySit, Running, Users
<1>2. state[n] = "STANDUP"
  BY <1>1 DEF SInv, StateMatchesSeat, Seated
<1>3. /\ SitMsg(n, t, s).cmd = "SITDOWN" /\ SitMsg(n, t, s).user = n
      /\ SitMsg(n, t, s).table = t /\ SitMsg(n, t, s).seat = s
  BY DEF SitMsg
<1>4. q = ClientSitdown(r, u, n, t, s)
  BY <1>3 DEF Handle
<1>5. {u, n} \subseteq r.known
  BY <1>1 DEF Agrees, Truth
<1>6. /\ q.health = "up" /\ q.known = r.known /\ q.state = r.state
      /\ q.table = [r.table EXCEPT ![n] = t] /\ q.seats = [r.seats EXCEPT ![t][s] = n]
  BY <1>4, <1>5 DEF ClientSitdown, View
<1> HIDE DEF q
<1>7. ASSUME NEW v \in Users'
      PROVE  /\ v \in q.known /\ q.table[v] = table'[v]
             /\ q.state[v] = "READY" <=> state'[v] = "READY"
  <2>1. v \in r.known /\ r.table[v] = table[v] /\ (r.state[v] = "READY" <=> state[v] = "READY")
    BY <1>1 DEF Agrees, Truth
  <2>2. v \in Session
    BY <1>1
  <2> QED
    BY <1>1, <1>2, <1>6, <2>1, <2>2 DEF View, SInv, TypeOK
<1>8. ASSUME NEW x \in Table, NEW y \in Seat, seats'[x][y] # NoSession
      PROVE  q.seats[x][y] = seats'[x][y]
  <2>1. CASE x = t /\ y = s
    BY <1>1, <1>6, <2>1 DEF View, SInv, TypeOK
  <2>2. CASE ~(x = t /\ y = s)
    <3>1. seats'[x][y] = seats[x][y] /\ q.seats[x][y] = r.seats[x][y]
      BY <1>1, <1>6, <2>2 DEF View, SInv, TypeOK
    <3> QED
      BY <1>8, <3>1 DEF Agrees, Truth
  <2> QED
    BY <2>1, <2>2
<1>9. Agrees(q, Truth')
  BY <1>7, <1>8 DEF Agrees, Truth
<1> QED
  BY <1>3, <1>6, <1>9 DEF Brings, q

LEMMA BringsReady ==
  ASSUME SInv, NEW n \in Users, HandleReady(n),
         NEW u \in Users, NEW r \in View, r.health = "up", Agrees(r, Truth)
  PROVE  Brings(u, r, StateMsg(n, "READY"), Truth')
<1> DEFINE q == Handle(u, r, StateMsg(n, "READY"))
<1>1. /\ n \in Session /\ Users \subseteq Session /\ "READY" \in UserState /\ Users' = Users
      /\ state' = [state EXCEPT ![n] = "READY"] /\ UNCHANGED <<table, seats>>
  BY DEF Users, UserState, HandleReady
<1>2. /\ q.health = "up" /\ q.known = r.known /\ q.table = r.table /\ q.seats = r.seats
      /\ q.state = [r.state EXCEPT ![n] = "READY"]
  BY <1>1, StateRead
<1> HIDE DEF q
<1>3. Agrees(q, Truth')
  BY <1>1, <1>2 DEF Agrees, Truth, View, SInv, TypeOK
<1>4. StateMsg(n, "READY").cmd # "GAME"
  BY DEF StateMsg
<1> QED
  BY <1>2, <1>3, <1>4 DEF Brings, q

\* The cards come to players at a table that is full and ready.
LEMMA BringsDeal ==
  ASSUME SInv, TypeOK', NEW n \in Session, HandleReady(n), AllReady(table[n], state'),
         NEW y \in Seat, NEW r \in View, r.health = "up", Agrees(r, Truth')
  PROVE  Brings(seats[table[n]][y], r, DealMsg, Truth')
<1> DEFINE t == table[n]
           u == seats[t][y]
<1>1. t \in Table /\ Users' = Users /\ UNCHANGED <<table, seats>>
  BY DEF HandleReady, Seated, SInv, TypeOK, Users
<1>2. \A s \in Seat : /\ seats[t][s] # NoSession /\ state'[seats[t][s]] = "READY"
                      /\ seats[t][s] \in Users /\ table[seats[t][s]] = t
  BY <1>1 DEF AllReady, SInv, SeatsConsistent, TypeOK, Users
<1> HIDE DEF t, u
<1>3. u \in Users /\ table[u] = t /\ seats[t][y] = u
  BY <1>2 DEF u
<1>4. r.table[u] = t /\ t # NoTable
  BY <1>1, <1>3, ServerAssumption DEF Agrees, Truth, Table, NoTable
<1>5. \A s \in Seat : /\ r.seats[t][s] = seats[t][s]
                      /\ r.state[seats[t][s]] = "READY"
  BY <1>1, <1>2 DEF Agrees, Truth
<1>6. AtFullTable(u, r)
  BY <1>2, <1>3, <1>4, <1>5 DEF AtFullTable
<1>7. Handle(u, r, DealMsg) = r
  BY DEF Handle, DealMsg
<1> QED
  BY <1>6, <1>7 DEF Brings, u, t

-----------------------------------------------------------------------------
(* The steps of the lobby                                                  *)

LInv ==
  /\ SInv /\ LobbyTypeOK
  /\ \A u \in Session :
       /\ view[u].health # "null"
       /\ conn[u] # "auth" => chan[u] = <<>>
       /\ conn[u] = "auth" => CatchesUp(u, view[u], chan[u], Truth)

LEMMA QueueNothing == ASSUME out' = <<>>, NEW u PROVE Queue(u) = chan[u]
BY DEF Queue, Told

LEMMA QueueOne ==
  ASSUME NEW to, NEW m, out' = <<Send(to, m)>>, NEW u
  PROVE  Queue(u) = IF u \in to THEN Append(chan[u], m) ELSE chan[u]
BY DEF Queue, Told, Send

LEMMA QueueTwo ==
  ASSUME NEW to, NEW m, NEW to2, NEW m2, out' = <<Send(to, m), Send(to2, m2)>>, NEW u
  PROVE  LET c == IF u \in to THEN Append(chan[u], m) ELSE chan[u]
         IN  Queue(u) = IF u \in to2 THEN Append(c, m2) ELSE c
<1>1. /\ DOMAIN out' = {1, 2}
      /\ out'[1].to = to /\ out'[1].msg = m /\ out'[2].to = to2 /\ out'[2].msg = m2
  BY DEF Send
<1> QED
  BY <1>1 DEF Queue, Told

LEMMA MessageOut ==
  ASSUME NEW o \in Seq([to : SUBSET Session, msg : Message]), NEW i \in DOMAIN o
  PROVE  o[i].msg \in Message
<1>1. o \in Seq(Sent)
  BY DEF Sent
<1>2. o[i] \in Sent
  BY <1>1
<1> QED
  BY <1>2 DEF Sent

\* One message for those who are here, and everybody who stays gets it.
LEMMA AfterOne ==
  ASSUME LInv, TypeOK', NEW u \in Session, conn[u] = "auth",
         NEW to, NEW m, out' = <<Send(to, m)>>, u \in to,
         \A r \in View : r.health = "up" /\ Agrees(r, Truth) => Brings(u, r, m, Truth')
  PROVE  CatchesUp(u, view[u], Queue(u), Truth')
<1>1. chan[u] \in Seq(Message) /\ CatchesUp(u, view[u], chan[u], Truth)
  BY DEF LInv, LobbyTypeOK
<1>2. m \in Message
  <2>1. 1 \in DOMAIN out' /\ out'[1].msg = m
    BY DEF Send
  <2> QED
    BY <2>1, MessageOut DEF TypeOK
<1>3. \A r \in View : r.health # "null" /\ Agrees(r, Truth) => Brings(u, r, m, Truth')
  BY BringsUp
<1>4. Queue(u) = Append(chan[u], m)
  BY QueueOne
<1>5. CatchesUp(u, view[u], Append(chan[u], m), Truth')
  BY <1>1, <1>2, <1>3, ReadMore
<1> QED
  BY <1>4, <1>5

\* Nothing that the clients know of changes but that some users go.
LEMMA AfterNothing ==
  ASSUME LInv, NEW u \in Session, conn[u] = "auth", out' = <<>>,
         Users' \subseteq Users, UNCHANGED <<state, table, seats>>
  PROVE  CatchesUp(u, view[u], Queue(u), Truth')
<1>1. chan[u] \in Seq(Message) /\ CatchesUp(u, view[u], chan[u], Truth)
  BY DEF LInv, LobbyTypeOK
<1>2. \A r \in View : Agrees(r, Truth) => Agrees(r, Truth')
  BY DEF Agrees, Truth
<1>3. CatchesUp(u, view[u], chan[u], Truth')
  BY <1>1, <1>2, ReadSame
<1> QED
  BY <1>3, QueueNothing

\* Nobody is here: what a replica trivially agrees with.
Nobody == [users |-> {}, state |-> [v \in Session |-> "STANDUP"],
           table |-> [v \in Session |-> NoTable],
           seats |-> [t \in Table |-> [s \in Seat |-> NoSession]]]

LEMMA AfterLogin ==
  ASSUME LInv, TypeOK', NEW n \in Session, HandleLogin(n), NEW u \in Session,
         conn'[u] = "auth"
  PROVE  CatchesUp(u, view[u], Queue(u), Truth')
<1> DEFINE first  == LoginMsg({UserInfo(v) : v \in Listed(n)})
           second == AddUserMsg(n)
<1>1. /\ conn[n] = "unauth" /\ n \notin Users /\ (u = n \/ u \in Users)
      /\ out' = <<Send({n}, first), Send(Users, second)>>
  BY DEF HandleLogin, Running, Become, Users, LInv, SInv, TypeOK
<1>2. first \in Message /\ second \in Message
  <2>1. 1 \in DOMAIN out' /\ out'[1].msg = first /\ 2 \in DOMAIN out' /\ out'[2].msg = second
    BY <1>1 DEF Send
  <2> QED
    BY <2>1, MessageOut DEF TypeOK
<1>3. chan[u] \in Seq(Message) /\ view[u] \in View /\ view[u].health # "null"
  BY DEF LInv, LobbyTypeOK, View
<1>4. CASE u = n
  <2>1. chan[n] = <<>> /\ Queue(n) = Append(<<>>, first)
    BY <1>1, QueueTwo DEF LInv
  <2>2. Agrees(view[n], Nobody)
    BY DEF Agrees, Nobody
  <2>3. CatchesUp(n, view[n], <<>>, Nobody)
    BY <1>3, <1>4, <2>2, ReadNothing
  <2>4. \A r \in View : r.health = "up" /\ Agrees(r, Nobody) => Brings(n, r, first, Truth')
    BY BringsLogin DEF LInv
  <2>5. \A r \in View : r.health # "null" /\ Agrees(r, Nobody) => Brings(n, r, first, Truth')
    BY <2>4, BringsUp
  <2>6. <<>> \in Seq(Message)
    OBVIOUS
  <2> HIDE DEF first, second
  <2>7. CatchesUp(n, view[n], Append(<<>>, first), Truth')
    BY <1>2, <2>3, <2>5, <2>6, ReadMore
  <2> QED
    BY <1>4, <2>1, <2>7
<1>5. CASE u \in Users
  <2>1. u # n /\ Queue(u) = Append(chan[u], second)
    BY <1>1, <1>5, QueueTwo
  <2>2. CatchesUp(u, view[u], chan[u], Truth)
    BY <1>5 DEF LInv, Users
  <2>3. \A r \in View : r.health = "up" /\ Agrees(r, Truth) => Brings(u, r, second, Truth')
    BY <1>5, BringsAddUser DEF LInv
  <2>4. \A r \in View : r.health # "null" /\ Agrees(r, Truth) => Brings(u, r, second, Truth')
    BY <2>3, BringsUp
  <2> HIDE DEF first, second
  <2>5. CatchesUp(u, view[u], Append(chan[u], second), Truth')
    BY <1>2, <1>3, <2>2, <2>4, ReadMore
  <2> QED
    BY <2>1, <2>5
<1> QED
  BY <1>1, <1>4, <1>5

LEMMA AfterReady ==
  ASSUME LInv, TypeOK', NEW n \in Session, HandleReady(n), NEW u \in Session,
         conn'[u] = "auth"
  PROVE  CatchesUp(u, view[u], Queue(u), Truth')
<1> DEFINE first == StateMsg(n, "READY")
           to2   == {seats[table[n]][s] : s \in Seat}
<1>1. n \in Users /\ u \in Users /\ conn[u] = "auth"
  BY DEF HandleReady, Running, Users
<1>2. \A r \in View : r.health = "up" /\ Agrees(r, Truth) => Brings(u, r, first, Truth')
  BY <1>1, BringsReady DEF LInv
<1> HIDE DEF first
<1>3. CASE out' = <<Send(Users, first)>>
  BY <1>1, <1>2, <1>3, AfterOne
<1>4. CASE AllReady(table[n], state') /\ out' = <<Send(Users, first), Send(to2, DealMsg)>>
  <2> DEFINE d == Append(chan[u], first)
  <2>1. first \in Message /\ DealMsg \in Message
    <3>1. /\ 1 \in DOMAIN out' /\ out'[1].msg = first
          /\ 2 \in DOMAIN out' /\ out'[2].msg = DealMsg
      BY <1>4 DEF Send
    <3> QED
      BY <3>1, MessageOut DEF TypeOK
  <2>2. chan[u] \in Seq(Message) /\ CatchesUp(u, view[u], chan[u], Truth)
    BY <1>1 DEF LInv, LobbyTypeOK
  <2>3. \A r \in View : r.health # "null" /\ Agrees(r, Truth) => Brings(u, r, first, Truth')
    BY <1>2, BringsUp
  <2>4. d \in Seq(Message) /\ CatchesUp(u, view[u], d, Truth')
    BY <2>1, <2>2, <2>3, ReadMore
  <2>5. Queue(u) = IF u \in to2 THEN Append(d, DealMsg) ELSE d
    BY <1>1, <1>4, QueueTwo
  <2> HIDE DEF d
  <2>6. CASE u \in to2
    <3>1. PICK y \in Seat : u = seats[table[n]][y]
      BY <2>6
    <3>2. \A r \in View : r.health = "up" /\ Agrees(r, Truth') => Brings(u, r, DealMsg, Truth')
      BY <1>4, <3>1, BringsDeal DEF LInv
    <3>3. \A r \in View : r.health # "null" /\ Agrees(r, Truth') =>
            Brings(u, r, DealMsg, Truth')
      BY <3>2, BringsUp
    <3>4. CatchesUp(u, view[u], Append(d, DealMsg), Truth')
      BY <2>1, <2>4, <3>3, ReadMore
    <3> QED
      BY <2>5, <2>6, <3>4
  <2> QED
    BY <2>4, <2>5, <2>6
<1> QED
  BY <1>3, <1>4 DEF HandleReady, Start, first

LEMMA AfterServer ==
  ASSUME LInv, TypeOK', Next, NEW u \in Session, conn'[u] = "auth"
  PROVE  CatchesUp(u, view[u], Queue(u), Truth')
<1> USE DEF Running, Become
<1>1. PICK n \in Session : Kinds(n)
  BY StepKinds DEF LInv, SInv
<1>2. conn \in [Session -> {"none", "unauth", "auth", "gone"}]
  BY DEF LInv, SInv, TypeOK
<1>3. CASE OnConnection(n) \/ DropUnauth(n) \/ HandleGameTooEarly(n) \/ HandleStopServer(n)
  <2>1. /\ conn[u] = "auth" /\ Users' \subseteq Users /\ out' = <<>>
        /\ UNCHANGED <<state, table, seats>>
    BY <1>2, <1>3
       DEF OnConnection, DropUnauth, HandleGameTooEarly, HandleStopServer, Users
  <2> QED
    BY <2>1, AfterNothing
<1>4. CASE HandleLogin(n)
  BY <1>4, AfterLogin
<1>5. CASE HandleStandup(n)
  <2>1. /\ n \in Users /\ u \in Users /\ conn[u] = "auth" /\ Users' \subseteq Users
        /\ Seated(n) /\ Standup(n, Users) /\ table' = table
        /\ out' = <<Send(Users, StateMsg(n, "STANDUP"))>>
    BY <1>5 DEF HandleStandup, Standup, Users
  <2>2. \A r \in View : r.health = "up" /\ Agrees(r, Truth) =>
          Brings(u, r, StateMsg(n, "STANDUP"), Truth')
    BY <2>1, BringsStandup DEF LInv
  <2> QED
    BY <2>1, <2>2, AfterOne
<1>6. CASE OnClose(n) /\ Seated(n)
  <2>1. /\ n \in Users /\ u \in Users \ {n} /\ conn[u] = "auth" /\ Users' \subseteq Users
        /\ Standup(n, Users \ {n}) /\ table' = table
        /\ out' = <<Send(Users \ {n}, StateMsg(n, "STANDUP"))>>
    BY <1>2, <1>6 DEF OnClose, Standup, Users
  <2>2. \A r \in View : r.health = "up" /\ Agrees(r, Truth) =>
          Brings(u, r, StateMsg(n, "STANDUP"), Truth')
    BY <1>6, <2>1, BringsStandup DEF LInv
  <2> QED
    BY <2>1, <2>2, AfterOne
<1>7. CASE OnClose(n) /\ ~Seated(n)
  <2>1. /\ conn[u] = "auth" /\ Users' \subseteq Users /\ out' = <<>>
        /\ UNCHANGED <<state, table, seats>>
    BY <1>2, <1>7 DEF OnClose, Users
  <2> QED
    BY <2>1, AfterNothing
<1>8. CASE \E t \in Table, s \in Seat : HandleSitdown(n, t, s)
  <2>1. PICK t \in Table, s \in Seat : HandleSitdown(n, t, s)
    BY <1>8
  <2>2. /\ u \in Users /\ conn[u] = "auth" /\ out' = <<Send(Users, SitMsg(n, t, s))>>
    BY <2>1 DEF HandleSitdown, Users
  <2>3. \A r \in View : r.health = "up" /\ Agrees(r, Truth) =>
          Brings(u, r, SitMsg(n, t, s), Truth')
    BY <2>1, <2>2, BringsSitdown DEF LInv
  <2> QED
    BY <2>2, <2>3, AfterOne
<1>9. CASE HandleReady(n)
  BY <1>9, AfterReady
<1> QED
  BY <1>1, <1>3, <1>4, <1>5, <1>6, <1>7, <1>8, <1>9 DEF Kinds

LEMMA AfterDeliver ==
  ASSUME LInv, NEW n \in Session, Deliver(n), NEW u \in Session
  PROVE  /\ view'[u].health # "null"
         /\ conn'[u] # "auth" => chan'[u] = <<>>
         /\ conn'[u] = "auth" => CatchesUp(u, view'[u], chan'[u], Truth')
<1>1. /\ chan \in [Session -> Seq(Message)] /\ view \in [Session -> View]
      /\ conn' = conn /\ Truth' = Truth
  BY DEF LInv, LobbyTypeOK, View, Deliver, vars, Truth, Users
<1>2. CASE u # n
  <2>1. chan'[u] = chan[u] /\ view'[u] = view[u]
    BY <1>1, <1>2 DEF Deliver
  <2> QED
    BY <1>1, <2>1 DEF LInv
<1>3. CASE u = n
  <2>1. /\ view'[u] = Handle(u, view[u], Head(chan[u])) /\ chan'[u] = Tail(chan[u])
        /\ chan[u] # <<>> /\ chan[u] \in Seq(Message) /\ Tail(chan[u]) \in Seq(Message)
    BY <1>1, <1>3 DEF Deliver
  <2>2. conn[u] = "auth" /\ CatchesUp(u, view[u], chan[u], Truth)
    BY <2>1 DEF LInv
  <2>3. CatchesUp(u, view'[u], chan'[u], Truth)
    BY <2>1, <2>2, ReadOne
  <2>4. PICK f : Reading(f, u, view'[u], chan'[u])
    BY <2>3 DEF CatchesUp
  <2>5. f[0] = view'[u] /\ 0 \in 0 .. Len(chan'[u])
    <3> DEFINE c == chan'[u]
               w == view'[u]
    <3>1. c \in Seq(Message) /\ Reading(f, u, w, c) /\ Len(c) \in Nat
      BY <2>1, <2>4
    <3> HIDE DEF c, w
    <3>2. f[0] = w
      BY <3>1, ReadingGives
    <3> QED
      BY <3>1, <3>2 DEF c, w
  <2>6. f[0].health # "null"
    BY <2>3, <2>4, <2>5 DEF CatchesUp, Sound
  <2> QED
    BY <1>1, <2>2, <2>3, <2>5, <2>6
<1> QED
  BY <1>2, <1>3

LEMMA LNext == LInv /\ [LobbyNext]_lobbyVars => LInv'
<1> SUFFICES ASSUME LInv, [LobbyNext]_lobbyVars PROVE LInv'
  OBVIOUS
<1>1. SInv' /\ TypeOK' /\ LobbyTypeOK'
  BY ServerSteps, SNext, TypeNext, LobbyTypeNext DEF LInv, SInv
<1>2. CASE ServerStep
  <2>1. ASSUME NEW u \in Session
        PROVE  /\ view'[u].health # "null"
               /\ conn'[u] # "auth" => chan'[u] = <<>>
               /\ conn'[u] = "auth" => CatchesUp(u, view'[u], chan'[u], Truth')
    <3>1. /\ Next /\ view' = view
          /\ chan'[u] = IF conn'[u] = "auth" THEN Queue(u) ELSE <<>>
      BY <1>2 DEF ServerStep
    <3>2. conn'[u] = "auth" => CatchesUp(u, view[u], Queue(u), Truth')
      BY <1>1, <3>1, AfterServer
    <3> QED
      BY <3>1, <3>2 DEF LInv
  <2> QED
    BY <1>1, <2>1 DEF LInv
<1>3. CASE \E n \in Session : Deliver(n)
  BY <1>1, <1>3, AfterDeliver DEF LInv
<1>4. CASE UNCHANGED lobbyVars
  <2>1. conn' = conn /\ chan' = chan /\ view' = view /\ Truth' = Truth
    BY <1>4 DEF lobbyVars, vars, Truth, Users
  <2> QED
    BY <1>1, <2>1 DEF LInv
<1> QED
  BY <1>2, <1>3, <1>4 DEF LobbyNext

LEMMA LInit == LobbyInit => LInv
<1> SUFFICES ASSUME LobbyInit PROVE LInv
  OBVIOUS
<1>1. ASSUME NEW u \in Session
      PROVE chan[u] = <<>> /\ view[u].health = "up" /\ conn[u] = "none"
  BY DEF LobbyInit, Init, EmptyView
<1> QED
  BY <1>1, LobbyTypeInit, SInit DEF LInv, LobbyInit

LEMMA LobbyInvariance == LobbySpec => []LInv
BY LInit, LNext, PTL DEF LobbySpec

\* Caught is the end of a reading.
LEMMA CaughtAgrees ==
  ASSUME LInv, NEW u \in Users
  PROVE  Agrees(Caught(u), Truth)
<1> DEFINE c    == chan[u]
           w[i \in 0 .. Len(c)] == IF i = 0 THEN view[u] ELSE Handle(u, w[i - 1], c[i])
<1>1. CatchesUp(u, view[u], c, Truth)
  BY DEF LInv, Users
<1>2. Caught(u) = w[Len(c)]
  BY DEF Caught
<1>3. w = CHOOSE f : Reading(f, u, view[u], c)
  BY DEF Reading
<1> HIDE DEF w, c
<1>4. Reading(w, u, view[u], c)
  BY <1>1, <1>3 DEF CatchesUp
<1>5. Agrees(w[Len(c)], Truth)
  BY <1>1, <1>4 DEF CatchesUp, Sound
<1> QED
  BY <1>2, <1>5

-----------------------------------------------------------------------------
(* The theorems                                                            *)

\* No message names a user that its client has not heard of, for any number of
\* sessions and of messages on the way (GameLogi.cpp:146-170): what is on its
\* way always makes the client know everybody who is here.
THEOREM LobbyNobodyUnknown == LobbySpec => []NobodyUnknown
<1>1. LInv => NobodyUnknown
  BY DEF LInv, NobodyUnknown
<1> QED
  BY <1>1, LobbyInvariance, PTL

\* A client that has read all that is on its way has everybody who is seated on
\* the right seat (GameLogi.cpp:120-162, game_table.cpp:73-92).
THEOREM LobbySeatsCatchUp == LobbySpec => []SeatsCatchUp
<1>1. LInv => SeatsCatchUp
  BY CaughtAgrees DEF SeatsCatchUp, Agrees, Truth
<1> QED
  BY <1>1, LobbyInvariance, PTL

\* And it has exactly the ready users as ready (GameLogi.cpp:126, 141, 165-168).
THEOREM LobbyReadyCatchesUp == LobbySpec => []ReadyCatchesUp
<1>1. LInv => ReadyCatchesUp
  BY CaughtAgrees DEF ReadyCatchesUp, Agrees, Truth
<1> QED
  BY <1>1, LobbyInvariance, PTL

\* The cards of a game reach a client when it has its table full of players who
\* are ready (game_table.cpp:95-113, HelloWorldScene.cpp:269-271).
THEOREM LobbyDealFindsTable == LobbySpec => []DealFindsTable
<1>1. ASSUME LInv, NEW u \in Users, chan[u] # <<>>, Head(chan[u]).cmd = "GAME",
             view[u].health = "up"
      PROVE  AtFullTable(u, view[u])
  <2>1. CatchesUp(u, view[u], chan[u], Truth) /\ chan[u] \in Seq(Message)
    BY <1>1 DEF LInv, LobbyTypeOK, Users
  <2>2. PICK f : Reading(f, u, view[u], chan[u])
    BY <2>1 DEF CatchesUp
  <2>3. f[0] = view[u]
    BY <2>1, <2>2, ReadingGives
  <2>4. 1 \in 1 .. Len(chan[u]) /\ 1 - 1 = 0 /\ Head(chan[u]) = chan[u][1]
    BY <1>1, <2>1
  <2>5. chan[u][1].cmd = "GAME" /\ f[1 - 1].health = "up" => AtFullTable(u, f[1 - 1])
    BY <2>1, <2>2, <2>4 DEF CatchesUp, Sound
  <2> QED
    BY <1>1, <2>3, <2>4, <2>5
<1>2. LInv => DealFindsTable
  BY <1>1 DEF DealFindsTable
<1> QED
  BY <1>2, LobbyInvariance, PTL
=============================================================================
