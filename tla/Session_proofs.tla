--------------------------- MODULE Session_proofs ---------------------------
(***************************************************************************)
(* Proofs about Session: the sending side implements Channel, and what     *)
(* keeps an open session alive and a closed one quiet.                     *)
(***************************************************************************)
EXTENDS Session, SequenceTheorems, TLAPS

-----------------------------------------------------------------------------
(* Sequences                                                               *)

LEMMA SendAtEnd ==
  ASSUME NEW S, NEW q \in Seq(S), NEW p \in Seq(S), NEW m \in S
  PROVE  q \o Append(p, m) = Append(q \o p, m)
OBVIOUS

LEMMA MoveOver ==
  ASSUME NEW S, NEW q \in Seq(S), NEW p \in Seq(S), p # <<>>
  PROVE  Append(q, Head(p)) \o Tail(p) = q \o p
OBVIOUS

LEMMA TakeFront ==
  ASSUME NEW S, NEW q \in Seq(S), NEW p \in Seq(S), q # <<>>
  PROVE  /\ q \o p # <<>>
         /\ Head(q \o p) = Head(q)
         /\ Tail(q \o p) = Tail(q) \o p
OBVIOUS

LEMMA OneIsPrefix ==
  ASSUME NEW S, NEW q \in Seq(S), NEW p \in Seq(S), q # <<>>
  PROVE  /\ Len(q \o p) \in Nat /\ 1 \in 0 .. Len(q \o p)
         /\ <<Head(q)>> = SubSeq(q \o p, 1, 1)
OBVIOUS

LEMMA NoneIsPrefix ==
  ASSUME NEW S, NEW q \in Seq(S)
  PROVE  0 \in 0 .. Len(q) /\ <<>> = SubSeq(q, 1, 0)
OBVIOUS

LEMMA TailInSeq ==
  ASSUME NEW S, NEW q \in Seq(S)
  PROVE  /\ q # <<>> => Head(q) \in S /\ Tail(q) \in Seq(S)
         /\ Len(q) > 1 => /\ q # <<>> /\ q[2] \in S /\ q[2] = Head(Tail(q))
                          /\ Tail(q) # <<>>
         /\ q # <<>> /\ ~(Len(q) > 1) => Tail(q) = <<>>
OBVIOUS

LEMMA AppendToNone ==
  ASSUME NEW x
  PROVE  Append(<<>>, x) = <<x>> /\ Len(<<x>>) = 1 /\ Head(<<x>>) = x
OBVIOUS

LEMMA AppendToSome ==
  ASSUME NEW S, NEW q \in Seq(S), NEW x \in S, q # <<>>
  PROVE  /\ Append(q, x) # <<>> /\ Len(Append(q, x)) # 1
         /\ Head(Append(q, x)) = Head(q)
OBVIOUS

-----------------------------------------------------------------------------
(* The inductive invariant                                                 *)

\* The parts in the socket are whole frames but for the body that is owed, and
\* the reader waits for the part that comes next: what makes it hand out
\* messages only.
HasBody(p) == p.part = "head" /\ p.msg # Empty
Framed ==
  link = "open" =>
    /\ \A i \in 1 .. Len(input) : input[i].part = "body" => input[i].msg # Empty
    /\ \A i \in 1 .. Len(input) - 1 :
         input[i + 1].part = "body" <=> HasBody(input[i])
    /\ input = <<>> => (reading = "body" <=> owed # Empty)
    /\ input # <<>> => /\ reading = "body" <=> input[1].part = "body"
                       /\ HasBody(input[Len(input)]) <=> owed # Empty

\* At most one write is pending, of the frame at the front of the queue.
OneWrite ==
  /\ Len(writes) <= 1
  /\ writes # <<>> => queue # <<>>
  /\ link = "open" /\ queue = <<>> => writes = <<>>
  /\ link = "open" /\ queue # <<>> => writes = <<Head(queue)>>

LEMMA InitInv == Init => TypeOK /\ Framed /\ OneWrite
BY DEF Init, TypeOK, Framed, HasBody, OneWrite

-----------------------------------------------------------------------------
(* Type correctness                                                        *)

LEMMA TypePeer ==
  ASSUME TypeOK, Peer \/ Expire
  PROVE  TypeOK'
<1> USE DEF TypeOK, Part, PeerOnly, sendVars, peerVars
<1>1. ASSUME NEW m \in Message \cup {Empty}, PeerSendsHead(m) PROVE TypeOK'
  BY <1>1 DEF PeerSendsHead
<1>2. CASE PeerSendsBody
  BY <1>2 DEF PeerSendsBody
<1>3. CASE PeerGoes
  BY <1>3 DEF PeerGoes
<1>4. CASE Expire
  BY <1>4 DEF Expire
<1> QED
  BY <1>1, <1>2, <1>3, <1>4 DEF Peer

\* What a pending read of a body finds is a message.
LEMMA BodyRead ==
  ASSUME TypeOK, Framed, link = "open", reading = "body", input # <<>>
  PROVE  Head(input).msg \in Message
<1>1. input[1] \in Part /\ Head(input) = input[1] /\ 1 \in 1 .. Len(input)
  BY DEF TypeOK
<1>2. input[1].part = "body" /\ input[1].msg # Empty
  BY <1>1 DEF Framed
<1> QED
  BY <1>1, <1>2 DEF Part

LEMMA TypeRead ==
  ASSUME TypeOK, Framed, OnHead \/ OnBody \/ OnReadError \/ OnTimeout
  PROVE  TypeOK'
<1> USE DEF TypeOK, sendVars, peerVars, SetTimer
<1>1. CASE OnHead
  <2>1. input' \in Seq(Part)
    BY <1>1, TailInSeq DEF OnHead
  <2>2. reading' \in {"head", "body"} /\ cb' = "none" /\ waits' = 1
    BY <1>1 DEF OnHead, ReadBody
  <2> QED
    BY <1>1, <2>1, <2>2 DEF OnHead
<1>2. CASE OnBody
  <2>1. input' \in Seq(Part) /\ received' \in Seq(Message)
    BY <1>2, BodyRead, TailInSeq DEF OnBody
  <2>2. /\ link' \in {"open", "closed"} /\ reading' \in {"none", "head"}
        /\ cb' = "message" /\ waits' \in 0 .. 1
    BY <1>2 DEF OnBody
  <2> QED
    BY <1>2, <2>1, <2>2 DEF OnBody
<1>3. CASE OnReadError
  BY <1>3 DEF OnReadError, OnError
<1>4. CASE OnTimeout
  <2>1. cb' \in {"none", "message", "timeout", "close"} /\ waits' \in 0 .. 1
    BY <1>4 DEF OnTimeout, Timeout
  <2> QED
    BY <1>4, <2>1 DEF OnTimeout
<1> QED
  BY <1>1, <1>2, <1>3, <1>4

LEMMA TypeSend ==
  ASSUME TypeOK, OneWrite,
         (\E m \in Message : SendMessage(m)) \/ OnPosted \/ OnWritten \/ OnWriteError
  PROVE  TypeOK'
<1> USE DEF TypeOK, sendVars, peerVars
<1>1. ASSUME NEW m \in Message, SendMessage(m) PROVE TypeOK'
  BY <1>1 DEF SendMessage
<1>2. CASE OnPosted
  <2>1. posted' \in Seq(Message) /\ Head(posted) \in Message
    BY <1>2, TailInSeq DEF OnPosted
  <2>2. Append(queue, Head(posted)) \in Seq(Message)
    BY <2>1
  <2>3. Append(writes, Head(Append(queue, Head(posted)))) \in Seq(Message)
    BY <2>2, TailInSeq
  <2>4. queue' \in Seq(Message) /\ writes' \in Seq(Message)
    BY <1>2, <2>2, <2>3 DEF OnPosted, WriteIfAlone
  <2> QED
    BY <1>2, <2>1, <2>4 DEF OnPosted
<1>3. CASE OnWritten
  <2>1. wire' \in Seq(Message) /\ queue' \in Seq(Message) /\ Tail(writes) \in Seq(Message)
    BY <1>3, TailInSeq DEF OnWritten, OneWrite
  <2>2. Len(queue) > 1 => queue[2] \in Message
    BY TailInSeq
  <2>3. writes' \in Seq(Message)
    BY <1>3, <2>1, <2>2 DEF OnWritten
  <2> QED
    BY <1>3, <2>1, <2>3 DEF OnWritten
<1>4. CASE OnWriteError
  <2>1. writes' \in Seq(Message)
    BY <1>4, TailInSeq DEF OnWriteError
  <2>2. /\ link' \in {"open", "closed"} /\ reading' \in {"none", "head", "body"}
        /\ cb' \in {"none", "message", "timeout", "close"} /\ waits' \in 0 .. 1
    BY <1>4 DEF OnWriteError, OnError
  <2> QED
    BY <1>4, <2>1, <2>2 DEF OnWriteError
<1> QED
  BY <1>1, <1>2, <1>3, <1>4

LEMMA TypeNext == TypeOK /\ Framed /\ OneWrite /\ [Next]_vars => TypeOK'
<1> SUFFICES ASSUME TypeOK, Framed, OneWrite, [Next]_vars PROVE TypeOK'
  OBVIOUS
<1>1. CASE UNCHANGED vars
  BY <1>1 DEF TypeOK, vars, sendVars, peerVars
<1>2. CASE Next
  BY <1>2, TypePeer, TypeRead, TypeSend DEF Next
<1> QED
  BY <1>1, <1>2

-----------------------------------------------------------------------------
(* One write at a time                                                     *)

LEMMA OneWriteNext == TypeOK /\ OneWrite /\ [Next]_vars => OneWrite'
<1> SUFFICES ASSUME TypeOK, OneWrite, [Next]_vars PROVE OneWrite'
  OBVIOUS
<1> USE DEF OneWrite
<1>1. CASE UNCHANGED vars
  BY <1>1 DEF vars, sendVars
<1>2. CASE Peer \/ Expire
  BY <1>2 DEF Peer, PeerOnly, PeerSendsHead, PeerSendsBody, PeerGoes, Expire,
              sendVars
<1>3. CASE OnHead \/ OnBody \/ OnReadError \/ OnTimeout
  BY <1>3 DEF OnHead, OnBody, OnReadError, OnTimeout, OnError, sendVars
<1>4. ASSUME NEW m \in Message, SendMessage(m) PROVE OneWrite'
  BY <1>4 DEF SendMessage
<1>5. CASE OnPosted
  <2>1. CASE link = "closed"
    BY <1>5, <2>1 DEF OnPosted
  <2>2. CASE link = "open" /\ queue = <<>>
    <3>1. Head(posted) \in Message /\ writes = <<>>
      BY <1>5, <2>2, TailInSeq DEF OnPosted, TypeOK
    <3>2. queue' = <<Head(posted)>> /\ writes' = <<Head(posted)>>
      BY <1>5, <2>2, <3>1, AppendToNone DEF OnPosted, WriteIfAlone
    <3> QED
      BY <1>5, <2>2, <3>2 DEF OnPosted
  <2>3. CASE link = "open" /\ queue # <<>>
    <3>1. Head(posted) \in Message /\ link' = "open"
      BY <1>5, <2>3, TailInSeq DEF OnPosted, TypeOK
    <3>2. queue' = Append(queue, Head(posted)) /\ writes' = writes
      BY <1>5, <2>3, <3>1, AppendToSome DEF OnPosted, WriteIfAlone, TypeOK
    <3>3. queue' # <<>> /\ Head(queue') = Head(queue)
      BY <2>3, <3>1, <3>2, AppendToSome DEF TypeOK
    <3> QED
      BY <2>3, <3>1, <3>2, <3>3
  <2> QED
    BY <2>1, <2>2, <2>3 DEF TypeOK
<1>6. CASE OnWritten
  <2>1. /\ queue # <<>> /\ queue' = Tail(queue) /\ Tail(writes) = <<>>
        /\ link' = link
    BY <1>6 DEF OnWritten, TypeOK
  <2>2. CASE link = "closed"
    BY <1>6, <2>1, <2>2 DEF OnWritten
  <2>3. CASE link = "open" /\ Len(queue) > 1
    <3>1. queue[2] \in Message /\ queue[2] = Head(Tail(queue)) /\ Tail(queue) # <<>>
      BY <2>3, TailInSeq DEF TypeOK
    <3>2. writes' = <<queue[2]>>
      BY <1>6, <2>1, <2>3, <3>1, AppendToNone DEF OnWritten
    <3> QED
      BY <2>1, <2>3, <3>1, <3>2
  <2>4. CASE link = "open" /\ ~(Len(queue) > 1)
    <3>1. Tail(queue) = <<>>
      BY <2>1, <2>4, TailInSeq DEF TypeOK
    <3> QED
      BY <1>6, <2>1, <2>4, <3>1 DEF OnWritten
  <2> QED
    BY <2>2, <2>3, <2>4 DEF TypeOK
<1>7. CASE OnWriteError
  BY <1>7 DEF OnWriteError, OnError, TypeOK
<1> QED
  BY <1>1, <1>2, <1>3, <1>4, <1>5, <1>6, <1>7 DEF Next

-----------------------------------------------------------------------------
(* The place of the reader                                                 *)

LEMMA FramedPeer ==
  ASSUME TypeOK, Framed, Peer \/ Expire
  PROVE  Framed'
<1> USE DEF Framed, HasBody
<1>1. ASSUME NEW m \in Message \cup {Empty}, PeerSendsHead(m) PROVE Framed'
  <2> DEFINE p == [part |-> "head", msg |-> m]
  <2>1. /\ input' = Append(input, p) /\ owed' = m /\ owed = Empty
        /\ link' = link /\ reading' = reading
    BY <1>1 DEF PeerSendsHead, PeerOnly
  <2>2. p \in Part /\ p.part = "head" /\ p.msg = m
    BY DEF Part
  <2> HIDE DEF p
  <2>3. /\ Len(input') = Len(input) + 1 /\ input'[Len(input) + 1] = p
        /\ \A i \in 1 .. Len(input) : input'[i] = input[i]
    BY <2>1, <2>2 DEF TypeOK
  <2> QED
    BY <2>1, <2>2, <2>3 DEF TypeOK
<1>2. CASE PeerSendsBody
  <2> DEFINE p == [part |-> "body", msg |-> owed]
  <2>1. /\ input' = Append(input, p) /\ owed' = Empty /\ owed # Empty
        /\ link' = link /\ reading' = reading
    BY <1>2 DEF PeerSendsBody, PeerOnly
  <2>2. p \in Part /\ p.part = "body" /\ p.msg = owed
    BY DEF Part, TypeOK
  <2> HIDE DEF p
  <2>3. /\ Len(input') = Len(input) + 1 /\ input'[Len(input) + 1] = p
        /\ \A i \in 1 .. Len(input) : input'[i] = input[i]
        /\ Len(input) \in Nat /\ input' # <<>> /\ (input = <<>> <=> Len(input) = 0)
    <3>1. input \in Seq(Part)
      BY DEF TypeOK
    <3>2. input = <<>> <=> Len(input) = 0
      BY <3>1, EmptySeq
    <3>3. Append(input, p) # <<>>
      BY <3>1, <2>2
    <3> QED
      BY <2>1, <2>2, <3>1, <3>2, <3>3
  <2>4. CASE link = "open" /\ input = <<>>
    BY <2>1, <2>2, <2>3, <2>4
  <2>5. CASE link = "open" /\ input # <<>>
    <3>1. HasBody(input[Len(input)])
      BY <2>1, <2>5
    <3>2. \A i \in 1 .. Len(input') - 1 :
            input'[i + 1].part = "body" <=> HasBody(input'[i])
      <4>1. ASSUME NEW i \in 1 .. Len(input) - 1
            PROVE  input'[i + 1].part = "body" <=> HasBody(input'[i])
        BY <2>3, <2>5, <4>1
      <4> QED
        BY <2>2, <2>3, <3>1, <4>1
    <3>3. \A i \in 1 .. Len(input') : input'[i].part = "body" => input'[i].msg # Empty
      BY <2>1, <2>2, <2>3, <2>5
    <3> QED
      BY <2>1, <2>2, <2>3, <2>5, <3>2, <3>3
  <2> QED
    BY <2>1, <2>4, <2>5
<1>3. CASE PeerGoes \/ Expire
  BY <1>3 DEF PeerGoes, PeerOnly, Expire, peerVars
<1> QED
  BY <1>1, <1>2, <1>3 DEF Peer

LEMMA FramedRead ==
  ASSUME TypeOK, Framed, OnHead \/ OnBody
  PROVE  Framed'
<1> USE DEF Framed, HasBody
<1>1. /\ link = "open" /\ input # <<>> /\ input' = Tail(input) /\ owed' = owed
  BY DEF OnHead, OnBody
<1>2. /\ Len(input) \in Nat \ {0} /\ Len(input') = Len(input) - 1
      /\ \A i \in 1 .. Len(input') : input'[i] = input[i + 1]
      /\ input[1] \in Part /\ Head(input) = input[1]
  BY <1>1 DEF TypeOK
<1>3. input' = <<>> <=> Len(input) = 1
  <2>1. input' \in Seq(Part) /\ (input' = <<>> <=> Len(input') = 0)
    BY <1>1, TailInSeq, EmptySeq DEF TypeOK
  <2> QED
    BY <1>2, <2>1
<1>f. /\ \A i \in 1 .. Len(input') : input'[i].part = "body" => input'[i].msg # Empty
      /\ \A i \in 1 .. Len(input') - 1 :
           input'[i + 1].part = "body" <=> HasBody(input'[i])
  <2>1. ASSUME NEW i \in 1 .. Len(input')
        PROVE  input'[i].part = "body" => input'[i].msg # Empty
    <3>1. i + 1 \in 1 .. Len(input) /\ input'[i] = input[i + 1]
      BY <1>2
    <3> QED
      BY <1>1, <3>1
  <2>2. ASSUME NEW i \in 1 .. Len(input') - 1
        PROVE  input'[i + 1].part = "body" <=> HasBody(input'[i])
    <3>1. /\ i + 1 \in 1 .. Len(input) - 1 /\ input'[i] = input[i + 1]
          /\ input'[i + 1] = input[(i + 1) + 1]
      BY <1>2
    <3> QED
      BY <1>1, <3>1
  <2> QED
    BY <2>1, <2>2
<1>l. /\ Len(input) = 1 => (HasBody(input[1]) <=> owed # Empty)
      /\ Len(input) > 1 =>
           /\ input'[1].part = "body" <=> HasBody(input[1])
           /\ HasBody(input'[Len(input')]) <=> owed # Empty
  <2>1. HasBody(input[Len(input)]) <=> owed # Empty
    BY <1>1
  <2>2. CASE Len(input) > 1
    <3>1. /\ 1 \in 1 .. Len(input) - 1 /\ input'[1] = input[1 + 1]
          /\ input'[Len(input')] = input[Len(input)]
      BY <1>2, <2>2
    <3> QED
      BY <1>1, <2>1, <3>1
  <2> QED
    BY <2>1, <2>2
<1>4. CASE OnHead
  <2>1. link' = "open" /\ reading' = IF input[1].msg = Empty THEN "head" ELSE "body"
    BY <1>1, <1>2, <1>4 DEF OnHead, ReadBody
  <2>2. input[1].part = "head"
    BY <1>1, <1>2, <1>4 DEF OnHead, Part
  <2>3. reading' = "body" <=> HasBody(input[1])
    BY <2>1, <2>2
  <2> QED
    BY <1>1, <1>2, <1>3, <1>f, <1>l, <2>3
<1>5. CASE OnBody /\ reading' = "head"
  <2>1. reading' = "head" /\ reading = "body"
    BY <1>5 DEF OnBody
  <2>2. input[1].part = "body"
    BY <1>1, <1>2, <2>1
  <2>3. ~ HasBody(input[1]) /\ reading' # "body"
    BY <2>1, <2>2
  <2> QED
    BY <1>1, <1>2, <1>3, <1>f, <1>l, <2>3
<1>6. CASE OnBody /\ link' = "closed"
  BY <1>6
<1> QED
  BY <1>4, <1>5, <1>6 DEF OnBody

LEMMA FramedNext == TypeOK /\ Framed /\ [Next]_vars => Framed'
<1> SUFFICES ASSUME TypeOK, Framed, [Next]_vars PROVE Framed'
  OBVIOUS
<1>1. CASE OnTimeout \/ (\E m \in Message : SendMessage(m)) \/ OnPosted \/ OnWritten
             \/ UNCHANGED vars
  BY <1>1 DEF OnTimeout, SendMessage, OnPosted, OnWritten, vars, peerVars, Framed
<1>2. CASE OnReadError \/ OnWriteError
  BY <1>2 DEF OnReadError, OnWriteError, OnError, peerVars, Framed
<1> QED
  BY <1>1, <1>2, FramedPeer, FramedRead DEF Next

-----------------------------------------------------------------------------
(* What is handed out                                                      *)

\* The messages handed out are the first of those sent ...
FirstOf(r, t) == Len(r) <= Len(t) /\ \A i \in 1 .. Len(r) : r[i] = t[i]

\* ... and the bodies in the socket are the others, in order: with part i of
\* the socket the first g[i] messages have arrived.
Places(g, q, r, t) ==
  /\ g \in [0 .. Len(q) -> Nat]
  /\ g[0] = Len(r) /\ g[Len(q)] = Len(t)
  /\ \A i \in 1 .. Len(q) :
       /\ g[i] = g[i - 1] + (IF q[i].part = "body" THEN 1 ELSE 0)
       /\ q[i].part = "body" => g[i] <= Len(t) /\ t[g[i]] = q[i].msg

InOrder ==
  /\ FirstOf(received, told)
  /\ link = "open" => \E g : Places(g, input, received, told)

LEMMA PrefixIsFirst ==
  ASSUME NEW S, NEW r \in Seq(S), NEW t \in Seq(S), FirstOf(r, t)
  PROVE  IsPrefix(r, t)
<1>1. Len(r) \in Nat /\ Len(t) \in Nat /\ Len(r) <= Len(t)
  BY DEF FirstOf
<1>2. /\ SubSeq(r, 1, Len(r)) = [i \in 1 .. Len(r) |-> r[i]]
      /\ SubSeq(t, 1, Len(r)) = [i \in 1 .. Len(r) |-> t[i]]
  BY <1>1
<1> QED
  BY <1>1, <1>2 DEF FirstOf, IsPrefix

\* A part that arrives: a body completes a message.
LEMMA PartArrives ==
  ASSUME NEW q \in Seq(Part), NEW r \in Seq(Message), NEW t \in Seq(Message),
         NEW p \in Part, NEW u \in Seq(Message),
         p.part = "head" => u = t,
         p.part = "body" => u = Append(t, p.msg) /\ p.msg \in Message,
         NEW g, Places(g, q, r, t)
  PROVE  \E h : Places(h, Append(q, p), r, u)
<1> DEFINE N == Len(q)
           d == Append(q, p)
           h == [i \in 0 .. N + 1 |-> IF i = N + 1 THEN Len(u) ELSE g[i]]
<1>1. /\ N \in Nat /\ Len(d) = N + 1 /\ d[N + 1] = p
      /\ \A i \in 1 .. N : d[i] = q[i]
  OBVIOUS
<1>2. /\ Len(t) \in Nat /\ Len(u) = Len(t) + (IF p.part = "body" THEN 1 ELSE 0)
      /\ \A i \in 1 .. Len(t) : u[i] = t[i]
      /\ p.part = "body" => u[Len(u)] = p.msg
  <2>1. p.part \in {"head", "body"}
    BY DEF Part
  <2>2. CASE p.part = "head"
    BY <2>2
  <2>3. CASE p.part = "body"
    BY <2>3
  <2> QED
    BY <2>1, <2>2, <2>3
<1> HIDE DEF d
<1>3. /\ g \in [0 .. N -> Nat] /\ g[0] = Len(r) /\ g[N] = Len(t)
      /\ \A i \in 1 .. N :
           /\ g[i] = g[i - 1] + (IF q[i].part = "body" THEN 1 ELSE 0)
           /\ q[i].part = "body" => g[i] <= Len(t) /\ t[g[i]] = q[i].msg
  BY DEF Places
<1> HIDE DEF N
<1>4. /\ h \in [0 .. N + 1 -> Nat] /\ h[N + 1] = Len(u)
      /\ \A i \in 0 .. N : h[i] = g[i]
  BY <1>1, <1>2, <1>3
<1> HIDE DEF h
<1>5. ASSUME NEW i \in 1 .. N
      PROVE  /\ h[i] = h[i - 1] + (IF d[i].part = "body" THEN 1 ELSE 0)
             /\ d[i].part = "body" => h[i] <= Len(u) /\ u[h[i]] = d[i].msg
  <2>1. i \in 0 .. N /\ i - 1 \in 0 .. N /\ h[i] = g[i] /\ h[i - 1] = g[i - 1] /\ d[i] = q[i]
    BY <1>1, <1>4
  <2>2. /\ g[i] = g[i - 1] + (IF q[i].part = "body" THEN 1 ELSE 0)
        /\ q[i].part = "body" => g[i] <= Len(t) /\ t[g[i]] = q[i].msg
        /\ g[i] \in Nat /\ g[i - 1] \in Nat
    BY <1>3, <2>1
  <2>3. ASSUME q[i].part = "body" PROVE g[i] \in 1 .. Len(t) /\ g[i] <= Len(u)
    BY <1>2, <2>2, <2>3
  <2>4. q[i].part = "body" => u[g[i]] = q[i].msg
    BY <1>2, <2>2, <2>3
  <2> QED
    BY <2>1, <2>2, <2>3, <2>4
<1>6. /\ h[N + 1] = h[N] + (IF d[N + 1].part = "body" THEN 1 ELSE 0)
      /\ d[N + 1].part = "body" => h[N + 1] <= Len(u) /\ u[h[N + 1]] = d[N + 1].msg
  BY <1>1, <1>2, <1>3, <1>4
<1>7. \A i \in 1 .. N + 1 : i \in 1 .. N \/ i = N + 1
  BY <1>1
<1>8. (N + 1) - 1 = N /\ 0 \in 0 .. N
  BY <1>1
<1>9. Places(h, d, r, u)
  BY <1>1, <1>3, <1>4, <1>5, <1>6, <1>7, <1>8 DEF Places
<1> QED
  BY <1>9 DEF d

\* A part that is read: a body is the next message.
LEMMA PartIsRead ==
  ASSUME NEW q \in Seq(Part), q # <<>>, NEW r \in Seq(Message), NEW t \in Seq(Message),
         NEW v \in Seq(Message), FirstOf(r, t),
         q[1].part = "head" => v = r,
         q[1].part = "body" => v = Append(r, q[1].msg) /\ q[1].msg \in Message,
         NEW g, Places(g, q, r, t)
  PROVE  FirstOf(v, t) /\ \E h : Places(h, Tail(q), v, t)
<1> DEFINE N == Len(q) - 1
           d == Tail(q)
           h == [i \in 0 .. N |-> g[i + 1]]
<1>1. /\ N \in Nat /\ Len(q) = N + 1 /\ Len(d) = N /\ q[1] \in Part
      /\ \A i \in 1 .. N : d[i] = q[i + 1]
  OBVIOUS
<1> HIDE DEF d
<1>3. /\ g \in [0 .. N + 1 -> Nat] /\ g[0] = Len(r) /\ g[N + 1] = Len(t)
      /\ \A i \in 1 .. N + 1 :
           /\ g[i] = g[i - 1] + (IF q[i].part = "body" THEN 1 ELSE 0)
           /\ q[i].part = "body" => g[i] <= Len(t) /\ t[g[i]] = q[i].msg
  BY <1>1 DEF Places
<1> HIDE DEF N
<1>4. h \in [0 .. N -> Nat] /\ \A i \in 0 .. N : h[i] = g[i + 1]
  BY <1>1, <1>3
<1> HIDE DEF h
<1>5. /\ g[1] = Len(r) + (IF q[1].part = "body" THEN 1 ELSE 0)
      /\ q[1].part = "body" => Len(r) + 1 <= Len(t) /\ t[Len(r) + 1] = q[1].msg
  <2>1. 1 \in 1 .. N + 1 /\ 1 - 1 = 0 /\ Len(r) \in Nat
    BY <1>1
  <2> QED
    BY <1>3, <2>1
<1>6. Len(v) = g[1] /\ FirstOf(v, t)
  <2>1. q[1].part \in {"head", "body"}
    BY <1>1 DEF Part
  <2>2. CASE q[1].part = "head"
    BY <1>5, <2>2
  <2>3. CASE q[1].part = "body"
    <3>1. /\ Len(r) \in Nat /\ Len(v) = Len(r) + 1 /\ v[Len(r) + 1] = q[1].msg
          /\ \A i \in 1 .. Len(r) : v[i] = r[i]
      BY <2>3
    <3> QED
      BY <1>5, <2>3, <3>1 DEF FirstOf
  <2> QED
    BY <2>1, <2>2, <2>3
<1>7. ASSUME NEW i \in 1 .. N
      PROVE  /\ h[i] = h[i - 1] + (IF d[i].part = "body" THEN 1 ELSE 0)
             /\ d[i].part = "body" => h[i] <= Len(t) /\ t[h[i]] = d[i].msg
  <2>1. /\ i \in 0 .. N /\ i - 1 \in 0 .. N /\ i + 1 \in 1 .. N + 1
        /\ (i - 1) + 1 = i /\ (i + 1) - 1 = i
    BY <1>1
  <2>2. h[i] = g[i + 1] /\ h[i - 1] = g[i] /\ d[i] = q[i + 1]
    BY <1>1, <1>4, <2>1
  <2> QED
    BY <1>3, <2>1, <2>2
<1>8. h[0] = Len(v) /\ h[N] = Len(t)
  <2>1. 0 \in 0 .. N /\ N \in 0 .. N /\ 0 + 1 = 1
    BY <1>1
  <2> QED
    BY <1>3, <1>4, <1>6, <2>1
<1>9. Places(h, d, v, t)
  BY <1>1, <1>4, <1>7, <1>8 DEF Places
<1> QED
  BY <1>6, <1>9 DEF d

LEMMA InOrderNext == TypeOK /\ TypeOK' /\ Framed /\ InOrder /\ [Next]_vars => InOrder'
<1> SUFFICES ASSUME TypeOK, TypeOK', Framed, InOrder, [Next]_vars PROVE InOrder'
  OBVIOUS
<1>1. /\ input \in Seq(Part) /\ received \in Seq(Message) /\ told \in Seq(Message)
      /\ received' \in Seq(Message) /\ told' \in Seq(Message)
  BY DEF TypeOK
<1>2. CASE UNCHANGED <<input, received, told>> /\ (link' = "open" => link = "open")
  BY <1>2 DEF InOrder
<1>3. ASSUME NEW m \in Message \cup {Empty}, PeerSendsHead(m) PROVE InOrder'
  <2> DEFINE p == [part |-> "head", msg |-> m]
  <2>1. p \in Part /\ p.part = "head"
    BY DEF Part
  <2>2. input' = Append(input, p) /\ UNCHANGED <<told, received, link>>
    BY <1>3 DEF PeerSendsHead, PeerOnly
  <2> HIDE DEF p
  <2> QED
    BY <1>1, <2>1, <2>2, PartArrives DEF InOrder
<1>4. CASE PeerSendsBody
  <2> DEFINE p == [part |-> "body", msg |-> owed]
  <2>1. p \in Part /\ p.part = "body" /\ p.msg = owed /\ owed \in Message
    BY <1>4 DEF PeerSendsBody, Part, TypeOK
  <2>2. /\ input' = Append(input, p) /\ told' = Append(told, owed)
        /\ UNCHANGED <<received, link>>
    BY <1>4 DEF PeerSendsBody, PeerOnly
  <2> HIDE DEF p
  <2>3. FirstOf(received, told')
    <3>1. /\ Len(told) \in Nat /\ Len(told') = Len(told) + 1 /\ Len(received) \in Nat
          /\ \A i \in 1 .. Len(told) : told'[i] = told[i]
      BY <1>1, <2>1, <2>2
    <3> QED
      BY <3>1 DEF InOrder, FirstOf
  <2> QED
    BY <1>1, <2>1, <2>2, <2>3, PartArrives DEF InOrder
<1>5. CASE OnHead \/ OnBody
  <2>1. /\ link = "open" /\ input # <<>> /\ input' = Tail(input) /\ told' = told
        /\ input[1] \in Part /\ Head(input) = input[1]
    BY <1>1, <1>5 DEF OnHead, OnBody
  <2>2. /\ input[1].part = "head" => received' = received
        /\ input[1].part = "body" =>
             received' = Append(received, input[1].msg) /\ input[1].msg \in Message
    <3>1. reading = "body" <=> input[1].part = "body"
      BY <2>1 DEF Framed
    <3>2. CASE OnHead
      BY <2>1, <3>1, <3>2 DEF OnHead
    <3>3. CASE OnBody
      BY <2>1, <3>1, <3>3, BodyRead DEF OnBody
    <3> QED
      BY <1>5, <3>2, <3>3
  <2> QED
    BY <1>1, <2>1, <2>2, PartIsRead DEF InOrder
<1>6. CASE PeerGoes \/ Expire \/ OnReadError \/ OnTimeout \/ OnPosted \/ OnWritten
           \/ OnWriteError \/ (\E m \in Message : SendMessage(m)) \/ UNCHANGED vars
  BY <1>2, <1>6 DEF PeerGoes, PeerOnly, Expire, OnReadError, OnTimeout, OnPosted, OnWritten,
                    OnWriteError, OnError, SendMessage, vars, peerVars
<1> QED
  BY <1>3, <1>4, <1>5, <1>6 DEF Next, Peer

-----------------------------------------------------------------------------
(* The theorems                                                            *)

IInv == TypeOK /\ Framed /\ OneWrite

LEMMA Invariance == Spec => []IInv
<1>1. Init => IInv
  BY InitInv DEF IInv
<1>2. IInv /\ [Next]_vars => IInv'
  BY TypeNext, FramedNext, OneWriteNext DEF IInv
<1> QED
  BY <1>1, <1>2, PTL DEF Spec

\* The variables of a session have their types (session.h:72-79).
THEOREM SessionTypeCorrect == Spec => []TypeOK
<1>1. IInv => TypeOK
  BY DEF IInv
<1> QED
  BY <1>1, Invariance, PTL

\* Whatever the sizes of the frames and however their parts arrive, the messages
\* a session hands out are those the peer sent, in order, each once
\* (session.cpp:23-66).
THEOREM SessionInOrder == Spec => []ReceivedInOrder
<1>1. Init => InOrder
  <2> SUFFICES ASSUME Init PROVE InOrder
    OBVIOUS
  <2> DEFINE g == [i \in 0 .. 0 |-> 0]
  <2>1. input = <<>> /\ received = <<>> /\ told = <<>>
    BY DEF Init
  <2>2. g \in [0 .. 0 -> Nat] /\ g[0] = 0
    OBVIOUS
  <2> HIDE DEF g
  <2>3. Places(g, input, received, told) /\ FirstOf(received, told)
    BY <2>1, <2>2 DEF Places, FirstOf
  <2> QED
    BY <2>3 DEF InOrder
<1>2. IInv /\ IInv' /\ InOrder /\ [Next]_vars => InOrder'
  BY InOrderNext DEF IInv
<1>3. IInv /\ InOrder => ReceivedInOrder
  BY PrefixIsFirst DEF IInv, TypeOK, InOrder, ReceivedInOrder
<1> QED
  BY <1>1, <1>2, <1>3, Invariance, PTL DEF Spec

\* An open session always has a read pending and a timeout to come
\* (session.cpp:32-33, 56-57, 64, 139-142).
THEOREM SessionWatched == Spec => []Watched
<1>1. Init => Watched
  BY DEF Init, Watched
<1>2. IInv /\ Watched /\ [Next]_vars => Watched'
  <2> SUFFICES ASSUME IInv, Watched, [Next]_vars PROVE Watched'
    OBVIOUS
  <2> USE DEF IInv, TypeOK, Watched
  <2>1. CASE UNCHANGED vars
    BY <2>1 DEF vars
  <2>2. CASE Peer
    BY <2>2 DEF Peer, PeerSendsHead, PeerSendsBody, PeerGoes, PeerOnly
  <2>3. CASE Expire
    BY <2>3 DEF Expire
  <2>4. CASE OnHead \/ OnBody
    BY <2>4 DEF OnHead, OnBody, SetTimer, ReadBody
  <2>5. CASE OnReadError \/ OnWriteError
    BY <2>5 DEF OnReadError, OnWriteError, OnError
  <2>6. CASE OnTimeout
    BY <2>6 DEF OnTimeout, Timeout, SetTimer
  <2>7. CASE (\E m \in Message : SendMessage(m)) \/ OnPosted \/ OnWritten
    BY <2>7 DEF SendMessage, OnPosted, OnWritten
  <2> QED
    BY <2>1, <2>2, <2>3, <2>4, <2>5, <2>6, <2>7 DEF Next
<1> QED
  BY <1>1, <1>2, Invariance, PTL DEF Spec

\* No callback is called once the session is closed (session.h:54, 57).
THEOREM SessionQuiet == Spec => QuietAfterClose
<1>1. [Next]_vars => [link = "closed" => cb' = "none"]_vars
  <2> SUFFICES ASSUME Next, link = "closed" PROVE cb' = "none"
    OBVIOUS
  <2>1. CASE Peer \/ Expire
    BY <2>1 DEF Peer, PeerSendsHead, PeerSendsBody, PeerGoes, PeerOnly, Expire
  <2>2. CASE OnHead \/ OnBody \/ OnReadError \/ OnTimeout
    BY <2>2 DEF OnHead, OnBody, OnReadError, OnError, OnTimeout, Timeout
  <2>3. CASE (\E m \in Message : SendMessage(m)) \/ OnPosted \/ OnWritten \/ OnWriteError
    BY <2>3 DEF SendMessage, OnPosted, OnWritten, OnWriteError, OnError
  <2> QED
    BY <2>1, <2>2, <2>3 DEF Next
<1> QED
  BY <1>1, PTL DEF Spec, QuietAfterClose

-----------------------------------------------------------------------------
(* The refinement                                                          *)

\* Closing an open session leaves in flight what the pending write carries.
LEMMA CloseGoesDown ==
  ASSUME IInv, link = "open", link' = "closed", wire' = wire,
         writes' = writes \/ (writes # <<>> /\ writes' = Tail(writes))
  PROVE  Out!GoDown
<1> USE DEF IInv, TypeOK, Flight
<1>1. queue \in Seq(Message) /\ posted \in Seq(Message) /\ queue \o posted \in Seq(Message)
  OBVIOUS
<1>2. CASE writes' = <<>>
  BY <1>1, <1>2, NoneIsPrefix DEF Out!GoDown
<1>3. CASE queue # <<>> /\ writes' = <<Head(queue)>>
  BY <1>1, <1>3, OneIsPrefix DEF Out!GoDown
<1>4. writes' = <<>> \/ (queue # <<>> /\ writes' = <<Head(queue)>>)
  BY DEF OneWrite
<1> QED
  BY <1>2, <1>3, <1>4

LEMMA StepRefines == IInv /\ [Next]_vars => [Out!Next]_(Out!vars)
<1> SUFFICES ASSUME IInv, [Next]_vars PROVE [Out!Next]_(Out!vars)
  OBVIOUS
<1> USE DEF Out!vars, Out!Next, Flight
<1>1. CASE UNCHANGED <<link, sendVars>>
  BY <1>1 DEF sendVars
<1>2. CASE OnBody \/ OnReadError \/ OnWriteError
  <2>1. CASE link = "open" /\ link' = "closed"
    BY <1>2, <2>1, CloseGoesDown DEF OnBody, OnReadError, OnWriteError, sendVars
  <2>2. CASE link' = link /\ (OnBody \/ OnReadError)
    BY <1>1, <2>2 DEF OnBody, OnReadError
  <2>3. CASE OnWriteError /\ link = "closed"
    <3>1. link' = "closed" /\ wire' = wire /\ writes' = <<>> /\ writes \in Seq(Message)
      BY <2>3 DEF OnWriteError, OnError, IInv, OneWrite, TypeOK
    <3> QED
      BY <2>3, <3>1, NoneIsPrefix DEF Out!GoDown
  <2> QED
    BY <1>2, <2>1, <2>2, <2>3 DEF OnBody, OnReadError, OnWriteError, OnError, IInv, TypeOK
<1>3. ASSUME NEW m \in Message, SendMessage(m) PROVE Out!Send
  BY <1>3, SendAtEnd DEF SendMessage, Out!Send, IInv, TypeOK
<1>4. CASE OnPosted
  <2>1. CASE link = "closed"
    BY <1>4, <2>1 DEF OnPosted
  <2>2. CASE link = "open"
    <3>1. queue' = Append(queue, Head(posted)) /\ posted' = Tail(posted)
      BY <1>4, <2>2 DEF OnPosted
    <3>2. queue' \o posted' = queue \o posted
      BY <1>4, <3>1, MoveOver DEF OnPosted, IInv, TypeOK
    <3> QED
      BY <1>4, <2>2, <3>2 DEF OnPosted
  <2> QED
    BY <2>1, <2>2 DEF IInv, TypeOK
<1>5. CASE OnWritten
  <2>1. CASE link = "closed"
    BY <1>5, <2>1 DEF OnWritten, Out!Arrive
  <2>2. CASE link = "open"
    <3>1. queue # <<>> /\ Head(writes) = Head(queue)
      BY <1>5, <2>2 DEF OnWritten, IInv, OneWrite
    <3>2. /\ queue \o posted # <<>> /\ Head(queue \o posted) = Head(queue)
          /\ Tail(queue \o posted) = Tail(queue) \o posted
      BY <3>1, TakeFront DEF IInv, TypeOK
    <3> QED
      BY <1>5, <2>2, <3>1, <3>2 DEF OnWritten, Out!Arrive
  <2> QED
    BY <2>1, <2>2 DEF IInv, TypeOK
<1>6. CASE Peer \/ Expire \/ OnHead \/ OnTimeout \/ UNCHANGED vars
  BY <1>1, <1>6 DEF Peer, PeerSendsHead, PeerSendsBody, PeerGoes, PeerOnly, Expire,
                    OnHead, OnTimeout, vars
<1> QED
  BY <1>2, <1>3, <1>4, <1>5, <1>6 DEF Next

\* Frames leave in the order of the calls of SendMessage, whole and each once,
\* and closing loses only the last of them (session.cpp:69-104).
THEOREM SessionImplementsChannel == Spec => ChannelRefinement
<1>1. Init => Out!Init
  BY DEF Init, Out!Init, Flight
<1>2. IInv /\ [Next]_vars => [Out!Next]_(Out!vars)
  BY StepRefines
<1> QED
  BY <1>1, <1>2, Invariance, PTL DEF Spec, ChannelRefinement, Out!Spec
=============================================================================
