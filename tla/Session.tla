------------------------------ MODULE Session ------------------------------
(***************************************************************************)
(* One connection (Session, the same class in server and client): the loop *)
(* that reads length-prefixed frames, the idle timer, the queue of frames  *)
(* to send, and closing.  Its handlers run on the thread of the            *)
(* io_service, one at a time, each once its operation has completed; the   *)
(* owner may call SendMessage between any two of them (in the client from  *)
(* another thread: it only posts a handler).                               *)
(*                                                                         *)
(* Of the bytes only frames are kept: a head, and a body unless the length *)
(* says there is none.  Sizes near 2^16, which SendMessage's uint16_t      *)
(* arithmetic does not carry, are left out.                                *)
(***************************************************************************)
EXTENDS Naturals, SequencesExt

CONSTANTS
  Message,    \* the messages either side sends
  Empty,      \* what a frame of length 2 carries
  MaxIn,      \* bound: messages the peer sends, and parts in the socket
  MaxOut,     \* bound: messages sent here
  MaxFired    \* bound: expiry handlers waiting to run

ASSUME SessionAssumption ==
  /\ Empty \notin Message
  /\ MaxIn \in Nat /\ MaxOut \in Nat /\ MaxFired \in Nat

VARIABLES
  link,       \* "open"; "closed": closed_, or dropped by its last owner
  reading,    \* the async_read that is pending: "head", "body" or "none"
  posted,     \* handlers SendMessage has posted, with their frames
  queue,      \* send_queue_
  writes,     \* the async_writes that are pending
  waits,      \* the async_waits of timer_ that are pending
  fired,      \* handlers of expired waits that have not run yet
  cb,         \* the callback the last step made, or "none"
  input,      \* what has arrived in the socket and is not read: parts of frames
  owed,       \* the peer has sent the head of this message but not its body
  peer,       \* "up"; "gone": it has closed or reset the connection
  told,       \* history: the messages the peer has sent completely
  received,   \* history: the messages given to on_message_cb_
  wire        \* history: the frames written to the socket

sendVars == <<posted, queue, writes, wire>>
peerVars == <<input, owed, peer, told>>
vars == <<link, reading, sendVars, waits, fired, cb, peerVars, received>>

Part == [part : {"head", "body"}, msg : Message \cup {Empty}]

Init ==
  /\ link = "open" /\ reading = "head"        \* Session::Init
  /\ waits = 1 /\ fired = 0 /\ cb = "none"
  /\ posted = <<>> /\ queue = <<>> /\ writes = <<>> /\ wire = <<>>
  /\ input = <<>> /\ owed = Empty /\ peer = "up"
  /\ told = <<>> /\ received = <<>>

-----------------------------------------------------------------------------
(* The peer and the clock                                                  *)

PeerOnly == UNCHANGED <<link, reading, sendVars, waits, fired, received>>
              /\ cb' = "none"

PeerSendsHead(m) ==
  /\ peer = "up" /\ owed = Empty
  /\ Len(told) < MaxIn /\ Len(input) < MaxIn
  /\ input' = Append(input, [part |-> "head", msg |-> m])
  /\ owed' = m
  /\ UNCHANGED <<peer, told>> /\ PeerOnly

PeerSendsBody ==
  /\ peer = "up" /\ owed # Empty
  /\ input' = Append(input, [part |-> "body", msg |-> owed])
  /\ told' = Append(told, owed) /\ owed' = Empty
  /\ UNCHANGED peer /\ PeerOnly

PeerGoes ==
  /\ peer = "up" /\ peer' = "gone"
  /\ UNCHANGED <<input, owed, told>> /\ PeerOnly

\* Five seconds have passed; the handler is put in line.
Expire ==
  /\ waits > 0 /\ fired < MaxFired
  /\ waits' = waits - 1 /\ fired' = fired + 1 /\ cb' = "none"
  /\ UNCHANGED <<link, reading, sendVars, peerVars, received>>

-----------------------------------------------------------------------------
(* Closing                                                                 *)

\* OnError and Disconnect.  The pending operations complete and do nothing.
OnError ==
  \/ link = "closed" /\ cb' = "none" /\ UNCHANGED <<link, reading, waits>>
  \/ /\ link = "open"
     /\ link' = "closed" /\ reading' = "none" /\ waits' = 0
     /\ cb' = "close"

-----------------------------------------------------------------------------
(* Reading                                                                 *)

\* Cancels the wait that is pending and starts a new one; an expiry that is
\* already in line stays there.
SetTimer == waits' = 1

\* Faulty: a body is expected after every head.
ReadBodyAlways(m) == reading' = "body"
\* Faulty: no new read after a frame without a body.
ReadBodyStops(m) == reading' = IF m = Empty THEN "none" ELSE "body"
ReadBody(m) == reading' = IF m = Empty THEN "head" ELSE "body"

OnHead ==
  /\ link = "open" /\ reading = "head" /\ input # <<>>
  /\ SetTimer
  /\ ReadBody(Head(input).msg)
  /\ input' = Tail(input)
  /\ cb' = "none"
  /\ UNCHANGED <<link, sendVars, fired, owed, peer, told, received>>

\* The callback has the session go on, or its owner drop it (the server does,
\* when the first message is no login).
OnBody ==
  /\ link = "open" /\ reading = "body" /\ input # <<>>
  /\ received' = Append(received, Head(input).msg)
  /\ input' = Tail(input)
  /\ cb' = "message"
  /\ \/ SetTimer /\ reading' = "head" /\ UNCHANGED link
     \/ link' = "closed" /\ reading' = "none" /\ waits' = 0
  /\ UNCHANGED <<sendVars, fired, owed, peer, told>>

OnReadError ==
  /\ peer = "gone" /\ reading # "none"
  /\ OnError
  /\ UNCHANGED <<sendVars, fired, peerVars, received>>

\* Faulty: calls back whatever has happened since the timer expired.
TimeoutAnyway == cb' = "timeout" /\ SetTimer
Timeout == \/ link = "open" /\ cb' = "timeout" /\ SetTimer
           \/ link = "closed" /\ cb' = "none" /\ UNCHANGED waits

OnTimeout ==
  /\ fired > 0 /\ fired' = fired - 1
  /\ Timeout
  /\ UNCHANGED <<link, reading, sendVars, peerVars, received>>

-----------------------------------------------------------------------------
(* Sending                                                                 *)

SendMessage(m) ==
  /\ link = "open"
  /\ Len(wire) + Len(queue) + Len(posted) < MaxOut
  /\ posted' = Append(posted, m)
  /\ cb' = "none"
  /\ UNCHANGED <<link, reading, queue, writes, wire, waits, fired, peerVars,
                 received>>

\* Faulty: writes whether or not a write is pending.
WriteAlways(q) == writes' = Append(writes, Head(q))
\* DoWrite for a frame that was put into queue_ q, if it is alone there.
WriteIfAlone(q) == writes' = IF Len(q) = 1 THEN Append(writes, Head(q)) ELSE writes

\* The handler SendMessage posted.
OnPosted ==
  /\ posted # <<>> /\ posted' = Tail(posted)
  /\ \/ link = "closed" /\ UNCHANGED <<queue, writes>>
     \/ /\ link = "open"
        /\ queue' = Append(queue, Head(posted))
        /\ WriteIfAlone(Append(queue, Head(posted)))
  /\ cb' = "none"
  /\ UNCHANGED <<link, reading, wire, waits, fired, peerVars, received>>

\* A write that completed before the session was closed has its handler run
\* after it; the next write then fails without effect.
OnWritten ==
  /\ writes # <<>>
  /\ wire' = Append(wire, Head(writes))
  /\ queue' = Tail(queue)
  /\ writes' = IF Len(queue) > 1 /\ link = "open"
               THEN Append(Tail(writes), queue[2]) ELSE Tail(writes)
  /\ cb' = "none"
  /\ UNCHANGED <<link, reading, posted, waits, fired, peerVars, received>>

OnWriteError ==
  /\ writes # <<>> /\ (peer = "gone" \/ link = "closed")
  /\ writes' = Tail(writes)
  /\ OnError
  /\ UNCHANGED <<posted, queue, wire, fired, peerVars, received>>

-----------------------------------------------------------------------------
Peer == \/ \E m \in Message \cup {Empty} : PeerSendsHead(m)
        \/ PeerSendsBody \/ PeerGoes

Next == \/ Peer \/ Expire
        \/ OnHead \/ OnBody \/ OnReadError \/ OnTimeout
        \/ (\E m \in Message : SendMessage(m))
        \/ OnPosted \/ OnWritten \/ OnWriteError

Spec == Init /\ [][Next]_vars

\* The loop around run_one runs every handler that stays ready.  Nothing is
\* assumed of the peer, so nothing of the completion of writes.
LiveSpec == /\ Spec
            /\ WF_vars(OnHead) /\ WF_vars(OnBody) /\ WF_vars(OnReadError)
            /\ WF_vars(OnTimeout) /\ WF_vars(OnPosted)

-----------------------------------------------------------------------------
(* Safety                                                                  *)

\* The variables have their types.
TypeOK ==
  /\ link \in {"open", "closed"} /\ peer \in {"up", "gone"}
  /\ reading \in {"none", "head", "body"}
  /\ posted \in Seq(Message) /\ queue \in Seq(Message)
  /\ writes \in Seq(Message) /\ wire \in Seq(Message)
  /\ waits \in 0..1 /\ fired \in Nat
  /\ cb \in {"none", "message", "timeout", "close"}
  /\ input \in Seq(Part) /\ owed \in Message \cup {Empty}
  /\ told \in Seq(Message) /\ received \in Seq(Message)

\* The reader never loses its place: whatever the sizes of the frames, the
\* messages it hands out are those the peer sent, in order, each once
\* (session.cpp:23-66).
ReceivedInOrder == IsPrefix(received, told)

\* An open session always has a read pending and a timeout to come, or nobody
\* would notice that the peer has gone or is silent (session.cpp:32-33, 56-57,
\* 64, 139-142).
Watched == link = "open" => reading # "none" /\ waits + fired > 0

\* "No callback is called any more" after closing (session.h:54, 57), although
\* reads, writes and expiries that were on their way still complete; and the
\* close callback is made by the step that closes (session.cpp:107-121).
QuietAfterClose == [][link = "closed" => cb' = "none"]_vars

-----------------------------------------------------------------------------
(* The queue implements Channel.                                           *)

Flight == IF link = "open" THEN queue \o posted ELSE writes

Out == INSTANCE Channel WITH up <- link = "open", flight <- Flight, got <- wire

\* Frames leave in the order of the calls of SendMessage, whole and each once,
\* and closing loses only the last of them (session.cpp:69-104).
ChannelRefinement == Out!Spec

-----------------------------------------------------------------------------
(* Liveness                                                                *)

\* A peer that has gone is noticed, and a message that has arrived is handed
\* out unless the session is closed before (session.cpp:23-66).
PeerLossNoticed == peer = "gone" ~> link = "closed"
ArrivedIsRead   == told # received ~> (told = received \/ link = "closed")
=============================================================================
