------------------------------ MODULE Channel ------------------------------
(***************************************************************************)
(* What one direction of a connection promises to whoever sends on it:     *)
(* the messages arrive in the order in which they were sent, none is       *)
(* duplicated, and if some are lost they are the last ones before the      *)
(* connection went down.  Session is shown to implement this, and Lobby    *)
(* gives one such channel to every user.                                   *)
(***************************************************************************)
EXTENDS Naturals, Sequences

CONSTANT Message

VARIABLES up,       \* can messages be sent?
          flight,   \* sent and not yet arrived
          got       \* arrived

vars == <<up, flight, got>>

Init == up = TRUE /\ flight = <<>> /\ got = <<>>

Send == /\ up
        /\ \E m \in Message : flight' = Append(flight, m)
        /\ UNCHANGED <<up, got>>

Arrive == /\ flight # <<>>
          /\ got' = Append(got, Head(flight))
          /\ flight' = Tail(flight)
          /\ UNCHANGED up

\* The connection goes down, or is down; of what is in flight the end is lost.
GoDown == /\ up' = FALSE
          /\ \E n \in 0 .. Len(flight) : flight' = SubSeq(flight, 1, n)
          /\ UNCHANGED got

Next == Send \/ Arrive \/ GoDown

Spec == Init /\ [][Next]_vars
=============================================================================
