------------------------------ MODULE MCLobby ------------------------------
(***************************************************************************)
(* Lobby with interchangeable sessions.  States that differ only in what   *)
(* the last handler sent are one: a step copies it into the channels, and  *)
(* nothing reads it afterwards.  So are the states after the process has   *)
(* ended: nothing happens in them, and they change status only.            *)
(***************************************************************************)
EXTENDS Lobby, TLC

SessionSymmetry == Permutations(Session)

LobbyView == IF status = "running"
             THEN <<status, conn, state, table, seats, game, chan, view>>
             ELSE <<status>>
=============================================================================
