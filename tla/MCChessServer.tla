--------------------------- MODULE MCChessServer ---------------------------
(***************************************************************************)
(* ChessServer with interchangeable sessions: the code never compares two  *)
(* sessions for anything but equality.                                     *)
(***************************************************************************)
EXTENDS ChessServer, TLC

SessionSymmetry == Permutations(Session)
=============================================================================
