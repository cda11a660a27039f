\* Three sessions and one table: a game can start, and each client can be
\* two messages behind.
CONSTANTS
  Session = {u1, u2, u3}
  NoSession = NoSession
  TableCount = 1
  MaxFlight = 2
SYMMETRY SessionSymmetry
VIEW LobbyView
SPECIFICATION LobbySpec
INVARIANTS
  LobbyTypeOK
  NobodyUnknown
  SeatsCatchUp
  ReadyCatchesUp
  DealFindsTable
  TypeOK
  SeatsConsistent
  StateMatchesSeat
\* The server really stops: CMD_STOPSERVER, a crash, or nobody left.
CHECK_DEADLOCK FALSE
