\* Two messages and frames without a body in, three messages out, and room for
\* an expiry that is in line while the next wait expires.
CONSTANTS
  Message = {a, b}
  Empty = Empty
  MaxIn = 2
  MaxOut = 3
  MaxFired = 2
SPECIFICATION LiveSpec
INVARIANTS
  TypeOK
  ReceivedInOrder
  Watched
PROPERTIES
  QuietAfterClose
  ChannelRefinement
  PeerLossNoticed
  ArrivedIsRead
CHECK_DEADLOCK FALSE
