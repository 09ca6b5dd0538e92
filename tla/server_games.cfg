\* Games of both kinds, played side by side, some by way of the datagram socket.
SPECIFICATION Spec
CONSTANTS
  Fds <- UdpAndOne
  Failing <- NoFds
  Requests <- MixedRequests
  Unset <- Zeroed
  MaxGameId = 4
  MaxGames = 2
PROPERTIES
  EveryGamePlaysNoughtsAndCrosses
  GamesAreIsolated
  TalkStaysInTheGame
  SilenceIsAccountedFor
VIEW Readable
\* An illegal play or a client who has left may kill the server.
CHECK_DEADLOCK FALSE
