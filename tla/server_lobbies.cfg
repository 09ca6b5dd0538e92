\* Clients come, wait, are paired and leave; descriptors are used again, the datagram
\* socket's too.
SPECIFICATION Spec
CONSTANTS
  Fds <- UdpAndOne
  Failing <- LastFd
  Requests <- JoinRequests
  Unset <- Zeroed
  MaxGameId = 5
  MaxGames = 2
INVARIANTS
  TypeOK
  LookupFindsOwnGames
PROPERTIES
  SeatsInOrderOfArrival
  NewGamesAreAnnounced
  DeathIsAccountedFor
VIEW Readable
\* An illegal play or a client who has left may kill the server.
CHECK_DEADLOCK FALSE
