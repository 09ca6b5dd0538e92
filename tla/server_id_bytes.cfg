\* The id as it was sent does not name the game it was sent for.
SPECIFICATION FairSpec
CONSTANTS
  Fds <- TwoFds
  Failing <- NoFds
  Requests <- EchoRequests
  Unset <- Zeroed
  MaxGameId = 4
  MaxGames = 1
PROPERTIES
  SentIdIsNotANewGame
\* A client who has left may kill the server.
CHECK_DEADLOCK FALSE
