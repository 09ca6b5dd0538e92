\* A request without a payload plays the last one.
SPECIFICATION FairSpec
CONSTANTS
  Fds <- TwoFds
  Failing <- NoFds
  Requests <- BareRequests
  Unset <- Zeroed
  MaxGameId = 5
  MaxGames = 2
PROPERTIES
  NoMoveWithoutPayload
\* An illegal play may kill the server.
CHECK_DEADLOCK FALSE
