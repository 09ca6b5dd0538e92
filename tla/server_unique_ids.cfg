\* Two games are given the same id.
SPECIFICATION FairSpec
CONSTANTS
  Fds <- FourFds
  Failing <- NoFds
  Requests <- AskRequests
  Unset <- Zeroed
  MaxGameId = 7
  MaxGames = 2
INVARIANTS
  UniqueIds
\* An illegal play may kill the server.
CHECK_DEADLOCK FALSE
