\* The owner of the anti-diagonal is not told of the win.
SPECIFICATION OrdinarySpec
CONSTANTS
  Fds <- TwoFds
  Uids <- GameUids
  Moves <- AllMoves
PROPERTIES
  LineOwnerIsTold
