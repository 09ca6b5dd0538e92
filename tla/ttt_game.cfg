\* Whole games between the first two clients, every move byte.
SPECIFICATION OrdinarySpec
CONSTANTS
  Fds <- TwoFds
  Uids <- GameUids
  Moves <- AllMoves
INVARIANTS
  TurnsAlternate
  ResultsAgree
PROPERTIES
  MoverIsAnsweredOnce
  EngineComputesMainaroo
  PlaysNoughtsAndCrosses
  TurnEnds
