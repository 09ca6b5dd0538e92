\* Whole games between any two of three clients, every play byte that matters.
SPECIFICATION FairSpec
CONSTANTS
  Fds <- ThreeFds
  Uids <- GameUids
  Plays <- AllPlays
INVARIANTS
  TypeOK
  OnlyIllegalPlaysCrash
  ResultsFollowTheRules
PROPERTIES
  PlaysAreFinal
  SecondPlayAnnounces
  EngineComputesMainzees
\* The server dies of some illegal plays.
CHECK_DEADLOCK FALSE
