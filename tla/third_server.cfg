SPECIFICATION Spec
CONSTANTS
  Fds = {4, 5, 6}
  Failing = {5}
  Guesses = {2}
  Plays <- SomePlays
  MaxGameId = 6
  MaxGames = 2
INVARIANTS
  TypeOK
  SeatedAsTold
PROPERTIES
  DeathIsAccountedFor
  DeparturesAreNoticed
\* The process may die.
CHECK_DEADLOCK FALSE
