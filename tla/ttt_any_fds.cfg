\* Games between any two of three awkward descriptors, a client and itself included.
SPECIFICATION Spec
CONSTANTS
  Fds <- OddFds
  Uids <- GameUids
  Moves <- SomeMoves
INVARIANTS
  TypeOK
  EngineStaysOnTable
  NoLineOverlooked
PROPERTIES
  MarksAreFinal
  NarrowLineOwnerIsTold
