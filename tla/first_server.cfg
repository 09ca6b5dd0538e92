SPECIFICATION Spec
CONSTANTS
  MaxClients = 3
  Careless <- FirstTwo
  Keys <- SomeKeys
  Pieces <- SomePieces
  MaxUnread = 2
INVARIANTS
  TypeOK
  MarksFollowSeats
  PromptShowsTheBoard
  AcceptedWasProposed
PROPERTIES
  MoverIsAsked
\* The server may die, and everybody may wait for everybody.
CHECK_DEADLOCK FALSE
