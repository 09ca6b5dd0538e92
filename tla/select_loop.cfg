\* The datagram socket, or the client who gets its descriptor, two descriptors more
\* that the set can hold and one beyond it; clients who send, leave and reset.
SPECIFICATION Spec
CONSTANTS
  FD_SETSIZE = 7
  MaxFd = 7
  MaxWaiting = 1
  MaxPending = 1
  MaxDatagrams = 2
INVARIANTS
  TypeOK
PROPERTIES
  ServesInSomeOrder
  EverybodyIsServed
  PassSwallowsDatagrams
  DiesOnlyWhenFull
\* The process may die.
CHECK_DEADLOCK FALSE
