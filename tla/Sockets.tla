------------------------------ MODULE Sockets ------------------------------
(***************************************************************************)
(* What becomes of messages sent over connections whose other end may have *)
(* been closed.  A message to a client who has left comes back as a reset; *)
(* one more raises SIGPIPE, which none of the servers handles.             *)
(***************************************************************************)
EXTENDS Integers, Sequences, FiniteSets

\* The states of a connection:
\*   none    never accepted, or closed by the server
\*   open    the client is there
\*   closed  the client has closed or reset it; what it sent before may still
\*           be waiting to be read
\*   dead    the same, and the kernel knows that nobody reads what is sent
PeerStates == {"none", "open", "closed", "dead"}

HasLeft(peer, fd) == peer[fd] \in {"closed", "dead"}

\* The positions of the messages (records with a field "to") to this descriptor.
MessagesTo(fd, msgs) == {i \in 1..Len(msgs) : msgs[i].to = fd}

AfterSending(peer, msgs) ==
  [fd \in DOMAIN peer |->
     IF peer[fd] = "closed" /\ MessagesTo(fd, msgs) # {} THEN "dead" ELSE peer[fd]]

\* Can SIGPIPE be raised?  Whether the reset is back in time for the next of
\* several messages is open.
RaisesSigpipe(peer, msgs) ==
  \E fd \in DOMAIN peer :
    \/ peer[fd] = "dead" /\ MessagesTo(fd, msgs) # {}
    \/ peer[fd] = "closed" /\ Cardinality(MessagesTo(fd, msgs)) > 1
=============================================================================
