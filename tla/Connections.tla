---------------------------- MODULE Connections ----------------------------
(***************************************************************************)
(* What GameServer takes the select loop of v4_server.c to do: clients are *)
(* accepted, read from and hung up on one at a time, in any order, and     *)
(* never read from when there is nothing to read.  The datagram socket is  *)
(* one more client until an empty datagram closes it, and its descriptor   *)
(* one that accept may return from then on.  The order in which one pass   *)
(* visits the descriptors is left out.                                     *)
(***************************************************************************)
EXTENDS Integers

CONSTANTS Fds,   \* the descriptors of clients, and that of the datagram socket
          udpfd  \* the datagram socket's

VARIABLES waiting,  \* how many clients wait to be accepted
          peer,     \* the client at the other end of each descriptor, or "datagrams"
          pending   \* how many of its requests, or datagrams, have not been read

vars == << waiting, peer, pending >>

Init ==
  /\ waiting = 0
  /\ peer = [fd \in Fds |-> IF fd = udpfd THEN "datagrams" ELSE "none"]
  /\ pending = [fd \in Fds |-> 0]

Connect == waiting' = waiting + 1 /\ UNCHANGED << peer, pending >>

\* A client sends a request, or anybody a datagram.
Send(fd) ==
  /\ peer[fd] \in {"open", "datagrams"}
  /\ pending' = [pending EXCEPT ![fd] = @ + 1]
  /\ UNCHANGED << waiting, peer >>

\* A client closes its connection, or resets it.
Leave(fd) ==
  /\ peer[fd] = "open"
  /\ \E how \in {"closed", "reset"} : peer' = [peer EXCEPT ![fd] = how]
  /\ UNCHANGED << waiting, pending >>

Accept(fd) ==
  /\ waiting > 0
  /\ peer[fd] = "none"
  /\ \A other \in Fds : other < fd => peer[other] # "none"
  /\ waiting' = waiting - 1
  /\ peer' = [peer EXCEPT ![fd] = "open"]
  /\ UNCHANGED pending

\* One datagram is read, or all that has arrived over a connection; whatever it is,
\* one request of this descriptor is handled.  From udpfd it may also be dropped.
Serve(fd) ==
  /\ pending[fd] > 0
  /\ pending' = [pending EXCEPT ![fd] = IF peer[fd] = "datagrams" THEN @ - 1 ELSE 0]
  /\ UNCHANGED << waiting, peer >>

\* The read fails, and is not noticed.
ServeReset(fd) ==
  /\ peer[fd] = "reset" /\ pending[fd] = 0
  /\ peer' = [peer EXCEPT ![fd] = "closed"]
  /\ UNCHANGED << waiting, pending >>

\* A client has left, and all it sent is read; or an empty datagram has come.
HangUp(fd) ==
  /\ \/ peer[fd] = "closed" /\ pending[fd] = 0
     \/ peer[fd] = "datagrams" /\ pending[fd] > 0
  /\ peer' = [peer EXCEPT ![fd] = "none"]
  /\ pending' = [pending EXCEPT ![fd] = 0]
  /\ UNCHANGED waiting

Next ==
  \/ Connect
  \/ \E fd \in Fds : \/ Send(fd) \/ Leave(fd) \/ Accept(fd)
                     \/ Serve(fd) \/ ServeReset(fd) \/ HangUp(fd)

Spec == Init /\ [][Next]_vars
=============================================================================
