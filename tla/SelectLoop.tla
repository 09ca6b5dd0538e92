----------------------------- MODULE SelectLoop -----------------------------
(***************************************************************************)
(* The loop of main in v4_server.c, descriptor by descriptor: select, then *)
(* one iteration for every number below FD_SETSIZE, with the datagram      *)
(* socket, the recvfrom that blocks on it, and what becomes of both when   *)
(* the descriptor is closed and a client gets it.  A step of the server is *)
(* one call of select or one iteration.  What a request does once it has   *)
(* been read is GameServer's, which has the same descriptors; here it      *)
(* leaves them as they are.  (SIGPIPE, which may end the process there, is *)
(* left to GameServer too.)                                                *)
(***************************************************************************)
EXTENDS Integers, FiniteSets

CONSTANTS FD_SETSIZE,    \* descriptors select can watch: 0..FD_SETSIZE-1
          MaxFd,         \* the highest descriptor the process may open
          MaxWaiting,    \* bound: clients waiting to be accepted
          MaxPending,    \* bound: unread requests of one client
          MaxDatagrams   \* bound: unread datagrams

\* 0 to 2 are the standard streams; the sockets are the next two descriptors.
sfd == 3
udpfd == 4

ASSUME SetAssumption == FD_SETSIZE \in Nat /\ FD_SETSIZE > udpfd
ASSUME MaxFdAssumption == MaxFd \in Nat /\ MaxFd >= udpfd
ASSUME BoundsAssumption == {MaxWaiting, MaxPending, MaxDatagrams} \subseteq Nat

\* The datagram socket's descriptor, and those accept returns: once the datagram
\* socket has been closed they are the same.
Fds == udpfd..MaxFd

VARIABLES rfds,           \* the descriptors to watch
          ready_sockets,  \* those select found ready
          i,              \* the loop's index
          pc,             \* in select, or in the loop over the descriptors
          waiting,        \* how many clients wait to be accepted
          peer,           \* the client at the other end of each descriptor, or
                          \* "datagrams" for the socket that takes everybody's
          pending,        \* how many of its requests, or datagrams, have not been read
          taken,          \* how often this pass has taken something from udpfd
                          \* (nothing reads it)
          status          \* is the process alive?

vars == << rfds, ready_sockets, i, pc, waiting, peer, pending, taken, status >>

clients == << waiting, peer, pending >>

Init ==
  /\ rfds = {sfd, udpfd}
  /\ ready_sockets = {}
  /\ i = 0
  /\ pc = "select"
  /\ waiting = 0
  /\ peer = [fd \in Fds |-> IF fd = udpfd THEN "datagrams" ELSE "none"]
  /\ pending = [fd \in Fds |-> 0]
  /\ taken = 0
  /\ status = "running"

-----------------------------------------------------------------------------
(* The server.                                                             *)

\* The descriptors a read, recvfrom or accept on which would not block.
Readable ==
  {fd \in Fds : pending[fd] > 0 \/ peer[fd] \in {"closed", "reset"}}
    \cup {fd \in {sfd} : waiting > 0}

Open == {sfd} \cup {fd \in Fds : peer[fd] # "none"}

\* select blocks until something is ready.  It refuses a set with a closed descriptor
\* in it, and the server exits.
Select ==
  /\ status = "running" /\ pc = "select"
  /\ IF rfds \subseteq Open
       THEN /\ rfds \cap Readable # {}
            /\ ready_sockets' = rfds \cap Readable
            /\ i' = 0
            /\ pc' = "scan"
            /\ taken' = 0
            /\ UNCHANGED status
       ELSE /\ status' = "dead"
            /\ UNCHANGED << ready_sockets, i, pc, taken >>
  /\ UNCHANGED << rfds, clients >>

\* Variant of Advance: one descriptor too many.
AdvanceTooFar ==
  /\ i' = i + 1
  /\ pc' = IF i > FD_SETSIZE THEN "select" ELSE "scan"
  /\ UNCHANGED ready_sockets

\* On to the next descriptor, or back to select.
Advance ==
  /\ i' = i + 1
  /\ pc' = IF i + 1 < FD_SETSIZE THEN "scan" ELSE "select"
  /\ UNCHANGED ready_sockets

Scanning == status = "running" /\ pc = "scan"

Free == {fd \in Fds : peer[fd] = "none"}

\* Variant of Watched: the new client is not put into the set.
Unwatched(fd) == {}

\* FD_SET: what it adds to the watched descriptors.  Beyond FD_SETSIZE it writes
\* past the set.
Watched(fd) == {fd} \cap 0..(FD_SETSIZE - 1)

Accept(fd) ==
  /\ Scanning
  /\ i = sfd /\ i \in ready_sockets
  /\ fd \in Free /\ \A other \in Free : fd <= other
  /\ waiting' = waiting - 1
  /\ peer' = [peer EXCEPT ![fd] = "open"]
  /\ rfds' = rfds \cup Watched(fd)
  /\ status' = "running" \/ (Watched(fd) # {fd} /\ status' = "dead")
  /\ Advance
  /\ UNCHANGED << pending, taken >>

\* No descriptor is left: accept returns -1, which FD_SET takes for a very large
\* number.  What that overwrites may or may not end the process.
AcceptFails ==
  /\ Scanning
  /\ i = sfd /\ i \in ready_sockets
  /\ Free = {}
  /\ status' \in {"running", "dead"}
  /\ Advance
  /\ UNCHANGED << rfds, clients, taken >>

\* What is left when something that has arrived is read: a read takes one datagram,
\* but everything that has come over a connection.
Rest(fd) == [pending EXCEPT ![fd] = IF peer[fd] = "datagrams" THEN @ - 1 ELSE 0]

\* A read that fails because the connection was reset finds its end the next time.
ResetSeen(fd) == [peer EXCEPT ![fd] = IF @ = "reset" THEN "closed" ELSE @]

\* Variant of Close: the descriptor stays in the set.
CloseWatching(fd) ==
  /\ peer' = [peer EXCEPT ![fd] = "none"]
  /\ pending' = [pending EXCEPT ![fd] = 0]
  /\ UNCHANGED rfds

\* close and FD_CLR.
Close(fd) ==
  /\ peer' = [peer EXCEPT ![fd] = "none"]
  /\ pending' = [pending EXCEPT ![fd] = 0]
  /\ rfds' = rfds \ {fd}

\* The turn of a descriptor other than sfd, with something to read on it.
HasTurn == Scanning /\ i \in Fds /\ i \in ready_sockets

\* Variant of ReadRequest: the server hangs up after each request.
ReadRequestOnce ==
  /\ HasTurn
  /\ pending[i] > 0
  /\ Close(i)
  /\ taken' = IF i = udpfd THEN taken + 1 ELSE taken
  /\ Advance
  /\ UNCHANGED << waiting, status >>

\* What has been sent is read, and the first request in it is handled as one of
\* descriptor i: a datagram too, which is read as if udpfd were a client's.
ReadRequest ==
  /\ HasTurn
  /\ pending[i] > 0
  /\ pending' = Rest(i)
  /\ taken' = IF i = udpfd THEN taken + 1 ELSE taken
  /\ Advance
  /\ UNCHANGED << rfds, waiting, peer, status >>

\* read_data does not notice that recv failed: a request nobody sent is handled.
ReadReset ==
  /\ HasTurn
  /\ peer[i] = "reset" /\ pending[i] = 0
  /\ peer' = ResetSeen(i)
  /\ Advance
  /\ UNCHANGED << rfds, waiting, pending, taken, status >>

\* End of file.
HangUp ==
  /\ HasTurn
  /\ peer[i] = "closed" /\ pending[i] = 0
  /\ Close(i)
  /\ Advance
  /\ UNCHANGED << waiting, taken, status >>

\* An empty datagram looks like end of file to read_data, and the datagram socket is
\* closed.  It is never opened again; its descriptor is the lowest free one.
ReadEmptyDatagram ==
  /\ HasTurn
  /\ peer[i] = "datagrams" /\ pending[i] > 0
  /\ Close(i)
  /\ taken' = taken + 1
  /\ Advance
  /\ UNCHANGED << waiting, status >>

\* Variant of TakesDatagram: the datagram socket is read once.
TakesDatagramOnce == i \notin ready_sockets /\ udpfd \in ready_sockets /\ i = 0

\* Is this descriptor one for which recvfrom is called, on udpfd?
TakesDatagram == i \notin ready_sockets /\ udpfd \in ready_sockets

\* recvfrom drops what it takes: a datagram, or whatever the client who has got the
\* descriptor has sent.  When nothing has arrived on an open socket the server
\* blocks here.
TakeDatagram ==
  /\ Scanning
  /\ TakesDatagram
  /\ pending[udpfd] > 0
  /\ pending' = Rest(udpfd)
  /\ taken' = taken + 1
  /\ Advance
  /\ UNCHANGED << rfds, waiting, peer, status >>

\* recvfrom returns at once: the socket is closed, or the client has left.
TakeNothing ==
  /\ Scanning
  /\ TakesDatagram
  /\ peer[udpfd] \in {"none", "closed", "reset"} /\ pending[udpfd] = 0
  /\ peer' = ResetSeen(udpfd)
  /\ Advance
  /\ UNCHANGED << rfds, waiting, pending, taken, status >>

Skip ==
  /\ Scanning
  /\ i \notin ready_sockets /\ ~TakesDatagram
  /\ Advance
  /\ UNCHANGED << rfds, clients, taken, status >>

Server ==
  \/ Select
  \/ (\E fd \in Fds : Accept(fd)) \/ AcceptFails
  \/ ReadRequest \/ ReadReset \/ HangUp \/ ReadEmptyDatagram
  \/ TakeDatagram \/ TakeNothing \/ Skip

-----------------------------------------------------------------------------
(* The world.                                                              *)

Connect ==
  /\ waiting < MaxWaiting
  /\ waiting' = waiting + 1
  /\ UNCHANGED << rfds, ready_sockets, i, pc, peer, pending, taken, status >>

\* A client sends a request, or anybody a datagram.
Send(fd) ==
  /\ \/ peer[fd] = "open" /\ pending[fd] < MaxPending
     \/ peer[fd] = "datagrams" /\ pending[fd] < MaxDatagrams
  /\ pending' = [pending EXCEPT ![fd] = @ + 1]
  /\ UNCHANGED << rfds, ready_sockets, i, pc, waiting, peer, taken, status >>

Leave(fd) ==
  /\ peer[fd] = "open"
  /\ \E how \in {"closed", "reset"} : peer' = [peer EXCEPT ![fd] = how]
  /\ UNCHANGED << rfds, ready_sockets, i, pc, waiting, pending, taken, status >>

World == Connect \/ \E fd \in Fds : Send(fd) \/ Leave(fd)

Next == Server \/ World

\* The server is one thread that runs whenever it is not blocked in select or in
\* a read; nothing is assumed of clients and datagrams.
Fairness == WF_vars(Server)

Spec == Init /\ [][Next]_vars /\ Fairness

-----------------------------------------------------------------------------
(* Properties.                                                             *)

\* Every variable has its type; the index does not leave the sets, nothing but open
\* descriptors is watched, and udpfd alone can be the datagram socket.
TypeOK ==
  /\ i \in 0..FD_SETSIZE
  /\ pc = "scan" => i < FD_SETSIZE
  /\ pc \in {"select", "scan"}
  /\ peer \in [Fds -> {"none", "open", "closed", "reset", "datagrams"}]
  /\ \A fd \in Fds : peer[fd] = "datagrams" => fd = udpfd
  /\ pending \in [Fds -> Nat]
  /\ {waiting, taken} \subseteq Nat
  /\ rfds \subseteq Open \cap 0..(FD_SETSIZE - 1)
  /\ ready_sockets \subseteq 0..(FD_SETSIZE - 1)
  /\ status \in {"running", "dead"}

\* Blocked in recvfrom, or in read_data, on udpfd: for want of a datagram, or of a
\* request of the client who has got the descriptor.
Blocked ==
  /\ Scanning
  /\ udpfd \in ready_sockets /\ (i = udpfd \/ i \notin ready_sockets)
  /\ peer[udpfd] \in {"datagrams", "open"} /\ pending[udpfd] = 0

\* What every client sends is read (if its descriptor is udpfd, by recvfrom perhaps)
\* and every closed connection is hung up on, unless the loop blocks on udpfd, the
\* process has died, or the descriptor lies beyond the set.
EverybodyIsServed ==
  \A fd \in Fds \cap 0..(FD_SETSIZE - 1) :
    peer[fd] \in {"closed", "reset"} \/ (peer[fd] = "open" /\ pending[fd] > 0)
      ~> \/ pending[fd] = 0 /\ peer[fd] \in {"none", "open"}
         \/ Blocked
         \/ status = "dead"

\* Of the descriptors below n, how many are those at whose turn udpfd is read?
Calls(n) == n - Cardinality({fd \in ready_sockets \ {udpfd} : fd < n})

\* One datagram is not enough: a pass that found one ends only when there has been
\* one for every descriptor that was not ready, and one that is taken for a
\* request.  A client who has got udpfd pays the same, a request or more for each of
\* these calls.  The pass is cut short only when the descriptor is closed at its
\* own turn: a datagram socket by an empty datagram, for which one had to come for
\* each of the descriptors before it.
PassSwallowsDatagrams ==
  [][/\ pc = "scan" /\ pc' = "select" =>
          /\ udpfd \notin ready_sockets => taken' = 0
          /\ udpfd \in ready_sockets /\ peer'[udpfd] \in {"datagrams", "open"} =>
               taken' = Calls(FD_SETSIZE)
          /\ udpfd \in ready_sockets /\ peer'[udpfd] = "none" =>
               taken' <= Calls(udpfd + 1)
     /\ peer[udpfd] = "datagrams" /\ peer'[udpfd] # "datagrams" =>
          i = udpfd /\ taken' = Calls(udpfd + 1)]_vars

\* The loop ends the process only when somebody connects while every descriptor
\* it can watch is taken.
DiesOnlyWhenFull ==
  [][status' = "dead" /\ status = "running" =>
       /\ i = sfd /\ waiting > 0
       /\ \A fd \in Fds \cap 0..(FD_SETSIZE - 1) : peer[fd] # "none"]_vars

AnyOrder == INSTANCE Connections

\* Whatever the order of the descriptors and however stale ready_sockets is by the
\* time it is used, descriptors are accepted on, read from and hung up on as
\* Connections says and GameServer supposes, udpfd included: nothing is read that
\* has not arrived, and nobody is hung up on who has not left.
ServesInSomeOrder == AnyOrder!Spec
=============================================================================
