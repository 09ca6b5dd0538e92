-------------------------- MODULE SelectLoop_proofs --------------------------
(***************************************************************************)
(* Proofs about SelectLoop, for sets of descriptors of any size and any    *)
(* number of clients, requests and datagrams.                              *)
(***************************************************************************)
EXTENDS SelectLoop, FiniteSetTheorems, TLAPS

-----------------------------------------------------------------------------
(* The inductive invariant.                                                *)

\* As long as the listening socket's turn is still to come, whoever made it ready
\* is still waiting: nobody else accepts.
QueueIsReady == pc = "scan" /\ i <= sfd /\ sfd \in ready_sockets => waiting > 0

\* The descriptors among these whose turn has come.
Before(n, fds) == {fd \in fds : fd < n}

\* A closed descriptor has nothing to read.
ClosedIsRead == \A fd \in Fds : peer[fd] = "none" => pending[fd] = 0

\* udpfd is not closed before its turn when it is in the ready set, so accept, whose
\* turn is earlier, cannot return it in the same pass.
StaysOpenToItsTurn ==
  pc = "scan" /\ i <= udpfd /\ udpfd \in ready_sockets => peer[udpfd] # "none"

\* What has been taken from udpfd when the turns of all descriptors below n have come:
\* something at each call, as long as it is open and its client has not left.
TakenBefore(n, count, other_end) ==
  /\ udpfd \notin ready_sockets => count = 0
  /\ udpfd \in ready_sockets =>
       /\ count <= Calls(n)
       /\ other_end \in {"datagrams", "open"} => count = Calls(n)
       /\ other_end = "none" => count <= Calls(udpfd + 1)

TakenSoFar == pc = "scan" => TakenBefore(i, taken, peer[udpfd])

IInv == TypeOK /\ QueueIsReady /\ ClosedIsRead /\ StaysOpenToItsTurn /\ TakenSoFar

\* One more descriptor is one more of those whose turn has come, if it is in the set.
LEMMA OneMore ==
  ASSUME NEW S, \A s \in S : s \in 0..(FD_SETSIZE - 1), NEW n \in Nat
  PROVE  /\ Cardinality(Before(n, S)) \in Nat
         /\ Cardinality(Before(n + 1, S)) =
              Cardinality(Before(n, S)) + (IF n \in S THEN 1 ELSE 0)
         /\ n + 1 >= FD_SETSIZE => Before(n + 1, S) = S
         /\ Before(0, S) = {}
<1>1. IsFiniteSet(0..(FD_SETSIZE - 1))
  BY SetAssumption, FS_Interval
<1>2. Before(n, S) \in SUBSET (0..(FD_SETSIZE - 1))
  BY DEF Before
<1>3. IsFiniteSet(Before(n, S))
  BY <1>1, <1>2, FS_Subset
<1>4. Cardinality(Before(n, S)) \in Nat
  BY <1>3, FS_CardinalityType
<1>5. Cardinality(Before(n + 1, S)) = Cardinality(Before(n, S)) + (IF n \in S THEN 1 ELSE 0)
  <2>1. CASE n \in S
    <3>1. \A s \in S : s < n + 1 <=> s < n \/ s = n
      BY SetAssumption
    <3>2. \A s : s \in Before(n + 1, S) <=> s \in Before(n, S) \cup {n}
      BY <2>1, <3>1 DEF Before
    <3>3. Before(n + 1, S) = Before(n, S) \cup {n} /\ n \notin Before(n, S)
      BY <3>2 DEF Before
    <3> QED BY <1>3, <1>4, <2>1, <3>3, FS_AddElement
  <2>2. CASE n \notin S
    <3>1. \A s : s \in Before(n + 1, S) <=> s \in Before(n, S)
      BY SetAssumption, <2>2 DEF Before
    <3>2. Before(n + 1, S) = Before(n, S)
      BY <3>1
    <3> QED BY <1>4, <2>2, <3>2
  <2> QED BY <2>1, <2>2
<1>6. n + 1 >= FD_SETSIZE => Before(n + 1, S) = S
  <2> SUFFICES ASSUME n + 1 >= FD_SETSIZE PROVE Before(n + 1, S) = S
    OBVIOUS
  <2>1. \A s : s \in Before(n + 1, S) <=> s \in S
    BY SetAssumption DEF Before
  <2> QED BY <2>1
<1>7. Before(0, S) = {}
  BY SetAssumption DEF Before
<1> QED BY <1>4, <1>5, <1>6, <1>7

-----------------------------------------------------------------------------
(* The invariant.                                                          *)

\* At the turn of each descriptor there is one more call, but for the ready ones that
\* are not udpfd.
LEMMA OneMoreCall ==
  ASSUME TypeOK, NEW n \in Nat
  PROVE  /\ Calls(n) \in Int
         /\ Calls(n + 1) = Calls(n) + (IF n \in ready_sockets \ {udpfd} THEN 0 ELSE 1)
         /\ Calls(0) = 0
<1> DEFINE others == ready_sockets \ {udpfd}
<1>1. \A fd \in others : fd \in 0..(FD_SETSIZE - 1)
  BY DEF TypeOK
<1>2. /\ Cardinality(Before(n, others)) \in Nat
      /\ Cardinality(Before(n + 1, others)) =
           Cardinality(Before(n, others)) + (IF n \in others THEN 1 ELSE 0)
      /\ Before(0, others) = {}
  BY <1>1, OneMore
<1>3. \A m : Calls(m) = m - Cardinality(Before(m, others))
  BY DEF Calls, Before
<1>4. Cardinality({}) = 0
  BY FS_EmptySet
<1> HIDE DEF others
<1>5. Calls(n) \in Int /\ Calls(0) = 0
  BY <1>2, <1>3, <1>4
<1>6. Calls(n + 1) = Calls(n) + (IF n \in others THEN 0 ELSE 1)
  BY <1>2, <1>3
<1> QED BY <1>5, <1>6 DEF others

-----------------------------------------------------------------------------
(* The invariant.                                                          *)

\* Nothing is ready or taken before the first select.
LEMMA InitIInv == Init => IInv
<1> SUFFICES ASSUME Init PROVE IInv
  OBVIOUS
<1>1. TypeOK
  BY SetAssumption, MaxFdAssumption DEF Init, TypeOK, Open, Fds, sfd, udpfd
<1>2. ClosedIsRead
  BY DEF Init, ClosedIsRead
<1> QED BY <1>1, <1>2 DEF Init, IInv, QueueIsReady, StaysOpenToItsTurn, TakenSoFar

\* What the loop does at one turn, whichever it is.
AtTurn ==
  \/ \E fd \in Fds : Accept(fd)
  \/ AcceptFails \/ ReadRequest \/ ReadReset \/ HangUp \/ ReadEmptyDatagram
  \/ TakeDatagram \/ TakeNothing \/ Skip

\* A turn either takes nothing from udpfd and leaves it as it is, at a descriptor without
\* a call; or takes something at a call; or finds the end of udpfd there.
LEMMA TurnTakes ==
  ASSUME IInv, AtTurn
  PROVE  /\ pc = "scan" /\ Advance
         /\ \/ /\ taken' = taken
               /\ udpfd \notin ready_sockets \/ i \in ready_sockets \ {udpfd}
               /\ \/ peer'[udpfd] = peer[udpfd]
                  \/ udpfd \notin ready_sockets /\ peer[udpfd] = "none"
            \/ /\ taken' = taken + 1
               /\ udpfd \in ready_sockets /\ i \notin ready_sockets \ {udpfd}
               /\ peer[udpfd] # "none" /\ peer'[udpfd] = peer[udpfd]
            \/ /\ taken' = taken + 1
               /\ udpfd \in ready_sockets /\ i = udpfd
               /\ peer[udpfd] = "datagrams" /\ peer'[udpfd] = "none"
            \/ /\ taken' = taken
               /\ udpfd \in ready_sockets /\ i \notin ready_sockets \ {udpfd}
               /\ peer[udpfd] \notin {"datagrams", "open"}
               /\ \/ peer'[udpfd] = "closed"
                  \/ peer'[udpfd] = "none" /\ peer[udpfd] = "none"
                  \/ peer'[udpfd] = "none" /\ i = udpfd
<1> USE DEF Scanning, HasTurn, ResetSeen, Close
<1>0. /\ udpfd \in Fds
      /\ peer \in [Fds -> {"none", "open", "closed", "reset", "datagrams"}]
      /\ sfd # udpfd /\ sfd <= udpfd
  BY MaxFdAssumption DEF Fds, udpfd, sfd, IInv, TypeOK
<1>1. ASSUME NEW fd \in Fds, Accept(fd)
      PROVE  /\ pc = "scan" /\ Advance /\ taken' = taken
             /\ i \in ready_sockets \ {udpfd}
             /\ \/ peer'[udpfd] = peer[udpfd]
                \/ udpfd \notin ready_sockets /\ peer[udpfd] = "none"
  <2>1. udpfd \in ready_sockets => peer[udpfd] # "none"
    BY <1>0, <1>1 DEF Accept, IInv, StaysOpenToItsTurn
  <2> QED BY <1>0, <1>1, <2>1 DEF Accept, Free
<1>2. CASE AcceptFails
  BY <1>0, <1>2 DEF AcceptFails, clients
<1>3. CASE ReadRequest
  <2>1. peer[i] # "none"
    BY <1>3 DEF ReadRequest, IInv, ClosedIsRead, TypeOK
  <2> QED BY <1>0, <1>3, <2>1 DEF ReadRequest
<1>4. CASE ReadReset
  BY <1>0, <1>4 DEF ReadReset
<1>5. CASE HangUp
  BY <1>0, <1>5 DEF HangUp
<1>6. CASE ReadEmptyDatagram
  BY <1>0, <1>6 DEF ReadEmptyDatagram, IInv, TypeOK
<1>7. CASE TakeDatagram
  <2>1. peer[udpfd] # "none"
    BY <1>0, <1>7 DEF TakeDatagram, IInv, ClosedIsRead, TypeOK
  <2> QED BY <1>0, <1>7, <2>1 DEF TakeDatagram, TakesDatagram
<1>8. CASE TakeNothing
  BY <1>0, <1>8 DEF TakeNothing, TakesDatagram
<1>9. CASE Skip
  BY <1>0, <1>9 DEF Skip, TakesDatagram, clients
<1> QED BY <1>1, <1>2, <1>3, <1>4, <1>5, <1>6, <1>7, <1>8, <1>9 DEF AtTurn

\* So a turn keeps the count.
LEMMA TurnCounts ==
  ASSUME IInv, AtTurn
  PROVE  /\ pc = "scan" /\ Advance /\ i \in Nat
         /\ TakenBefore(i + 1, taken', peer'[udpfd])
         /\ peer[udpfd] = "datagrams" /\ peer'[udpfd] # "datagrams" =>
              i = udpfd /\ taken' = Calls(udpfd + 1)
<1>1. i \in Nat /\ taken \in Nat /\ pc = "scan" /\ Advance
  BY SetAssumption, TurnTakes DEF IInv, TypeOK
<1>2. TakenBefore(i, taken, peer[udpfd])
  BY <1>1 DEF IInv, TakenSoFar
<1>3. /\ Calls(i) \in Int
      /\ Calls(i + 1) = Calls(i) + (IF i \in ready_sockets \ {udpfd} THEN 0 ELSE 1)
  BY <1>1, OneMoreCall DEF IInv
<1>4. CASE udpfd \notin ready_sockets
  <2>1. taken' = taken
    BY <1>4, TurnTakes
  <2>2. ~(peer[udpfd] = "datagrams" /\ peer'[udpfd] # "datagrams")
    BY <1>4, TurnTakes
  <2> QED BY <1>1, <1>2, <1>4, <2>1, <2>2 DEF TakenBefore
<1>5. CASE udpfd \in ready_sockets
  <2>1. /\ taken <= Calls(i)
        /\ peer[udpfd] \in {"datagrams", "open"} => taken = Calls(i)
        /\ peer[udpfd] = "none" => taken <= Calls(udpfd + 1)
    BY <1>2, <1>5 DEF TakenBefore
  <2>2. CASE /\ taken' = taken
             /\ i \in ready_sockets \ {udpfd}
             /\ peer'[udpfd] = peer[udpfd]
    <3>1. Calls(i + 1) = Calls(i)
      BY <1>3, <2>2
    <3> QED BY <1>1, <1>5, <2>1, <2>2, <3>1 DEF TakenBefore
  <2>3. CASE i \notin ready_sockets \ {udpfd}
    <3>1. Calls(i + 1) = Calls(i) + 1
      BY <1>3, <2>3
    <3>2. CASE taken' = taken + 1 /\ peer[udpfd] # "none" /\ peer'[udpfd] = peer[udpfd]
      BY <1>1, <1>3, <1>5, <2>1, <3>1, <3>2 DEF TakenBefore
    <3>3. CASE /\ taken' = taken + 1 /\ i = udpfd
               /\ peer[udpfd] = "datagrams" /\ peer'[udpfd] = "none"
      BY <1>1, <1>3, <1>5, <2>1, <3>1, <3>3 DEF TakenBefore
    <3>4. CASE /\ taken' = taken /\ peer[udpfd] \notin {"datagrams", "open"}
               /\ \/ peer'[udpfd] = "closed"
                  \/ peer'[udpfd] = "none" /\ peer[udpfd] = "none"
                  \/ peer'[udpfd] = "none" /\ i = udpfd
      BY <1>1, <1>3, <1>5, <2>1, <3>1, <3>4 DEF TakenBefore
    <3> QED BY <1>5, <2>3, <3>2, <3>3, <3>4, TurnTakes
  <2> QED BY <1>5, <2>2, <2>3, TurnTakes
<1> QED BY <1>4, <1>5

\* The watched descriptors stay open ones within the set, whoever comes and goes.
LEMMA TypeOKKept == IInv /\ [Next]_vars => TypeOK'
<1> SUFFICES ASSUME IInv, [Next]_vars PROVE TypeOK'
  OBVIOUS
<1>0. TypeOK
  BY DEF IInv
<1> USE SetAssumption, MaxFdAssumption DEF sfd, udpfd, Fds, IInv, TypeOK, Open
<1>1. CASE Select
  <2>1. CASE rfds \subseteq Open
    <3>1. /\ i' = 0 /\ pc' = "scan" /\ taken' = 0
          /\ ready_sockets' = rfds \cap Readable
          /\ UNCHANGED << rfds, waiting, peer, pending, status >>
      BY <1>1, <2>1 DEF Select, clients
    <3>2. ready_sockets' \subseteq 0..(FD_SETSIZE - 1)
      BY ONLY <1>0, <3>1 DEF TypeOK
    <3>3. i' \in 0..FD_SETSIZE /\ i' < FD_SETSIZE
      BY ONLY SetAssumption, <3>1 DEF udpfd
    <3> QED BY ONLY <1>0, <3>1, <3>2, <3>3 DEF TypeOK, Open
  <2>2. CASE ~(rfds \subseteq Open)
    BY <1>1, <2>2 DEF Select, clients
  <2> QED BY <2>1, <2>2
<1>2. ASSUME NEW fd \in Fds, Accept(fd) PROVE TypeOK'
  BY <1>2 DEF Accept, Advance, Scanning, Watched, Free, QueueIsReady
<1>3. CASE AcceptFails
  BY <1>3 DEF AcceptFails, Advance, Scanning, clients
<1>4. CASE ReadRequest
  BY <1>4 DEF ReadRequest, HasTurn, Rest, Advance, Scanning
<1>5. CASE ReadReset
  BY <1>5 DEF ReadReset, HasTurn, ResetSeen, Advance, Scanning
<1>6. CASE HangUp
  BY <1>6 DEF HangUp, HasTurn, Close, Advance, Scanning
<1>7. CASE ReadEmptyDatagram
  BY <1>7 DEF ReadEmptyDatagram, HasTurn, Close, Advance, Scanning
<1>8. CASE TakeDatagram
  BY <1>8 DEF TakeDatagram, Rest, Advance, Scanning
<1>9. CASE TakeNothing
  BY <1>9 DEF TakeNothing, ResetSeen, Advance, Scanning
<1>10. CASE Skip
  BY <1>10 DEF Skip, Advance, Scanning, clients
<1>11. CASE Connect
  BY <1>11 DEF Connect
<1>12. ASSUME NEW fd \in Fds, Send(fd) PROVE TypeOK'
  BY <1>12 DEF Send
<1>13. ASSUME NEW fd \in Fds, Leave(fd) PROVE TypeOK'
  BY <1>13 DEF Leave
<1>14. CASE UNCHANGED vars
  BY <1>14 DEF vars
<1> QED BY <1>1, <1>2, <1>3, <1>4, <1>5, <1>6, <1>7, <1>8, <1>9, <1>10, <1>11, <1>12,
           <1>13, <1>14 DEF Next, Server, World

\* A descriptor is closed with nothing left to read, and nobody sends over one that is
\* not open.
LEMMA ClosedIsReadKept == IInv /\ [Next]_vars => ClosedIsRead'
<1> SUFFICES ASSUME IInv, [Next]_vars, NEW fd \in Fds, peer'[fd] = "none"
             PROVE  pending'[fd] = 0
  BY DEF ClosedIsRead
<1>1. /\ peer \in [Fds -> {"none", "open", "closed", "reset", "datagrams"}]
      /\ pending \in [Fds -> Nat]
      /\ peer[fd] = "none" => pending[fd] = 0
      /\ udpfd \in Fds
  BY MaxFdAssumption DEF IInv, TypeOK, ClosedIsRead, Fds, udpfd
<1>2. CASE ReadRequest \/ TakeDatagram
  BY <1>1, <1>2 DEF ReadRequest, TakeDatagram, HasTurn, Rest
<1>3. CASE ReadReset \/ TakeNothing
  BY <1>1, <1>3 DEF ReadReset, TakeNothing, HasTurn, ResetSeen
<1>4. CASE HangUp \/ ReadEmptyDatagram
  BY <1>1, <1>4 DEF HangUp, ReadEmptyDatagram, HasTurn, Close
<1>5. ASSUME NEW other \in Fds, Accept(other) \/ Send(other) \/ Leave(other)
      PROVE  pending'[fd] = 0
  BY <1>1, <1>5 DEF Accept, Send, Leave
<1>6. CASE Select \/ AcceptFails \/ Skip \/ Connect \/ UNCHANGED vars
  BY <1>1, <1>6 DEF Select, AcceptFails, Skip, Connect, clients, vars
<1> QED BY <1>2, <1>3, <1>4, <1>5, <1>6 DEF Next, Server, World

\* Every step of the specification keeps the invariant.
LEMMA NextIInv == IInv /\ [Next]_vars => IInv'
<1> SUFFICES ASSUME IInv, [Next]_vars PROVE IInv'
  OBVIOUS
<1>1. TypeOK' /\ ClosedIsRead'
  BY TypeOKKept, ClosedIsReadKept
<1>2. QueueIsReady' /\ StaysOpenToItsTurn' /\ TakenSoFar'
  <2>1. CASE Select
    <3>1. CASE pc' = "scan"
      <4>1. /\ i' = 0 /\ taken' = 0 /\ ready_sockets' = rfds \cap Readable
            /\ UNCHANGED << waiting, peer >>
        BY <2>1, <3>1 DEF Select, clients
      <4>2. QueueIsReady'
        BY <4>1 DEF QueueIsReady, Readable, Fds, sfd, udpfd
      <4>3. udpfd \in ready_sockets' => peer'[udpfd] # "none"
        BY <4>1 DEF IInv, TypeOK, Open, sfd, udpfd
      <4>4. Calls(0)' = 0
        <5>1. Cardinality({fd \in ready_sockets' \ {udpfd} : fd < 0}) = 0
          <6>1. \A fd \in ready_sockets' \ {udpfd} : fd \in 0..(FD_SETSIZE - 1)
            BY <1>1 DEF TypeOK
          <6>2. Before(0, ready_sockets' \ {udpfd}) = {}
            BY <6>1, OneMore
          <6> QED BY <6>2, FS_EmptySet DEF Before
        <5> QED BY <5>1 DEF Calls
      <4> QED BY <4>1, <4>2, <4>3, <4>4 DEF TakenSoFar, TakenBefore, StaysOpenToItsTurn
    <3> QED BY <3>1 DEF QueueIsReady, StaysOpenToItsTurn, TakenSoFar
  <2>2. CASE AtTurn
    <3>1. /\ pc = "scan" /\ Advance /\ i \in Nat
          /\ TakenBefore(i + 1, taken', peer'[udpfd])
      BY <2>2, TurnCounts
    <3>2. waiting' = waiting \/ i = sfd
      BY <2>2 DEF AtTurn, Accept, AcceptFails, ReadRequest, ReadReset, HangUp,
                  ReadEmptyDatagram, TakeDatagram, TakeNothing, Skip, clients
    <3>3. QueueIsReady'
      BY <3>1, <3>2 DEF IInv, QueueIsReady, Advance, sfd
    <3>4. StaysOpenToItsTurn'
      BY <2>2, <3>1, TurnTakes DEF IInv, StaysOpenToItsTurn, Advance, udpfd
    <3>5. TakenSoFar'
      BY <3>1 DEF TakenSoFar, TakenBefore, Calls, Advance
    <3> QED BY <3>3, <3>4, <3>5
  <2>3. CASE World \/ UNCHANGED vars
    <3>1. /\ UNCHANGED << pc, i, ready_sockets, taken >>
          /\ waiting' = waiting \/ waiting' = waiting + 1
          /\ \/ peer'[udpfd] = peer[udpfd]
             \/ peer[udpfd] = "open" /\ peer'[udpfd] \in {"closed", "reset"}
      <4>1. peer \in [Fds -> {"none", "open", "closed", "reset", "datagrams"}]
        BY DEF IInv, TypeOK
      <4>2. ASSUME NEW fd \in Fds, Leave(fd)
            PROVE  \/ peer'[udpfd] = peer[udpfd]
                   \/ peer[udpfd] = "open" /\ peer'[udpfd] \in {"closed", "reset"}
        BY <4>1, <4>2, MaxFdAssumption DEF Leave, Fds, udpfd
      <4>3. ASSUME NEW fd \in Fds, Send(fd) \/ Leave(fd)
            PROVE  UNCHANGED << pc, i, ready_sockets, taken, waiting >>
        BY <4>3 DEF Send, Leave
      <4>4. ASSUME NEW fd \in Fds, Send(fd) PROVE peer' = peer
        BY <4>4 DEF Send
      <4>5. CASE Connect \/ UNCHANGED vars
        BY <4>5 DEF Connect, vars
      <4> QED BY <2>3, <4>2, <4>3, <4>4, <4>5 DEF World
    <3>2. waiting \in Nat /\ Calls(i) \in Int /\ Calls(i)' = Calls(i)
          /\ Calls(udpfd + 1)' = Calls(udpfd + 1)
      <4>1. waiting \in Nat /\ i \in Nat
        BY SetAssumption DEF IInv, TypeOK
      <4>2. Calls(i) \in Int
        BY <4>1, OneMoreCall DEF IInv
      <4> QED BY <3>1, <4>1, <4>2 DEF Calls
    <3>3. QueueIsReady' /\ StaysOpenToItsTurn'
      BY <3>1, <3>2 DEF IInv, QueueIsReady, StaysOpenToItsTurn
    <3>4. TakenSoFar'
      BY <3>1, <3>2 DEF IInv, TypeOK, TakenSoFar, TakenBefore
    <3> QED BY <3>3, <3>4
  <2> QED BY <2>1, <2>2, <2>3 DEF Next, Server, AtTurn
<1> QED BY <1>1, <1>2 DEF IInv

\* The invariant holds throughout.
THEOREM Invariance == Spec => []IInv
<1> QED BY InitIInv, NextIInv, PTL DEF Spec

-----------------------------------------------------------------------------
(* What follows from it.                                                   *)

\* Every variable keeps its type: the loop's index never leaves the sets, and only
\* open descriptors are watched.
THEOREM TypeCorrect == Spec => []TypeOK
<1>1. IInv => TypeOK
  BY DEF IInv
<1> QED BY <1>1, Invariance, PTL

\* select is never given a closed descriptor, so that the process ends only when a
\* client is waiting and every descriptor that can be watched is taken.
THEOREM DeathMeansFull == Spec => DiesOnlyWhenFull
<1> DEFINE Full == status' = "dead" /\ status = "running" =>
                     /\ i = sfd /\ waiting > 0
                     /\ \A fd \in Fds \cap 0..(FD_SETSIZE - 1) : peer[fd] # "none"
<1>1. IInv /\ [Next]_vars => [Full]_vars
  <2> SUFFICES ASSUME IInv, Next, status' = "dead", status = "running" PROVE Full
    OBVIOUS
  <2>1. ASSUME NEW fd \in Fds, Accept(fd) PROVE Full
    <3>1. i = sfd /\ sfd \in ready_sockets /\ pc = "scan"
      BY <2>1 DEF Accept, Scanning
    <3>2. waiting > 0
      BY <3>1 DEF IInv, QueueIsReady, sfd
    <3>3. fd \notin 0..(FD_SETSIZE - 1)
      BY <2>1 DEF Accept, Watched
    <3>4. \A other \in Fds \cap 0..(FD_SETSIZE - 1) : ~(fd <= other)
      BY <3>3, SetAssumption, MaxFdAssumption DEF Fds, udpfd
    <3> QED BY <2>1, <3>1, <3>2, <3>4 DEF Accept, Free
  <2>2. CASE AcceptFails
    BY <2>2 DEF AcceptFails, Scanning, IInv, QueueIsReady, Free, sfd
  <2>3. CASE Select
    BY <2>3 DEF Select, IInv, TypeOK
  <2>4. CASE ReadRequest \/ ReadReset \/ HangUp \/ ReadEmptyDatagram
             \/ TakeDatagram \/ TakeNothing \/ Skip \/ World
    BY <2>4 DEF ReadRequest, ReadReset, HangUp, ReadEmptyDatagram, TakeDatagram,
                TakeNothing, Skip, World, Connect, Send, Leave, clients
  <2> QED BY <2>1, <2>2, <2>3, <2>4 DEF Next, Server
<1> QED BY <1>1, Invariance, PTL DEF Spec, DiesOnlyWhenFull

\* A pass that found something on udpfd takes something from it for every number below
\* FD_SETSIZE but those of the other ready descriptors, however large the set is, and
\* can be cut short only at udpfd's own turn.
THEOREM PassesSwallow == Spec => PassSwallowsDatagrams
<1> DEFINE Swallowed ==
      /\ pc = "scan" /\ pc' = "select" =>
           /\ udpfd \notin ready_sockets => taken' = 0
           /\ udpfd \in ready_sockets /\ peer'[udpfd] \in {"datagrams", "open"} =>
                taken' = Calls(FD_SETSIZE)
           /\ udpfd \in ready_sockets /\ peer'[udpfd] = "none" =>
                taken' <= Calls(udpfd + 1)
      /\ peer[udpfd] = "datagrams" /\ peer'[udpfd] # "datagrams" =>
           i = udpfd /\ taken' = Calls(udpfd + 1)
<1>1. IInv /\ [Next]_vars => [Swallowed]_vars
  <2> SUFFICES ASSUME IInv, Next PROVE Swallowed
    OBVIOUS
  <2>1. CASE AtTurn
    <3>1. /\ pc = "scan" /\ Advance /\ i \in Nat
          /\ TakenBefore(i + 1, taken', peer'[udpfd])
          /\ peer[udpfd] = "datagrams" /\ peer'[udpfd] # "datagrams" =>
               i = udpfd /\ taken' = Calls(udpfd + 1)
      BY <2>1, TurnCounts
    <3>2. pc' = "select" => i + 1 = FD_SETSIZE
      BY <3>1, SetAssumption DEF Advance, IInv, TypeOK
    <3> QED BY <3>1, <3>2 DEF TakenBefore
  <2>2. CASE Select
    BY <2>2 DEF Select, clients
  <2>3. CASE World
    <3>1. peer \in [Fds -> {"none", "open", "closed", "reset", "datagrams"}]
      BY DEF IInv, TypeOK
    <3>2. ASSUME NEW fd \in Fds, Leave(fd)
          PROVE  peer[udpfd] = "datagrams" => peer'[udpfd] = "datagrams"
      BY <3>1, <3>2, MaxFdAssumption DEF Leave, Fds, udpfd
    <3>3. ASSUME NEW fd \in Fds, Send(fd) PROVE peer' = peer
      BY <3>3 DEF Send
    <3>4. Connect => peer' = peer
      BY DEF Connect
    <3>5. pc' = pc
      BY <2>3 DEF World, Connect, Send, Leave
    <3> QED BY <2>3, <3>2, <3>3, <3>4, <3>5 DEF World
  <2> QED BY <2>1, <2>2, <2>3 DEF Next, Server, AtTurn
<1> QED BY <1>1, Invariance, PTL DEF Spec, PassSwallowsDatagrams

\* The loop serves the descriptors, the datagram socket's too, as Connections says:
\* nobody is accepted who is not waiting, nothing is read that has not arrived, and a
\* descriptor is closed only when its client has left or an empty datagram has come.
THEOREM Refinement == Spec => ServesInSomeOrder
<1>1. Init => AnyOrder!Init
  BY DEF Init, AnyOrder!Init
<1>2. IInv /\ [Next]_vars => [AnyOrder!Next]_(AnyOrder!vars)
  <2> SUFFICES ASSUME IInv, [Next]_vars
               PROVE  AnyOrder!Next \/ UNCHANGED << waiting, peer, pending >>
    BY DEF AnyOrder!vars
  <2>0. /\ udpfd \in Fds
        /\ peer \in [Fds -> {"none", "open", "closed", "reset", "datagrams"}]
    BY MaxFdAssumption DEF Fds, udpfd, IInv, TypeOK
  <2>1. ASSUME NEW fd \in Fds, Accept(fd) PROVE AnyOrder!Accept(fd)
    <3>1. waiting > 0
      BY <2>1 DEF Accept, Scanning, IInv, QueueIsReady, sfd
    <3>2. \A other \in Fds : other < fd => ~(fd <= other)
      BY MaxFdAssumption DEF Fds, udpfd
    <3> QED BY <2>1, <3>1, <3>2 DEF Accept, AnyOrder!Accept, Free
  <2>2. CASE ReadRequest
    <3>1. i \in Fds /\ AnyOrder!Serve(i)
      BY <2>2 DEF ReadRequest, HasTurn, Rest, AnyOrder!Serve
    <3> QED BY <3>1 DEF AnyOrder!Next
  <2>3. CASE ReadReset
    <3>1. i \in Fds /\ AnyOrder!ServeReset(i)
      BY <2>3 DEF ReadReset, HasTurn, ResetSeen, AnyOrder!ServeReset
    <3> QED BY <3>1 DEF AnyOrder!Next
  <2>4. CASE HangUp \/ ReadEmptyDatagram
    <3>1. i \in Fds /\ AnyOrder!HangUp(i)
      BY <2>4 DEF HangUp, ReadEmptyDatagram, HasTurn, Close, AnyOrder!HangUp
    <3> QED BY <3>1 DEF AnyOrder!Next
  <2>5. CASE TakeDatagram
    <3>1. AnyOrder!Serve(udpfd)
      BY <2>5 DEF TakeDatagram, Rest, AnyOrder!Serve
    <3> QED BY <2>0, <3>1 DEF AnyOrder!Next
  <2>6. CASE TakeNothing
    <3>1. AnyOrder!ServeReset(udpfd) \/ UNCHANGED << waiting, peer, pending >>
      BY <2>0, <2>6 DEF TakeNothing, ResetSeen, AnyOrder!ServeReset
    <3> QED BY <2>0, <3>1 DEF AnyOrder!Next
  <2>7. CASE Connect
    BY <2>7 DEF Connect, AnyOrder!Connect, AnyOrder!Next
  <2>8. ASSUME NEW fd \in Fds, Send(fd) PROVE AnyOrder!Send(fd)
    BY <2>8 DEF Send, AnyOrder!Send
  <2>9. ASSUME NEW fd \in Fds, Leave(fd) PROVE AnyOrder!Leave(fd)
    BY <2>9 DEF Leave, AnyOrder!Leave
  <2>10. CASE Select \/ AcceptFails \/ Skip \/ UNCHANGED vars
    BY <2>10 DEF Select, AcceptFails, Skip, clients, vars
  <2> QED BY <2>1, <2>2, <2>3, <2>4, <2>5, <2>6, <2>7, <2>8, <2>9, <2>10
          DEF Next, Server, World, AnyOrder!Next
<1> QED BY <1>1, <1>2, Invariance, PTL DEF Spec, ServesInSomeOrder, AnyOrder!Spec
=============================================================================
