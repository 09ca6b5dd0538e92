---------------------------- MODULE ThirdServer ----------------------------
(***************************************************************************)
(* The third server (v3_server.c) with its list of games                   *)
(* (game_collection_linked_list.c): clients are paired as they connect,    *)
(* and a request is the id of a game and a move, read by two calls of read *)
(* of which the second may block.  A step is one iteration of the loop     *)
(* over the ready descriptors, cut in two where it blocks.                 *)
(***************************************************************************)
EXTENDS V2_FSM, Sockets

SeqExt == INSTANCE SequencesExt

CONSTANTS Fds,        \* descriptors accept can return
          Failing,    \* those of clients who may leave
          Guesses,    \* ids a client may send besides its own
          Plays,      \* the moves a client may send
          MaxGameId,  \* bound: no client is accepted after this id
          MaxGames    \* bound: no game is started after this many

ASSUME FdsAssumption == Fds \subseteq Nat \ 0..3 /\ IsFiniteSet(Fds)
ASSUME FailingAssumption == Failing \subseteq Fds
ASSUME RequestsAssumption == Guesses \subseteq -128..127 /\ Plays \subseteq -128..127
ASSUME BoundsAssumption == MaxGameId \in Nat \ 0..2 /\ MaxGames \in Nat

VARIABLES peer,     \* the client at the other end of each descriptor
          told,     \* the id of the game that client was last welcomed to, or 0
          arrived,  \* what game_id was when it was accepted (nothing reads it)
          game_id,  \* the id of the next game
          lobby,    \* the head of the list
          games,    \* the environments of the other nodes, in order
          reading,  \* who has sent the id of a game, and not yet the move
          status    \* is the process alive?

vars == << peer, told, arrived, game_id, lobby, games, reading, status >>

Nobody == [fd |-> 0, game |-> 0]

EmptyLobby == [game_id |-> 2, fd_client_X |-> 0, fd_client_O |-> 0]

Init ==
  /\ peer = [fd \in Fds |-> "none"]
  /\ told = [fd \in Fds |-> 0]
  /\ arrived = [fd \in Fds |-> 0]
  /\ game_id = 3
  /\ lobby = EmptyLobby
  /\ games = << >>
  /\ reading = Nobody
  /\ status = "running"

-----------------------------------------------------------------------------
(* The list.                                                               *)

\* What an operation leaves of the list, the messages sent, and whether it ended
\* the process.
Left(head, nodes, out, crashed) ==
  [lobby |-> head, games |-> nodes, out |-> out, crashed |-> crashed]

NewGame(id, xfd, ofd) ==
  [game_ID |-> id, fd_client_X |-> xfd, fd_client_O |-> ofd, fd_current_player |-> xfd,
   current_player |-> X, play_count |-> 0, game_over |-> FALSE, response_type |-> "ACCEPTED",
   byte_input |-> 0, game_board |-> First!BlankBoard]

SendNewGameData(env, id) ==
  << Msg(env.fd_client_X, "WELCOME", id), Msg(env.fd_client_X, "IDENTITY", X),
     Msg(env.fd_client_X, "GAME_ID", id),
     Msg(env.fd_client_O, "WELCOME", id), Msg(env.fd_client_O, "IDENTITY", O),
     Msg(env.fd_client_O, "GAME_ID", id) >>

\* The two in the lobby start a game.
Paired(head, id) ==
  Left(EmptyLobby, Append(games, NewGame(id, head.fd_client_X, head.fd_client_O)),
       SendNewGameData(head, id), FALSE)

\* Variant of HandleIncoming: the lobby is not reset.
HandleIncomingKeepingLobby(fd) ==
  IF lobby.fd_client_X = 0
    THEN Left([lobby EXCEPT !.fd_client_X = fd], games, << >>, FALSE)
    ELSE [Paired([lobby EXCEPT !.fd_client_O = fd], game_id) EXCEPT !.lobby = lobby]

\* handle_incoming_cfd.
HandleIncoming(fd) ==
  IF lobby.fd_client_X = 0
    THEN Left([lobby EXCEPT !.fd_client_X = fd], games, << >>, FALSE)
    ELSE Paired([lobby EXCEPT !.fd_client_O = fd], game_id)

\* rematch walks to the last node, and past it unless that is the one: a game is
\* started again only in the newest node.  The count of moves goes on.
Rematch(i, nodes, out) ==
  IF i = Len(nodes)
    THEN Left(lobby,
              [nodes EXCEPT ![i].game_over = FALSE, ![i].game_board = First!BlankBoard],
              out \o SendNewGameData(nodes[i], nodes[i].game_ID), FALSE)
    ELSE Left(lobby, nodes, out, TRUE)

Named(id) == {i \in DOMAIN games : games[i].game_ID = id}

\* Between turns: the next one writes both fields before it reads them.
Settled(env) == [env EXCEPT !.byte_input = 0, !.response_type = "ACCEPTED"]

\* execute_turn and what follows it: the turn of the first node with this id.  A
\* walk that finds none ends with a null pointer.  Whose move it is, nobody asks.
ExecuteTurn(id, requested) ==
  IF Named(id) = {} THEN Left(lobby, games, << >>, TRUE)
  ELSE LET i     == CHOOSE n \in Named(id) : \A m \in Named(id) : n <= m
           turn  == Mainaroo([games[i] EXCEPT !.byte_input = requested])
           nodes == [games EXCEPT ![i] = Settled(turn.env)]
       IN  IF turn.env.game_over THEN Rematch(i, nodes, turn.out)
           ELSE Left(lobby, nodes, turn.out, turn.off_table)

\* The players who shared a game with this descriptor, in the order in which
\* find_remaining_by_id tells them that it has left.
Remaining(fd) ==
  SeqExt!FlattenSeq([i \in DOMAIN games |->
    (IF games[i].fd_client_O = fd THEN << games[i].fd_client_X >> ELSE << >>)
      \o IF games[i].fd_client_X = fd THEN << games[i].fd_client_O >> ELSE << >>])

\* handle_disconnect.  The one who remains is meant to be seated in the lobby; but
\* the lobby's id is always 2, and so it is emptied.  If there is nobody remaining_fd
\* is not set, and may be anything.
HandleDisconnect(fd) ==
  LET told_of == [n \in DOMAIN Remaining(fd) |-> Msg(Remaining(fd)[n], "DISCONNECT", 0)]
      found(remaining) ==
        IF remaining < 1 THEN Left(lobby, games, told_of, FALSE)
        ELSE IF lobby.game_id = 2 THEN Left(EmptyLobby, games, told_of, FALSE)
        ELSE IF lobby.fd_client_X = 0
          THEN Left([lobby EXCEPT !.fd_client_X = remaining], games, told_of, FALSE)
        ELSE LET new == Paired([lobby EXCEPT !.fd_client_O = remaining], lobby.game_id)
             IN  [new EXCEPT !.out = told_of \o new.out]
  IN  IF Remaining(fd) = << >> THEN {found(0), found(1)} ELSE {found(SeqExt!Last(Remaining(fd)))}

-----------------------------------------------------------------------------
(* The loop.                                                               *)

\* The id in the last welcome among these messages to a client.
Welcomes(fd, msgs) == {msgs[m].arg : m \in {n \in MessagesTo(fd, msgs) : msgs[n].code = "WELCOME"}}

\* Which game each client knows, after these messages.
TellsOf(known, msgs) ==
  [fd \in Fds |-> IF Welcomes(fd, msgs) = {} THEN known[fd]
                  ELSE CHOOSE id \in Welcomes(fd, msgs) : TRUE]

\* The list becomes what the operation has left of it; sending its messages over
\* these connections may end the process.
Becomes(left, connections) ==
  /\ lobby' = left.lobby
  /\ games' = left.games
  /\ \/ ~left.crashed /\ status' = "running"
     \/ (left.crashed \/ RaisesSigpipe(connections, left.out)) /\ status' = "dead"

\* Is the loop at its next descriptor, and not blocked?
AtLoop == status = "running" /\ reading = Nobody

Accept(fd) ==
  /\ AtLoop
  /\ game_id <= MaxGameId
  /\ lobby.fd_client_X # 0 => Len(games) < MaxGames
  /\ peer[fd] = "none" /\ \A other \in Fds : other < fd => peer[other] # "none"
  /\ LET connections == [peer EXCEPT ![fd] = "open"]
         left        == HandleIncoming(fd)
     IN  /\ Becomes(left, connections)
         /\ peer' = AfterSending(connections, left.out)
         /\ told' = TellsOf([told EXCEPT ![fd] = 0], left.out)
  /\ arrived' = [arrived EXCEPT ![fd] = game_id]
  /\ game_id' = game_id + 1
  /\ UNCHANGED reading

\* What is left of an id in the one byte of it that is read.
AsByte(id) == ((id + 128) % 256) - 128

\* The id is read.  (A client may have left since it sent it.)
ReadGame(fd, game) ==
  /\ AtLoop
  /\ peer[fd] # "none"
  /\ reading' = [fd |-> fd, game |-> AsByte(game)]
  /\ UNCHANGED << peer, told, arrived, game_id, lobby, games, status >>

\* The move is read; at end of file, which is not noticed, position_request is left
\* as it was, and may be any move.
ReadPosition(play) ==
  /\ status = "running" /\ reading # Nobody
  /\ LET left == ExecuteTurn(reading.game, play)
     IN  /\ Becomes(left, peer)
         /\ peer' = AfterSending(peer, left.out)
         /\ told' = TellsOf(told, left.out)
  /\ reading' = Nobody
  /\ UNCHANGED << arrived, game_id >>

\* Variant of HangUp: the descriptor is not closed.
HangUpWithoutClose(fd) ==
  /\ AtLoop
  /\ HasLeft(peer, fd)
  /\ \E left \in HandleDisconnect(fd) :
       /\ Becomes(left, peer)
       /\ peer' = AfterSending(peer, left.out)
       /\ told' = TellsOf(told, left.out)
  /\ UNCHANGED << arrived, game_id, reading >>

\* End of file.  The descriptor is closed after the others have been told.
HangUp(fd) ==
  /\ AtLoop
  /\ HasLeft(peer, fd)
  /\ \E left \in HandleDisconnect(fd) :
       /\ Becomes(left, peer)
       /\ peer' = [AfterSending(peer, left.out) EXCEPT ![fd] = "none"]
       /\ told' = [TellsOf(told, left.out) EXCEPT ![fd] = 0]
  /\ UNCHANGED << arrived, game_id, reading >>

ClientLeaves(fd) ==
  /\ status = "running"
  /\ fd \in Failing
  /\ peer[fd] = "open"
  /\ peer' = [peer EXCEPT ![fd] = "closed"]
  /\ UNCHANGED << told, arrived, game_id, lobby, games, reading, status >>

Next ==
  \/ \E fd \in Fds :
       \/ Accept(fd) \/ HangUp(fd) \/ ClientLeaves(fd)
       \/ \E game \in Guesses \cup ({told[fd]} \ {0}) : ReadGame(fd, game)
  \/ \E play \in Plays : ReadPosition(play)

\* The read for the move of a client who has left, which does not block, returns.
\* (Only ReadPosition does this.)
ReadReturns ==
  /\ status = "running" /\ reading # Nobody
  /\ HasLeft(peer, reading.fd)
  /\ reading' = Nobody

\* Every pass of the loop visits every ready descriptor, so a descriptor at end of file
\* is reached again and again until it is closed.
Fairness == WF_reading(ReadReturns) /\ \A fd \in Failing : SF_vars(HangUp(fd))

Spec == Init /\ [][Next]_vars /\ Fairness

-----------------------------------------------------------------------------
(* Properties.                                                             *)

GameEnvs ==
  [game_ID : 3..MaxGameId, fd_client_X : Fds, fd_client_O : Fds, fd_current_player : Fds,
   current_player : {X, O}, play_count : 0..9, game_over : BOOLEAN,
   response_type : {"ACCEPTED"}, byte_input : {0},
   game_board : [First!Cells -> {X, O, First!BLANK_SPACE}]]

\* Every variable has its type: the lobby's id is 2 and its second seat free whenever
\* the loop goes on, and no count of moves passes 9.
TypeOK ==
  /\ peer \in [Fds -> PeerStates]
  /\ told \in [Fds -> {0} \cup 3..MaxGameId]
  /\ arrived \in [Fds -> {0} \cup 3..MaxGameId]
  /\ game_id \in 3..(MaxGameId + 1)
  /\ lobby \in [game_id : {2}, fd_client_X : Fds \cup {0}, fd_client_O : {0}]
  /\ games \in Seq(GameEnvs)
  /\ reading \in {Nobody} \cup [fd : Fds, game : -128..127]
  /\ status \in {"running", "dead"}

PlayersOf(i) == {games[i].fd_client_X, games[i].fd_client_O}

GamesWith(fd) == {i \in DOMAIN games : fd \in PlayersOf(i)}

\* Ids name games.  A client has a seat in the game it was welcomed to; if the game was
\* started since it connected, it has one in no later game and not in the lobby.  (An
\* older one welcomes it when it is played again, if its descriptor had a seat there.)
SeatedAsTold ==
  /\ \A i, j \in DOMAIN games : games[i].game_ID = games[j].game_ID => i = j
  /\ \A fd \in Fds : peer[fd] = "open" /\ told[fd] # 0 =>
       \E i \in GamesWith(fd) :
         /\ games[i].game_ID = told[fd]
         /\ told[fd] >= arrived[fd] =>
              fd # lobby.fd_client_X /\ \A j \in GamesWith(fd) : j <= i

\* The games whose players a step may send something to: the one that is played or
\* started, or those of the client who is hung up on.
Concerned ==
  IF reading # Nobody THEN Named(reading.game)
  ELSE (UNION {GamesWith(fd) : fd \in {f \in Fds : peer'[f] = "none"}})
         \cup ((Len(games) + 1)..Len(games'))

\* The server dies only because it is asked for a game there is not, because another
\* game than the newest comes to its end, or because a player it sends something to
\* has left.
DeathIsAccountedFor ==
  [][status' = "dead" /\ status = "running" =>
       \/ reading # Nobody /\ Named(reading.game) = {}
       \/ \E i \in Concerned : i < Len(games) /\ games'[i].game_over
       \/ \E i \in Concerned \cap DOMAIN games' : \E fd \in PlayersOf(i)' : HasLeft(peer, fd)]_vars

\* A client who leaves is hung up on, unless the server has died or waits for ever for
\* the second byte of a client who is still there.
DeparturesAreNoticed ==
  \A fd \in Failing :
    HasLeft(peer, fd) ~>
      \/ ~HasLeft(peer, fd)
      \/ status = "dead"
      \/ [](reading # Nobody /\ ~HasLeft(peer, reading.fd))
=============================================================================
