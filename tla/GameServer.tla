----------------------------- MODULE GameServer -----------------------------
(***************************************************************************)
(* The server (v4_server.c): one thread that accepts clients, reads a      *)
(* request from whichever client has sent one, and handles it to the end   *)
(* before it looks at the next.  The datagram socket is in its set, and    *)
(* whatever comes over it is taken for a request of the client with that   *)
(* descriptor.  A step of the specification is one iteration of the loop   *)
(* over the ready descriptors, or something the client at the other end of *)
(* a connection does.                                                      *)
(***************************************************************************)
EXTENDS GameCollection, Sockets

SeqExt == INSTANCE SequencesExt

\* The descriptor of the datagram socket, after the standard streams and the
\* listening socket.
udpfd == 4

CONSTANTS Fds,        \* descriptors accept can return, and udpfd (without it: what
                      \* the server does as long as nobody sends a datagram)
          Failing,    \* those of clients who may close or reset the connection
          Requests,   \* what a client can send
          Unset,      \* what the words malloc returns may hold
          MaxGameId,  \* bound: no client is accepted after this id is issued
          MaxGames    \* bound: no game is started after this many

ASSUME FdsAssumption == Fds \subseteq Nat \ 0..3 /\ IsFiniteSet(Fds)
ASSUME FailingAssumption == Failing \subseteq Fds
ASSUME RequestsAssumption ==
  Requests \subseteq [id : [1..4 -> 0..255], payload_length : -128..127,
                      first : -128..127, second : -128..127]
ASSUME UnsetAssumption == Unset \subseteq -128..127 /\ Unset # {}
ASSUME BoundsAssumption == MaxGameId \in Nat /\ MaxGames \in Nat

VARIABLES peer,            \* the client at the other end of each descriptor, or
                           \* "datagrams" for the socket that takes everybody's
          unique_game_id,  \* the id issued last
          received_data,   \* the last request, as read_data left it
          cfd,             \* who sent it
          game_lobby,      \* the list of games, with the lobbies at its head
          out,             \* the messages the last step sent
          status           \* is the process alive?

vars == << peer, unique_game_id, received_data, cfd, game_lobby, out, status >>

SocketStates == PeerStates \cup {"datagrams"}

Init ==
  /\ peer = [fd \in Fds |-> IF fd = udpfd THEN "datagrams" ELSE "none"]
  /\ unique_game_id = 3
  /\ \E v \in Unset :
       received_data = [uid |-> v, payload_length |-> v,
                        payload_first_byte |-> v, payload_second_byte |-> v]
  /\ cfd = 0
  /\ \E one, two, play_one, play_two \in Unset :
       game_lobby = InitLobbies(one, two, play_one, play_two)
  /\ out = << >>
  /\ status = "running"

-----------------------------------------------------------------------------
(* Sending.  A message to a descriptor the server has closed goes nowhere, *)
(* nor does one over the datagram socket, which is connected to nobody.    *)

Sends(msgs) ==
  /\ out' = msgs
  /\ peer' = AfterSending(peer, msgs)
  /\ status' = "running" \/ (RaisesSigpipe(peer, msgs) /\ status' = "dead")

-----------------------------------------------------------------------------
(* Reading.                                                                *)

\* The id of a request.  Of its four bytes the first is taken as it is, and every
\* bit of the others is shifted out.
ReadUid(id) == id[1]

\* read_data.  A payload that is neither one byte nor two long leaves the bytes of
\* an earlier request.
ReadData(client_data, request) ==
  [client_data EXCEPT
     !.uid = ReadUid(request.id),
     !.payload_length = request.payload_length,
     !.payload_first_byte = IF request.payload_length \in {1, 2} THEN request.first ELSE @,
     !.payload_second_byte = CASE request.payload_length = 1 -> 0
                               [] request.payload_length = 2 -> request.second
                               [] OTHER -> @]

\* The server reads a request, or a datagram.  When recv fails, on a connection that
\* was reset, whatever the buffer holds is taken for one.
Receives(fd, request) ==
  /\ status = "running"
  /\ peer[fd] # "none"
  /\ cfd' = fd
  /\ received_data' = ReadData(received_data, request)

-----------------------------------------------------------------------------
(* New connections.                                                        *)

\* The four bytes in which the client is sent its id, the highest first.
IdBytes(uid) == [i \in 1..4 |-> (uid \div 256^(4 - i)) % 256]

SendNewGameCode(fd, uid) == << Msg(fd, "NEW_GAME", uid) >>

\* Variant of SendStartTTT: the marks are swapped.
SendStartSwapped(cfd_x, cfd_o) ==
  << Msg(cfd_o, "START_GAME", X), Msg(cfd_x, "START_GAME", O) >>

\* O, who completed the pair, is told first.
SendStartTTT(cfd_x, cfd_o) == << Msg(cfd_o, "START_GAME", O), Msg(cfd_x, "START_GAME", X) >>

\* A client paired with itself is not told that the game has started.
SendStartRPS(cfd_one, cfd_two) ==
  IF cfd_two = cfd_one THEN << >>
  ELSE << Msg(cfd_one, "START_GAME", 0), Msg(cfd_two, "START_GAME", 0) >>

\* The lobbies of handle_new_connection: a handler leaves a list of games and
\* sends messages.
Lobbied(games, msgs) == [games |-> games, out |-> msgs]

\* Variants of JoinTTT: the lobby is not emptied when the game starts; it is
\* emptied before the players are told.
JoinTTTKeepingLobby(games, fd, uid) ==
  LET ttt  == Lobby(games).TTTGame
      game == NewTTTGame(ttt.client_x, ttt.client_x_uid, fd, uid)
  IN  IF ttt.client_x > 0
        THEN Lobbied(InsertNewTTTGame(games, game),
                     SendNewGameCode(fd, uid) \o SendStartTTT(game.client_x, game.client_o))
        ELSE Lobbied([games EXCEPT ![1].TTTGame.client_x = fd,
                                   ![1].TTTGame.client_x_uid = uid],
                     SendNewGameCode(fd, uid))
JoinTTTResettingFirst(games, fd, uid) ==
  LET ttt  == Lobby(games).TTTGame
      game == NewTTTGame(ttt.client_x, ttt.client_x_uid, fd, uid)
      left == ResetTTTLobby(InsertNewTTTGame(games, game))
  IN  IF ttt.client_x > 0
        THEN Lobbied(left, SendNewGameCode(fd, uid)
                             \o SendStartTTT(Lobby(left).TTTGame.client_x, fd))
        ELSE Lobbied([games EXCEPT ![1].TTTGame.client_x = fd,
                                   ![1].TTTGame.client_x_uid = uid],
                     SendNewGameCode(fd, uid))

JoinTTT(games, fd, uid) ==
  LET ttt  == Lobby(games).TTTGame
      game == NewTTTGame(ttt.client_x, ttt.client_x_uid, fd, uid)
  IN  IF ttt.client_x > 0
        THEN Lobbied(ResetTTTLobby(InsertNewTTTGame(games, game)),
                     SendNewGameCode(fd, uid) \o SendStartTTT(game.client_x, game.client_o))
        ELSE Lobbied([games EXCEPT ![1].TTTGame.client_x = fd,
                                   ![1].TTTGame.client_x_uid = uid],
                     SendNewGameCode(fd, uid))

\* Variant of JoinRPS: player two is given the id of the lobby's empty seat.
JoinRPSOneId(games, fd, uid) ==
  LET rps  == Lobby(games).RPSGame
      game == NewRPSGame(rps.fd_client_player_one, rps.unique_game_id_player_one,
                         fd, rps.unique_game_id_player_two)
  IN  IF rps.fd_client_player_one > 0
        THEN Lobbied(ResetRPSLobby(InsertNewRPSGame(games, game)), SendNewGameCode(fd, uid))
        ELSE Lobbied([games EXCEPT ![1].RPSGame.fd_client_player_one = fd,
                                   ![1].RPSGame.unique_game_id_player_one = uid],
                     SendNewGameCode(fd, uid))

JoinRPS(games, fd, uid) ==
  LET rps  == Lobby(games).RPSGame
      game == NewRPSGame(rps.fd_client_player_one, rps.unique_game_id_player_one, fd, uid)
  IN  IF rps.fd_client_player_one > 0
        THEN Lobbied(ResetRPSLobby(InsertNewRPSGame(games, game)),
                     SendNewGameCode(fd, uid)
                       \o SendStartRPS(game.fd_client_player_one, game.fd_client_player_two))
        ELSE Lobbied([games EXCEPT ![1].RPSGame.fd_client_player_one = fd,
                                   ![1].RPSGame.unique_game_id_player_one = uid],
                     SendNewGameCode(fd, uid))

\* handle_new_connection.  Any other kind of game is ignored.
HandleNewConnection(games, fd, uid, game_type) ==
  CASE game_type = TTT_GAME -> JoinTTT(games, fd, uid)
    [] game_type = RPS_GAME -> JoinRPS(games, fd, uid)
    [] OTHER -> Lobbied(games, << >>)

-----------------------------------------------------------------------------
(* The iterations of the loop.                                             *)

\* accept takes the lowest descriptor that is free.
Accept(fd) ==
  /\ status = "running"
  /\ unique_game_id < MaxGameId
  /\ peer[fd] = "none"
  /\ \A other \in Fds : other < fd => peer[other] # "none"
  /\ peer' = [peer EXCEPT ![fd] = "open"]
  /\ unique_game_id' = unique_game_id + 1
  /\ cfd' = fd
  /\ out' = << >>
  /\ UNCHANGED << received_data, game_lobby, status >>

\* No descriptor is left: accept fails, and an id is issued all the same.  (What
\* FD_SET overwrites then is SelectLoop's.)
AcceptFails ==
  /\ status = "running"
  /\ unique_game_id < MaxGameId
  /\ \A fd \in Fds : peer[fd] # "none"
  /\ unique_game_id' = unique_game_id + 1
  /\ cfd' = -1
  /\ out' = << >>
  /\ UNCHANGED << peer, received_data, game_lobby, status >>

\* The descriptor is closed, and whoever waits or plays under it is left where
\* they are.
Close(fd) ==
  /\ status = "running"
  /\ peer' = [peer EXCEPT ![fd] = "none"]
  /\ cfd' = fd
  /\ out' = << >>
  /\ UNCHANGED << unique_game_id, received_data, game_lobby, status >>

\* End of file.
Disconnect(fd) == HasLeft(peer, fd) /\ Close(fd)

\* An empty datagram is taken for end of file.  The socket is not opened again, and
\* its descriptor goes to the next client.
EmptyDatagram(fd) == peer[fd] = "datagrams" /\ Close(fd)

\* A request with id 0 asks for a new game.  (The client has the id that was
\* issued last, whoever it was issued for.)
NewConnection(fd, request) ==
  /\ Receives(fd, request)
  /\ received_data'.uid = 0
  /\ LET done == HandleNewConnection(game_lobby, fd, unique_game_id,
                                     received_data'.payload_second_byte)
     IN  /\ Len(done.games) - 1 <= MaxGames
         /\ game_lobby' = done.games
         /\ Sends(done.out)
  /\ UNCHANGED unique_game_id

\* The node a request other than for a new game is about.
Addressed == ReturnLinkByUid(game_lobby, received_data'.uid)

UnknownGame(fd, request) ==
  /\ Receives(fd, request)
  /\ received_data'.uid # 0
  /\ Addressed = NoLink
  /\ Sends(<< >>)
  /\ UNCHANGED << unique_game_id, game_lobby >>

IsTTT(i) == game_lobby[i].game_type = TTT_GAME

\* Variant of PlayTTT: anybody may move.
PlayTTTByAnybody(fd, request) ==
  /\ Receives(fd, request)
  /\ received_data'.uid # 0
  /\ Addressed # NoLink /\ IsTTT(Addressed)
  /\ LET turn == Mainaroo([game_lobby[Addressed].TTTGame EXCEPT
                             !.received_move = received_data'.payload_first_byte])
     IN  /\ game_lobby' = [game_lobby EXCEPT ![Addressed].TTTGame = turn.env]
         /\ Sends(turn.out)
  /\ UNCHANGED unique_game_id

PlayTTT(fd, request) ==
  /\ Receives(fd, request)
  /\ received_data'.uid # 0
  /\ Addressed # NoLink /\ IsTTT(Addressed)
  /\ game_lobby[Addressed].TTTGame.fd_current_player = fd
  /\ LET turn == Mainaroo([game_lobby[Addressed].TTTGame EXCEPT
                             !.received_move = received_data'.payload_first_byte])
     IN  /\ game_lobby' = [game_lobby EXCEPT ![Addressed].TTTGame = turn.env]
         /\ Sends(turn.out)
  /\ UNCHANGED unique_game_id

PlayTTTOutOfTurn(fd, request) ==
  /\ Receives(fd, request)
  /\ received_data'.uid # 0
  /\ Addressed # NoLink /\ IsTTT(Addressed)
  /\ game_lobby[Addressed].TTTGame.fd_current_player # fd
  /\ Sends(<< Msg(fd, "OUT_OF_TURN", 0) >>)
  /\ UNCHANGED << unique_game_id, game_lobby >>

\* A node that is not tic-tac-toe is rock-paper-scissors, the lobbies included.
PlayRPS(fd, request) ==
  /\ Receives(fd, request)
  /\ received_data'.uid # 0
  /\ Addressed # NoLink /\ ~IsTTT(Addressed)
  /\ \E turn \in Mainzees([game_lobby[Addressed].RPSGame EXCEPT
                             !.fd_current_client = fd,
                             !.move_received = received_data'.payload_first_byte]) :
       /\ game_lobby' = [game_lobby EXCEPT ![Addressed].RPSGame = turn.env]
       /\ IF turn.ending = "crashed"
            THEN out' = turn.out /\ peer' = AfterSending(peer, turn.out) /\ status' = "dead"
            ELSE Sends(turn.out)
  /\ UNCHANGED unique_game_id

-----------------------------------------------------------------------------
(* The other end of a connection.                                          *)

ClientLeaves(fd) ==
  /\ status = "running"
  /\ fd \in Failing
  /\ peer[fd] = "open"
  /\ peer' = [peer EXCEPT ![fd] = "closed"]
  /\ out' = << >>
  /\ UNCHANGED << unique_game_id, received_data, cfd, game_lobby, status >>

Request(fd, request) ==
  \/ NewConnection(fd, request)
  \/ UnknownGame(fd, request)
  \/ PlayTTT(fd, request)
  \/ PlayTTTOutOfTurn(fd, request)
  \/ PlayRPS(fd, request)

Next ==
  \/ AcceptFails
  \/ \E fd \in Fds :
       \/ Accept(fd)
       \/ Disconnect(fd)
       \/ EmptyDatagram(fd)
       \/ ClientLeaves(fd)
       \/ \E request \in Requests : Request(fd, request)

Spec == Init /\ [][Next]_vars

\* A connection the client has left stays ready, and every round of the loop
\* reads every descriptor that is ready: end of file is reached in the end.
Fairness == \A fd \in Fds : WF_vars(Disconnect(fd))

FairSpec == Spec /\ Fairness

-----------------------------------------------------------------------------
(* Properties.                                                             *)

TTTPlayers(i) == {game_lobby[i].TTTGame.client_x, game_lobby[i].TTTGame.client_o}

RPSPlayers(i) == {game_lobby[i].RPSGame.fd_client_player_one,
                  game_lobby[i].RPSGame.fd_client_player_two}

PlayersOf(i) == IF IsTTT(i) THEN TTTPlayers(i) ELSE RPSPlayers(i)

\* Every variable has its type.  The seats of every game are descriptors of clients
\* or udpfd's, under ids that have been issued (3 to nobody).
TypeOK ==
  /\ peer \in [Fds -> SocketStates]
  /\ unique_game_id \in 3..(IF MaxGameId > 3 THEN MaxGameId ELSE 3)
  /\ received_data \in [uid : -128..255, payload_length : -128..127,
                        payload_first_byte : -128..127, payload_second_byte : -128..127]
  /\ cfd \in Fds \cup {0, -1}
  /\ Len(game_lobby) \in 1..(MaxGames + 1)
  /\ Lobby(game_lobby).game_type = 0
  /\ \A i \in Games(game_lobby) :
       /\ game_lobby[i].game_type \in {TTT_GAME, RPS_GAME}
       /\ game_lobby[i].uid_client_one \in 3..unique_game_id
       /\ game_lobby[i].uid_client_two \in game_lobby[i].uid_client_one..unique_game_id
       /\ PlayersOf(i) \subseteq Fds
       /\ IsTTT(i) => game_lobby[i].TTTGame.fd_current_player \in TTTPlayers(i)
  /\ out \in Seq(Messages)
  /\ status \in {"running", "dead"}

\* The seats of a node of the list, in the order in which they were taken.
SeatsOf(node) ==
  IF node.game_type = TTT_GAME
    THEN << << node.TTTGame.client_x, node.TTTGame.client_x_uid >>,
            << node.TTTGame.client_o, node.TTTGame.client_o_uid >> >>
    ELSE << << node.RPSGame.fd_client_player_one, node.RPSGame.unique_game_id_player_one >>,
            << node.RPSGame.fd_client_player_two, node.RPSGame.unique_game_id_player_two >> >>

\* The seat taken in the lobby of this kind of game.
Waiting(game_type) ==
  LET seat == IF game_type = TTT_GAME
                THEN << Lobby(game_lobby).TTTGame.client_x,
                        Lobby(game_lobby).TTTGame.client_x_uid >>
                ELSE << Lobby(game_lobby).RPSGame.fd_client_player_one,
                        Lobby(game_lobby).RPSGame.unique_game_id_player_one >>
  IN  IF seat[1] = 0 THEN << >> ELSE << seat >>

SeatsInGames(game_type) ==
  [i \in 1..Len(game_lobby) |->
     IF game_lobby[i].game_type = game_type THEN SeatsOf(game_lobby[i]) ELSE << >>]

\* All the seats taken for this kind of game, oldest first.
Seats(game_type) == SeqExt!FlattenSeq(SeatsInGames(game_type)) \o Waiting(game_type)

Lobbies == INSTANCE Matchmaking WITH
  Clients <- Fds,
  Kinds <- {TTT_GAME, RPS_GAME},
  latest <- unique_game_id,
  seats <- [game_type \in {TTT_GAME, RPS_GAME} |-> Seats(game_type)]

\* Clients, and senders of datagrams as one of them, are paired in the order in which
\* they ask, and no play, departure or descriptor used again disturbs a seat that
\* was taken.
SeatsInOrderOfArrival == Lobbies!Spec

\* A tic-tac-toe game between two different clients with descriptors that can
\* stand for a mark (the precondition of TicTacToe's OrdinaryPlayers).
IsOrdinaryTTT(i) ==
  /\ i \in Games(game_lobby)
  /\ IsTTT(i)
  /\ Cardinality(TTTPlayers(i)) = 2
  /\ TTTPlayers(i) \subseteq (0..127) \ {BLANK_SPACE}

PlayerIn(i, fd) == IF fd = game_lobby[i].TTTGame.client_x THEN "x" ELSE "o"

MarksIn(i) ==
  LET board == game_lobby[i].TTTGame.game_board
  IN  [c \in Cells |-> IF board[c] = BLANK_SPACE THEN "free" ELSE PlayerIn(i, board[c])]

Game(i) == INSTANCE NoughtsAndCrosses WITH
  squares <- IF IsOrdinaryTTT(i) THEN MarksIn(i) ELSE [c \in Cells |-> "free"],
  turn <- IF IsOrdinaryTTT(i) THEN PlayerIn(i, game_lobby[i].TTTGame.fd_current_player)
          ELSE "x",
  over <- IsOrdinaryTTT(i) /\ game_lobby[i].TTTGame.game_over

\* Whatever else goes on in the server, each tic-tac-toe game it hosts is a game
\* of noughts and crosses (the conjunction of Game(i)!Spec over the games).
EveryGamePlaysNoughtsAndCrosses ==
  /\ \A i \in 2..(MaxGames + 1) : Game(i)!Init
  /\ [][\A i \in 2..(MaxGames + 1) : UNCHANGED Game(i)!vars \/ Game(i)!Next]_vars

\* A step touches at most one game, which the request named by an id of its own;
\* a tic-tac-toe game only on the move of the player whose turn it is, and a
\* recorded play of rock-paper-scissors only if it is the requester's.
GamesAreIsolated ==
  [][\A i \in Games(game_lobby) : game_lobby'[i] # game_lobby[i] =>
       /\ \A j \in Games(game_lobby) : game_lobby'[j] # game_lobby[j] => j = i
       /\ IsEitherUid(game_lobby[i], received_data'.uid)
       /\ IsTTT(i) => cfd' = game_lobby[i].TTTGame.fd_current_player
       /\ LET before == game_lobby[i].RPSGame
              after  == game_lobby'[i].RPSGame
          IN  /\ after.client_one_play # before.client_one_play =>
                   cfd' = before.fd_client_player_one
              /\ after.client_two_play # before.client_two_play =>
                   cfd' = before.fd_client_player_two]_vars

\* Nobody but the requester is sent anything, except the players of the game the
\* request named or started.
TalkStaysInTheGame ==
  [][\A m \in 1..Len(out') : out'[m].to # cfd' =>
       \E i \in Games(game_lobby') :
         /\ out'[m].to \in PlayersOf(i)'
         /\ i > Len(game_lobby) \/ IsEitherUid(game_lobby[i], received_data'.uid)]_vars

\* When a game starts, the second client is told its id and then both are told
\* to start, as X and O in the order of arrival: unless one client is both
\* players of rock-paper-scissors.  (What udpfd is told as the datagram socket
\* reaches nobody, and its opponent is not told so.)
NewGamesAreAnnounced ==
  [][Len(game_lobby') > Len(game_lobby) =>
       LET new == game_lobby'[Len(game_lobby')]
           first == SeatsOf(new)[1]
           second == SeatsOf(new)[2]
           starts == {out'[m] : m \in 2..Len(out')}
       IN  /\ out'[1] = Msg(second[1], "NEW_GAME", second[2])
           /\ first = Waiting(new.game_type)[1]
           /\ \/ first[1] = second[1] /\ new.game_type = RPS_GAME /\ starts = {}
              \/ \E x, o \in {0, X, O} :
                   /\ starts = {Msg(first[1], "START_GAME", x), Msg(second[1], "START_GAME", o)}
                   /\ new.game_type = TTT_GAME => x = X /\ o = O]_vars

\* A game both of whose players have the same id is found by it, the oldest
\* first; any other is found only while no later game has been started.
\* A lookup never returns a game under an id that is not its own.
LookupFindsOwnGames ==
  \A i \in Games(game_lobby) :
    \A uid \in {game_lobby[i].uid_client_one, game_lobby[i].uid_client_two} :
      LET link == ReturnLinkByUid(game_lobby, uid)
      IN  /\ link # NoLink => IsEitherUid(game_lobby[link], uid)
          /\ link = NoLink => /\ i < Len(game_lobby)
                              /\ game_lobby[i].uid_client_one # game_lobby[i].uid_client_two
          /\ IsBothUids(game_lobby[i], uid) => link <= i

IsToldSomething(fd) == MessagesTo(fd, out) # {}

\* A request is left without an answer only if it names no game that can be
\* found or no kind of game, if it is an illegal or repeated play of
\* rock-paper-scissors, or if it is a move of tic-tac-toe on a board with a line
\* that is put down to nobody.  (An answer to a datagram reaches nobody.)
SilenceIsAccountedFor ==
  [][\A request \in Requests :
       cfd' \in Fds /\ ~IsToldSomething(cfd)' /\ Request(cfd', request) =>
         \/ /\ received_data'.uid = 0
            /\ received_data'.payload_second_byte \notin {TTT_GAME, RPS_GAME}
         \/ received_data'.uid # 0 /\ Addressed = NoLink
         \/ /\ ~IsTTT(Addressed)
            /\ LET before == [game_lobby[Addressed].RPSGame EXCEPT
                                !.fd_current_client = cfd',
                                !.move_received = received_data'.payload_first_byte]
               IN  ~IsValidPlay(before) \/ HasGone(before)
         \/ /\ IsTTT(Addressed)
            /\ LET after == game_lobby'[Addressed].TTTGame
               IN  /\ HasLine(after.game_board)
                   /\ after.winner \notin TTTPlayers(Addressed)]_vars

\* The games a request is about: the one it names, or the one it has started.
Concerned ==
  IF received_data'.uid = 0 THEN Len(game_lobby) + 1..Len(game_lobby') ELSE {Addressed}

\* A legal request kills the server only if its sender, or a player of the game it is
\* about, has left: no other game and no other departure matters.
DeathIsAccountedFor ==
  [][status' = "dead" /\ status = "running" =>
       \/ \E fd \in {cfd'} \cup UNION {PlayersOf(i)' : i \in Concerned \cap Games(game_lobby')} :
            HasLeft(peer, fd)
       \/ /\ received_data'.uid # 0 /\ Addressed # NoLink /\ ~IsTTT(Addressed)
          /\ ~IsValidPlay(game_lobby'[Addressed].RPSGame)]_vars

-----------------------------------------------------------------------------
(* What goes wrong.                                                        *)

\* "unique ID": two games between four different clients have no id in common.
UniqueIds ==
  \A i, j \in Games(game_lobby) : Cardinality(PlayersOf(i) \cup PlayersOf(j)) = 4 =>
    ~IsEitherUid(game_lobby[i], game_lobby[j].uid_client_one)
    /\ ~IsEitherUid(game_lobby[i], game_lobby[j].uid_client_two)

\* "byteArray[0] << 24 ... byteArray[3]": a client who names a game it has a seat
\* in by the very bytes in which it was sent the id does not ask for another game.
SentIdIsNotANewGame ==
  [][\A fd \in Fds, request \in Requests, game_type \in {TTT_GAME, RPS_GAME} :
       NewConnection(fd, request) =>
         \A i \in 1..Len(Seats(game_type)) :
           Seats(game_type)[i][1] = fd => request.id # IdBytes(Seats(game_type)[i][2])]_vars

\* "payload is zero and we expect nothin more": a request without a payload is
\* not a move.
NoMoveWithoutPayload ==
  [][\A fd \in Fds, request \in Requests :
       PlayTTT(fd, request) /\ IsOrdinaryTTT(Addressed) /\ request.payload_length = 0 =>
         game_lobby'[Addressed].TTTGame.game_board = game_lobby[Addressed].TTTGame.game_board]_vars

=============================================================================
