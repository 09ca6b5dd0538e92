-------------------------- MODULE GameServer_proofs --------------------------
(***************************************************************************)
(* Proofs about GameServer, for any descriptors, requests and bounds: its  *)
(* types, what a lookup finds, that requests stay in the game they name,   *)
(* what becomes of those that get no answer and of what the server dies;   *)
(* that each tic-tac-toe game it hosts is one of NoughtsAndCrosses, and    *)
(* that its seats are those of Matchmaking.                                *)
(***************************************************************************)
EXTENDS GameServer, TTT_FSM_proofs, SequenceTheorems

USE DEF FSM_INIT, FSM_EXIT, TURNOVER, GAMEOVER, TTT_GAME, RPS_GAME, NoLink

-----------------------------------------------------------------------------
(* The list.                                                               *)

\* return_link_by_uid returns a node one of whose ids is the wanted one, and the first
\* both of whose ids are; it finds nothing only if there is no such first one and the
\* last node does not have the id.
LEMMA LookupResult ==
  ASSUME NEW games, Len(games) \in Nat, Len(games) >= 1, NEW uid
  PROVE  LET link == ReturnLinkByUid(games, uid)
         IN  /\ link \in {NoLink} \cup 1..Len(games)
             /\ link # NoLink => IsEitherUid(games[link], uid)
             /\ link = NoLink => ~IsEitherUid(games[Len(games)], uid)
             /\ \A i \in 1..Len(games) : IsBothUids(games[i], uid) => link # NoLink /\ link <= i
<1> DEFINE both == {i \in 1..Len(games) : IsBothUids(games[i], uid)}
           first == CHOOSE i \in both : \A j \in both : i <= j
           last == Len(games)
           link == ReturnLinkByUid(games, uid)
<1>1. link = IF both # {} THEN first
             ELSE IF IsEitherUid(games[last], uid) THEN last ELSE NoLink
  BY DEF ReturnLinkByUid
<1>2. CASE both # {}
  <2>1. \E i \in both : \A j \in both : i <= j
    <3>1. both \subseteq Nat
      OBVIOUS
    <3> HIDE DEF both
    <3> QED BY <1>2, <3>1, SmallestOne
  <2>2. first \in both /\ \A j \in both : first <= j
    <3> HIDE DEF both
    <3> QED BY <2>1
  <2>3. link = first
    BY <1>1, <1>2
  <2> HIDE DEF first, link
  <2>4. link \in 1..Len(games) /\ IsBothUids(games[link], uid)
    BY <2>2, <2>3
  <2>5. \A i \in 1..Len(games) : IsBothUids(games[i], uid) => link <= i
    BY <2>2, <2>3
  <2>6. IsEitherUid(games[link], uid)
    BY <2>4 DEF IsBothUids, IsEitherUid
  <2> QED BY <2>4, <2>5, <2>6 DEF link
<1>3. CASE both = {}
  <2>1. link = IF IsEitherUid(games[last], uid) THEN last ELSE NoLink
    BY <1>1, <1>3
  <2>2. \A i \in 1..Len(games) : ~IsBothUids(games[i], uid)
    BY <1>3
  <2> HIDE DEF link
  <2> QED BY <2>1, <2>2 DEF link
<1> QED BY <1>2, <1>3

-----------------------------------------------------------------------------
(* The inductive invariant.                                                *)

\* The environments of rock-paper-scissors, in a game or in the lobby: there the plays
\* are what malloc left, or what somebody has played.
RPSRecords ==
  [fd_client_player_one : Nat, unique_game_id_player_one : Int,
   fd_client_player_two : Nat, unique_game_id_player_two : Int,
   client_one_play : -128..127, client_two_play : -128..127,
   fd_current_client : Nat, move_received : -128..127, winner : Nat]

Nodes ==
  [game_type : {0, TTT_GAME, RPS_GAME}, uid_client_one : Int, uid_client_two : Int,
   TTTGame : TTTRecords, RPSGame : RPSRecords]

\* Who waits in a lobby has a descriptor, and waits under an id that was issued (3 to
\* nobody).
Waits(fd, uid, latest) == fd # 0 => fd \in Fds /\ uid \in 3..latest

\* The head of the list: nobody but clients, or udpfd, wait there, and its own ids are what malloc
\* left.
HeadFits(head, latest) ==
  /\ head.game_type = 0
  /\ head.uid_client_one \in Unset /\ head.uid_client_two \in Unset
  /\ Waits(head.TTTGame.client_x, head.TTTGame.client_x_uid, latest)
  /\ Waits(head.RPSGame.fd_client_player_one, head.RPSGame.unique_game_id_player_one, latest)

\* A game: its seats are taken, in the order of their ids; a game of tic-tac-toe is as
\* its turns leave it, and in one of rock-paper-scissors only legal plays are recorded.
GameFits(node, latest) ==
  /\ node.game_type \in {TTT_GAME, RPS_GAME}
  /\ node.uid_client_one \in 3..latest
  /\ node.uid_client_two \in node.uid_client_one..latest
  /\ node.game_type = TTT_GAME =>
       /\ node.TTTGame.client_x \in Fds /\ node.TTTGame.client_o \in Fds
       /\ Sound(node.TTTGame)
  /\ node.game_type = RPS_GAME =>
       /\ node.RPSGame.fd_client_player_one \in Fds
       /\ node.RPSGame.fd_client_player_two \in Fds
       /\ node.RPSGame.client_one_play \in 0..3 /\ node.RPSGame.client_two_play \in 0..3

ListFits(games, latest) ==
  /\ games \in Seq(Nodes)
  /\ Len(games) \in 1..(MaxGames + 1)
  /\ HeadFits(games[1], latest)
  /\ \A i \in 2..Len(games) : GameFits(games[i], latest)

Requested == [uid : -128..255, payload_length : -128..127,
              payload_first_byte : -128..127, payload_second_byte : -128..127]

IInv ==
  /\ peer \in [Fds -> SocketStates]
  /\ unique_game_id \in 3..(IF MaxGameId > 3 THEN MaxGameId ELSE 3)
  /\ received_data \in Requested
  /\ cfd \in Fds \cup {0, -1}
  /\ ListFits(game_lobby, unique_game_id)
  /\ out \in Seq(Messages)
  /\ status \in {"running", "dead"}

\* The invariant gives every variable its type.
LEMMA InvTypes == IInv => TypeOK
<1> SUFFICES ASSUME IInv PROVE TypeOK
  OBVIOUS
<1>1. ASSUME NEW i \in Games(game_lobby)
      PROVE  /\ game_lobby[i].game_type \in {TTT_GAME, RPS_GAME}
             /\ game_lobby[i].uid_client_one \in 3..unique_game_id
             /\ game_lobby[i].uid_client_two \in game_lobby[i].uid_client_one..unique_game_id
             /\ PlayersOf(i) \subseteq Fds
             /\ IsTTT(i) => game_lobby[i].TTTGame.fd_current_player \in TTTPlayers(i)
  <2>1. GameFits(game_lobby[i], unique_game_id)
    BY DEF IInv, ListFits, Games
  <2> QED BY <2>1 DEF GameFits, PlayersOf, IsTTT, TTTPlayers, RPSPlayers, Sound, Theirs
<1>2. Len(game_lobby) \in 1..(MaxGames + 1) /\ Lobby(game_lobby).game_type = 0
  BY DEF IInv, ListFits, HeadFits, Lobby
<1> QED BY <1>1, <1>2 DEF IInv, TypeOK, Requested

-----------------------------------------------------------------------------
(* Joining a game.                                                         *)

\* The environments of new games and of emptied lobbies are environments.
LEMMA NewGames ==
  /\ \A x, o \in Nat, xu, ou \in Int : NewTTTGame(x, xu, o, ou) \in TTTRecords
  /\ \A one, two \in Nat, u1, u2 \in Int : NewRPSGame(one, u1, two, u2) \in RPSRecords
<1>1. BLANK_SPACE \in Nat
  BY DEF BLANK_SPACE
<1>2. ASSUME NEW x \in Nat, NEW o \in Nat, NEW xu \in Int, NEW ou \in Int
      PROVE  NewTTTGame(x, xu, o, ou) \in TTTRecords
  BY <1>1 DEF NewTTTGame, TTTRecords
<1>3. ASSUME NEW one \in Nat, NEW two \in Nat, NEW u1 \in Int, NEW u2 \in Int
      PROVE  NewRPSGame(one, u1, two, u2) \in RPSRecords
  BY DEF NewRPSGame, RPSRecords
<1> QED BY <1>2, <1>3

\* A list with this head and the same games.
NewHead(games, left, ttt, rps) ==
  /\ left \in Seq(Nodes)
  /\ Len(left) = Len(games)
  /\ \A i \in 2..Len(games) : left[i] = games[i]
  /\ left[1] = [games[1] EXCEPT !.TTTGame = ttt, !.RPSGame = rps]

\* The head is replaced and the games stay.
LEMMA HeadReplaced ==
  ASSUME NEW games \in Seq(Nodes), Len(games) >= 1,
         NEW ttt \in TTTRecords, NEW rps \in RPSRecords, NEW left,
         left = [games EXCEPT ![1] = [games[1] EXCEPT !.TTTGame = ttt, !.RPSGame = rps]]
  PROVE  NewHead(games, left, ttt, rps)
<1> DEFINE head == [games[1] EXCEPT !.TTTGame = ttt, !.RPSGame = rps]
<1>1. 1 \in 1..Len(games) /\ Len(games) \in Nat
  OBVIOUS
<1>2. games[1] \in Nodes
  BY <1>1
<1>3. head \in Nodes
  BY <1>2 DEF Nodes
<1> HIDE DEF head
<1>4. /\ left \in Seq(Nodes) /\ Len(left) = Len(games)
      /\ \A i \in 1..Len(games) : left[i] = IF i = 1 THEN head ELSE games[i]
  <2>1. left = [games EXCEPT ![1] = head]
    BY DEF head
  <2> QED BY <1>1, <1>3, <2>1, ExceptSeq
<1> QED BY <1>1, <1>4 DEF NewHead, head

\* The node a pair of clients is given.
TTTNode(ttt, fd, uid) ==
  Node(TTT_GAME, ttt.client_x_uid, uid,
       NewTTTGame(ttt.client_x, ttt.client_x_uid, fd, uid), EmptyRPSLobby)

RPSNode(rps, fd, uid) ==
  Node(RPS_GAME, rps.unique_game_id_player_one, uid, EmptyTTTLobby,
       NewRPSGame(rps.fd_client_player_one, rps.unique_game_id_player_one, fd, uid))

\* A list with this node at its end, the same games before it, and this head.
NewGame(games, left, node, ttt, rps) ==
  /\ left \in Seq(Nodes)
  /\ Len(left) = Len(games) + 1
  /\ \A i \in 2..Len(games) : left[i] = games[i]
  /\ left[1] = [games[1] EXCEPT !.TTTGame = ttt, !.RPSGame = rps]
  /\ left[Len(games) + 1] = node

\* A game is appended and the head is replaced.
LEMMA GameAppended ==
  ASSUME NEW games \in Seq(Nodes), Len(games) >= 1, NEW node \in Nodes,
         NEW ttt, NEW rps, NEW left, NewHead(Append(games, node), left, ttt, rps)
  PROVE  NewGame(games, left, node, ttt, rps)
<1> DEFINE more == Append(games, node)
<1>1. /\ more \in Seq(Nodes) /\ Len(games) \in Nat /\ Len(more) = Len(games) + 1
      /\ \A i \in 1..Len(games) : more[i] = games[i]
      /\ more[Len(games) + 1] = node
  OBVIOUS
<1>2. NewHead(more, left, ttt, rps)
  OBVIOUS
<1> HIDE DEF more
<1>3. /\ left \in Seq(Nodes) /\ Len(left) = Len(games) + 1
      /\ \A i \in 2..(Len(games) + 1) : left[i] = more[i]
      /\ left[1] = [more[1] EXCEPT !.TTTGame = ttt, !.RPSGame = rps]
  BY <1>1, <1>2 DEF NewHead
<1>4. \A i \in 2..Len(games) : left[i] = games[i]
  <2> SUFFICES ASSUME NEW i \in 2..Len(games) PROVE left[i] = games[i]
    OBVIOUS
  <2>1. i \in 2..(Len(games) + 1) /\ i \in 1..Len(games)
    BY <1>1
  <2> QED BY <1>1, <1>3, <2>1
<1>5. Len(games) + 1 \in 2..(Len(games) + 1) /\ 1 \in 1..Len(games)
  BY <1>1
<1>6. left[Len(games) + 1] = node /\ more[1] = games[1]
  BY <1>1, <1>3, <1>5
<1> QED BY <1>3, <1>4, <1>6 DEF NewGame

\* What asking for a game of tic-tac-toe does: the first to ask waits, the second is
\* paired with the first.
JoinedTTT(games, ttt, fd, uid, done) ==
  \/ /\ ttt.client_x = 0
     /\ NewHead(games, done.games,
                [ttt EXCEPT !.client_x = fd, !.client_x_uid = uid], games[1].RPSGame)
     /\ done.out = SendNewGameCode(fd, uid)
  \/ /\ ttt.client_x > 0
     /\ NewGame(games, done.games, TTTNode(ttt, fd, uid),
                [ttt EXCEPT !.client_x_uid = 2, !.client_o_uid = 2,
                            !.client_x = 0, !.client_o = 0], games[1].RPSGame)
     /\ done.out = SendNewGameCode(fd, uid) \o SendStartTTT(ttt.client_x, fd)

\* That is what JoinTTT does.
LEMMA JoinTTTResult ==
  ASSUME NEW games \in Seq(Nodes), Len(games) >= 1, NEW fd \in Nat, NEW uid \in Int,
         NEW ttt, ttt = games[1].TTTGame, NEW done, done = JoinTTT(games, fd, uid)
  PROVE  JoinedTTT(games, ttt, fd, uid, done)
<1> DEFINE rps == games[1].RPSGame
           game == NewTTTGame(ttt.client_x, ttt.client_x_uid, fd, uid)
           node == TTTNode(ttt, fd, uid)
<1>1. games[1] \in Nodes /\ ttt \in TTTRecords /\ rps \in RPSRecords
  <2>1. games[1] \in Nodes
    <3>1. 1 \in 1..Len(games)
      OBVIOUS
    <3> QED BY <3>1, ElementOfSeq
  <2> QED BY <2>1 DEF Nodes
<1>2. ttt.client_x \in Nat /\ ttt.client_x_uid \in Int
  BY <1>1 DEF TTTRecords
<1>3. node \in Nodes
  <2>1. NewTTTGame(ttt.client_x, ttt.client_x_uid, fd, uid) \in TTTRecords
    BY <1>2, NewGames
  <2>2. EmptyRPSLobby \in RPSRecords
    BY DEF EmptyRPSLobby, NewRPSGame, RPSRecords
  <2> HIDE DEF game
  <2> QED BY <1>2, <2>1, <2>2 DEF TTTNode, Node, Nodes
<1>4. CASE ttt.client_x = 0
  <2> DEFINE waits == [ttt EXCEPT !.client_x = fd, !.client_x_uid = uid]
             left == [games EXCEPT ![1].TTTGame.client_x = fd, ![1].TTTGame.client_x_uid = uid]
  <2>1. done = Lobbied(left, SendNewGameCode(fd, uid))
    BY <1>4 DEF JoinTTT, Lobby
  <2>2. waits \in TTTRecords
    BY <1>1 DEF TTTRecords
  <2>3. left = [games EXCEPT ![1] = [games[1] EXCEPT !.TTTGame = waits, !.RPSGame = rps]]
    BY <1>1 DEF Nodes, TTTRecords
  <2> HIDE DEF left, waits
  <2>4. NewHead(games, left, waits, rps)
    BY <1>1, <2>2, <2>3, HeadReplaced
  <2>5. done.games = left /\ done.out = SendNewGameCode(fd, uid)
    BY <2>1 DEF Lobbied
  <2> QED BY <1>4, <2>4, <2>5 DEF waits, JoinedTTT
<1>5. CASE ttt.client_x > 0
  <2> DEFINE more == Append(games, node)
             left == ResetTTTLobby(more)
             emptied == [ttt EXCEPT !.client_x_uid = 2, !.client_o_uid = 2,
                                    !.client_x = 0, !.client_o = 0]
             msgs == SendNewGameCode(fd, uid) \o SendStartTTT(ttt.client_x, fd)
  <2>1. game.client_x = ttt.client_x /\ game.client_o = fd
        /\ game.client_x_uid = ttt.client_x_uid /\ game.client_o_uid = uid
    BY DEF NewTTTGame
  <2>2. InsertNewTTTGame(games, game) = more
    BY <2>1 DEF InsertNewTTTGame, TTTNode
  <2>3. done = Lobbied(left, msgs)
    BY <1>5, <2>1, <2>2 DEF JoinTTT, Lobby
  <2>4. more \in Seq(Nodes) /\ Len(more) >= 1 /\ more[1] = games[1]
    <3> HIDE DEF node
    <3> QED BY <1>3
  <2>5. emptied \in TTTRecords
    <3>1. \A x, o \in Nat, xu, ou \in Int :
            [ttt EXCEPT !.client_x_uid = xu, !.client_o_uid = ou,
                        !.client_x = x, !.client_o = o] \in TTTRecords
      BY <1>1 DEF TTTRecords
    <3>2. 0 \in Nat /\ 2 \in Int
      OBVIOUS
    <3> QED BY <3>1, <3>2
  <2> HIDE DEF more, node
  <2>6. left = [more EXCEPT ![1] = [more[1] EXCEPT !.TTTGame = emptied, !.RPSGame = rps]]
    BY <1>1, <2>4 DEF ResetTTTLobby, Nodes, TTTRecords
  <2> HIDE DEF left, emptied, msgs
  <2>7. NewHead(more, left, emptied, rps)
    BY <1>1, <2>4, <2>5, <2>6, HeadReplaced
  <2>8. NewGame(games, left, node, emptied, rps)
    BY <1>3, <2>7, GameAppended DEF more
  <2>9. done.games = left /\ done.out = msgs
    BY <2>3 DEF Lobbied
  <2> QED BY <1>5, <2>8, <2>9 DEF emptied, msgs, node, JoinedTTT
<1>6. ttt.client_x = 0 \/ ttt.client_x > 0
  BY <1>2
<1> QED BY <1>4, <1>5, <1>6

\* What asking for a game of rock-paper-scissors does, likewise; the two may be one.
JoinedRPS(games, rps, fd, uid, done) ==
  \/ /\ rps.fd_client_player_one = 0
     /\ NewHead(games, done.games, games[1].TTTGame,
                [rps EXCEPT !.fd_client_player_one = fd,
                            !.unique_game_id_player_one = uid])
     /\ done.out = SendNewGameCode(fd, uid)
  \/ /\ rps.fd_client_player_one > 0
     /\ NewGame(games, done.games, RPSNode(rps, fd, uid), games[1].TTTGame,
                [rps EXCEPT !.unique_game_id_player_one = 0,
                            !.unique_game_id_player_two = 0,
                            !.fd_client_player_one = 0, !.fd_client_player_two = 0])
     /\ done.out = SendNewGameCode(fd, uid) \o SendStartRPS(rps.fd_client_player_one, fd)

\* That is what JoinRPS does.
LEMMA JoinRPSResult ==
  ASSUME NEW games \in Seq(Nodes), Len(games) >= 1, NEW fd \in Nat, NEW uid \in Int,
         NEW rps, rps = games[1].RPSGame, NEW done, done = JoinRPS(games, fd, uid)
  PROVE  JoinedRPS(games, rps, fd, uid, done)
<1> DEFINE ttt == games[1].TTTGame
           game == NewRPSGame(rps.fd_client_player_one, rps.unique_game_id_player_one, fd, uid)
           node == RPSNode(rps, fd, uid)
<1>1. games[1] \in Nodes /\ ttt \in TTTRecords /\ rps \in RPSRecords
  <2>1. games[1] \in Nodes
    <3>1. 1 \in 1..Len(games)
      OBVIOUS
    <3> QED BY <3>1, ElementOfSeq
  <2> QED BY <2>1 DEF Nodes
<1>2. rps.fd_client_player_one \in Nat /\ rps.unique_game_id_player_one \in Int
  BY <1>1 DEF RPSRecords
<1>3. node \in Nodes
  <2>1. game \in RPSRecords
    BY <1>2, NewGames
  <2>2. EmptyTTTLobby \in TTTRecords
    <3>1. 0 \in Nat /\ 2 \in Int
      OBVIOUS
    <3> QED BY <3>1, NewGames DEF EmptyTTTLobby
  <2> HIDE DEF game
  <2>3. node = Node(RPS_GAME, rps.unique_game_id_player_one, uid, EmptyTTTLobby, game)
    BY DEF RPSNode, game
  <2> QED BY <1>2, <2>1, <2>2, <2>3 DEF Node, Nodes
<1>4. CASE rps.fd_client_player_one = 0
  <2> DEFINE waits == [rps EXCEPT !.fd_client_player_one = fd, !.unique_game_id_player_one = uid]
             left == [games EXCEPT ![1].RPSGame.fd_client_player_one = fd,
                                   ![1].RPSGame.unique_game_id_player_one = uid]
  <2>1. done = Lobbied(left, SendNewGameCode(fd, uid))
    BY <1>4 DEF JoinRPS, Lobby
  <2>2. waits \in RPSRecords
    BY <1>1 DEF RPSRecords
  <2>3. left = [games EXCEPT ![1] = [games[1] EXCEPT !.TTTGame = ttt, !.RPSGame = waits]]
    BY <1>1 DEF Nodes, RPSRecords
  <2> HIDE DEF left, waits
  <2>4. NewHead(games, left, ttt, waits)
    BY <1>1, <2>2, <2>3, HeadReplaced
  <2>5. done.games = left /\ done.out = SendNewGameCode(fd, uid)
    BY <2>1 DEF Lobbied
  <2> QED BY <1>4, <2>4, <2>5 DEF waits, JoinedRPS
<1>5. CASE rps.fd_client_player_one > 0
  <2> DEFINE more == Append(games, node)
             left == ResetRPSLobby(more)
             emptied == [rps EXCEPT !.unique_game_id_player_one = 0,
                                    !.unique_game_id_player_two = 0,
                                    !.fd_client_player_one = 0, !.fd_client_player_two = 0]
             msgs == SendNewGameCode(fd, uid) \o SendStartRPS(rps.fd_client_player_one, fd)
  <2>1. /\ game.fd_client_player_one = rps.fd_client_player_one
        /\ game.fd_client_player_two = fd
        /\ game.unique_game_id_player_one = rps.unique_game_id_player_one
        /\ game.unique_game_id_player_two = uid
    BY DEF NewRPSGame
  <2>2. InsertNewRPSGame(games, game) = more
    BY <2>1 DEF InsertNewRPSGame, RPSNode
  <2>3. done = Lobbied(left, msgs)
    BY <1>5, <2>1, <2>2 DEF JoinRPS, Lobby
  <2>4. more \in Seq(Nodes) /\ Len(more) >= 1 /\ more[1] = games[1]
    <3> HIDE DEF node
    <3> QED BY <1>3
  <2>5. emptied \in RPSRecords
    <3>1. \A one, two \in Nat, u1, u2 \in Int :
            [rps EXCEPT !.unique_game_id_player_one = u1, !.unique_game_id_player_two = u2,
                        !.fd_client_player_one = one, !.fd_client_player_two = two] \in RPSRecords
      BY <1>1 DEF RPSRecords
    <3>2. 0 \in Nat /\ 0 \in Int
      OBVIOUS
    <3> QED BY <3>1, <3>2
  <2> HIDE DEF more, node
  <2>6. left = [more EXCEPT ![1] = [more[1] EXCEPT !.TTTGame = ttt, !.RPSGame = emptied]]
    BY <1>1, <2>4 DEF ResetRPSLobby, Nodes, RPSRecords
  <2> HIDE DEF left, emptied, msgs
  <2>7. NewHead(more, left, ttt, emptied)
    BY <1>1, <2>4, <2>5, <2>6, HeadReplaced
  <2>8. NewGame(games, left, node, ttt, emptied)
    BY <1>3, <2>7, GameAppended DEF more
  <2>9. done.games = left /\ done.out = msgs
    BY <2>3 DEF Lobbied
  <2> QED BY <1>5, <2>8, <2>9 DEF emptied, msgs, node, JoinedRPS
<1>6. rps.fd_client_player_one = 0 \/ rps.fd_client_player_one > 0
  BY <1>2
<1> QED BY <1>4, <1>5, <1>6

-----------------------------------------------------------------------------
(* A turn of rock-paper-scissors.                                          *)

\* The same two players, under the same ids, and the same client who has sent the same.
SamePlayers(e, f) ==
  /\ f.fd_client_player_one = e.fd_client_player_one
  /\ f.fd_client_player_two = e.fd_client_player_two
  /\ f.unique_game_id_player_one = e.unique_game_id_player_one
  /\ f.unique_game_id_player_two = e.unique_game_id_player_two
  /\ f.fd_current_client = e.fd_current_client
  /\ f.move_received = e.move_received

\* Whoever can be told something by a turn.
Concerns(e) == {e.fd_current_client, e.fd_client_player_one, e.fd_client_player_two}

\* What a turn or one of its handlers leaves: no play but the current client's own is
\* recorded, and only those concerned are told something.
TurnOf(e, f, msgs) ==
  /\ f \in RPSRecords
  /\ SamePlayers(e, f)
  /\ f.client_one_play # e.client_one_play =>
       e.fd_current_client = e.fd_client_player_one /\ f.client_one_play \in 1..3
  /\ f.client_two_play # e.client_two_play =>
       e.fd_current_client = e.fd_client_player_two /\ f.client_two_play \in 1..3
  /\ msgs \in Seq(Messages)
  /\ SentTo(msgs, Concerns(e))

\* A message with any code and argument to somebody concerned.
LEMMA ConcernedTold ==
  ASSUME NEW e \in RPSRecords, NEW fd \in Concerns(e), NEW code \in Codes, NEW arg \in Int
  PROVE  << Msg(fd, code, arg) >> \in Seq(Messages) /\ SentTo(<< Msg(fd, code, arg) >>, Concerns(e))
<1>1. fd \in Int
  BY DEF Concerns, RPSRecords
<1>2. Msg(fd, code, arg) \in Messages /\ Msg(fd, code, arg).to = fd
  BY <1>1 DEF Msg, Messages
<1>3. \A i \in 1..Len(<< Msg(fd, code, arg) >>) : << Msg(fd, code, arg) >>[i].to = fd
  BY <1>2
<1> QED BY <1>2, <1>3 DEF SentTo

\* An acceptance and the results of both players.
LEMMA ResultsConcern ==
  ASSUME NEW e \in RPSRecords, NEW c1 \in Codes, NEW c2 \in Codes, NEW a1 \in Int, NEW a2 \in Int,
         NEW all, all = SendAcceptPlay(e) \o << Msg(e.fd_client_player_one, c1, a1),
                                               Msg(e.fd_client_player_two, c2, a2) >>
  PROVE  all \in Seq(Messages) /\ SentTo(all, Concerns(e))
<1> DEFINE m1 == Msg(e.fd_current_client, "ACCEPTED", 0)
           m2 == Msg(e.fd_client_player_one, c1, a1)
           m3 == Msg(e.fd_client_player_two, c2, a2)
<1>1. /\ m1 \in Messages /\ m2 \in Messages /\ m3 \in Messages
      /\ m1.to \in Concerns(e) /\ m2.to \in Concerns(e) /\ m3.to \in Concerns(e)
  BY DEF Msg, Messages, Codes, Concerns, RPSRecords
<1> DEFINE three == << m1 >> \o << m2, m3 >>
<1>2. all = three
  BY DEF SendAcceptPlay
<1> HIDE DEF m1, m2, m3
<1>3. /\ three \in Seq(Messages) /\ Len(three) = 3
      /\ three[1] = m1 /\ three[2] = m2 /\ three[3] = m3
  BY ONLY <1>1, ThreeMessages
<1> HIDE DEF three
<1>4. \A i \in 1..Len(three) : three[i] \in {m1, m2, m3}
  BY ONLY <1>3
<1>5. three \in Seq(Messages) /\ SentTo(three, Concerns(e))
  BY ONLY <1>1, <1>3, <1>4 DEF SentTo
<1> QED BY <1>2, <1>5

\* What check_RPS_game_over leaves.
LEMMA GameOverLeaves ==
  ASSUME NEW e \in RPSRecords, NEW r, r = CheckRPSGameOver(e)
  PROVE  TurnOf(e, r.env, r.out) /\ r.ret \in {RPS_GAMEOVER, RPS_TURNOVER}
<1>1. /\ e.fd_client_player_one \in Nat /\ e.fd_client_player_two \in Nat
      /\ e.client_one_play \in Int /\ e.client_two_play \in Int /\ e.move_received \in Int
  BY DEF RPSRecords
<1>2. {"WIN", "LOSS", "TIE"} \subseteq Codes
  BY DEF Codes
<1>3. SendRPSTie(e) \in Seq(Messages) /\ SentTo(SendRPSTie(e), Concerns(e))
  BY <1>1, <1>2, ResultsConcern DEF SendRPSTie
<1>4. ASSUME NEW winner \in Nat, NEW f, f = [e EXCEPT !.winner = winner]
      PROVE  TurnOf(e, f, SendRPSWinLoss(f))
  <2>1. /\ f \in RPSRecords /\ SamePlayers(e, f)
        /\ f.client_one_play = e.client_one_play /\ f.client_two_play = e.client_two_play
    BY <1>4 DEF RPSRecords, SamePlayers
  <2>2. Concerns(f) = Concerns(e)
    BY <2>1 DEF Concerns, SamePlayers
  <2>3. \/ SendRPSWinLoss(f) = << >>
        \/ \E c1 \in Codes, c2 \in Codes, a1 \in Int, a2 \in Int :
             SendRPSWinLoss(f) = SendAcceptPlay(f) \o << Msg(f.fd_client_player_one, c1, a1),
                                                         Msg(f.fd_client_player_two, c2, a2) >>
    BY <1>1, <1>2, <2>1 DEF SendRPSWinLoss
  <2>4. SendRPSWinLoss(f) \in Seq(Messages) /\ SentTo(SendRPSWinLoss(f), Concerns(f))
    BY <2>1, <2>3, ResultsConcern, NobodyTold
  <2> QED BY <2>1, <2>2, <2>4 DEF TurnOf
<1>5. SamePlayers(e, e)
  BY DEF SamePlayers
<1>6. \/ r = Result(e, << >>, RPS_TURNOVER)
      \/ r = Result(e, << >>, RPS_GAMEOVER)
      \/ r = Result(e, SendRPSTie(e), RPS_GAMEOVER)
      \/ \E winner \in {e.fd_client_player_one, e.fd_client_player_two} :
           r = Result([e EXCEPT !.winner = winner],
                      SendRPSWinLoss([e EXCEPT !.winner = winner]), RPS_GAMEOVER)
  BY DEF CheckRPSGameOver
<1>7. CASE r = Result(e, << >>, RPS_TURNOVER) \/ r = Result(e, << >>, RPS_GAMEOVER)
  <2>1. r.env = e /\ r.out = << >> /\ r.ret \in {RPS_GAMEOVER, RPS_TURNOVER}
    BY <1>7, ResultFields
  <2> QED BY <1>5, <2>1, NobodyTold DEF TurnOf
<1>8. CASE r = Result(e, SendRPSTie(e), RPS_GAMEOVER)
  <2>1. r.env = e /\ r.out = SendRPSTie(e) /\ r.ret = RPS_GAMEOVER
    BY <1>8, ResultFields
  <2> QED BY <1>3, <1>5, <2>1 DEF TurnOf
<1>9. ASSUME NEW winner \in {e.fd_client_player_one, e.fd_client_player_two},
             r = Result([e EXCEPT !.winner = winner],
                        SendRPSWinLoss([e EXCEPT !.winner = winner]), RPS_GAMEOVER)
      PROVE  TurnOf(e, r.env, r.out) /\ r.ret \in {RPS_GAMEOVER, RPS_TURNOVER}
  <2> DEFINE f == [e EXCEPT !.winner = winner]
  <2>1. TurnOf(e, f, SendRPSWinLoss(f))
    BY <1>1, <1>4
  <2> HIDE DEF f
  <2>2. r = Result(f, SendRPSWinLoss(f), RPS_GAMEOVER)
    BY <1>9 DEF f
  <2> QED BY <2>1, <2>2, ResultFields
<1> QED BY <1>6, <1>7, <1>8, <1>9

\* What validate_RPS_input leaves; the id it returns is one of the table's when the
\* play is legal.
LEMMA ValidateLeaves ==
  ASSUME NEW e \in RPSRecords, NEW first \in ValidateRPSInput(e)
  PROVE  /\ TurnOf(e, first.env, first.out)
         /\ first.ret \in UndefinedReturn
         /\ IsValidPlay(e) => first.ret \in {RPS_WAIT, RPS_GAMEOVER, RPS_TURNOVER}
<1>0. /\ SamePlayers(e, e) /\ {RPS_WAIT, RPS_GAMEOVER, RPS_TURNOVER} \subseteq UndefinedReturn
  BY DEF SamePlayers, UndefinedReturn, RPS_WAIT, RPS_GAMEOVER, RPS_TURNOVER, FSM_IGNORE, RPS_ERROR
<1>1. TurnOf(e, e, << >>)
  BY <1>0, NobodyTold DEF TurnOf
<1>2. CASE ~IsValidPlay(e)
  <2>1. PICK ret \in UndefinedReturn : first = Result(e, << >>, ret)
    BY <1>2 DEF ValidateRPSInput
  <2> QED BY <1>1, <1>2, <2>1, ResultFields
<1>3. CASE IsValidPlay(e) /\ HasGone(e)
  <2>1. first = Result(e, << >>, RPS_WAIT)
    BY <1>3 DEF ValidateRPSInput
  <2> QED BY <1>0, <1>1, <2>1, ResultFields
<1>4. CASE IsValidPlay(e) /\ ~HasGone(e)
  <2> DEFINE f == RecordPlay(e)
  <2>1. first = CheckRPSGameOver(f)
    BY <1>4 DEF ValidateRPSInput
  <2>2. /\ f \in RPSRecords /\ SamePlayers(e, f)
        /\ f.client_one_play # e.client_one_play =>
             e.fd_current_client = e.fd_client_player_one /\ f.client_one_play \in 1..3
        /\ f.client_two_play # e.client_two_play =>
             e.fd_current_client = e.fd_client_player_two /\ f.client_two_play \in 1..3
    <3>1. e.move_received \in 1..3
      BY <1>4 DEF IsValidPlay, ROCK, PAPER, SCISSORS
    <3> QED BY <3>1 DEF RecordPlay, RPSRecords, SamePlayers
  <2> HIDE DEF f
  <2>3. TurnOf(f, first.env, first.out) /\ first.ret \in {RPS_GAMEOVER, RPS_TURNOVER}
    BY <2>1, <2>2, GameOverLeaves
  <2>4. TurnOf(e, first.env, first.out)
    BY <2>2, <2>3 DEF TurnOf, SamePlayers, Concerns
  <2> QED BY <1>0, <2>3, <2>4
<1> QED BY <1>2, <1>3, <1>4

\* What the second state of a turn leaves.
LEMMA HandlerLeaves ==
  ASSUME NEW e \in RPSRecords, NEW handler \in RPSHandlers, NEW then \in RPSPerform(handler, e)
  PROVE  TurnOf(e, then.env, then.out)
<1>0. SamePlayers(e, e) /\ "ACCEPTED" \in Codes /\ "INVALID_ACTION" \in Codes /\ 0 \in Int
      /\ e.fd_current_client \in Concerns(e)
  BY DEF SamePlayers, Codes, Concerns
<1>1. ASSUME NEW msgs, msgs \in {<< >>, SendAcceptPlay(e), SendDeclinePlay(e)}
      PROVE  TurnOf(e, e, msgs)
  <2>1. msgs \in Seq(Messages) /\ SentTo(msgs, Concerns(e))
    BY <1>0, <1>1, ConcernedTold, NobodyTold DEF SendAcceptPlay, SendDeclinePlay
  <2> QED BY <1>0, <2>1 DEF TurnOf
<1>2. CASE handler = "validate_RPS_input"
  BY <1>2, ValidateLeaves DEF RPSPerform
<1>3. ASSUME handler # "validate_RPS_input"
      PROVE  \E msgs \in {<< >>, SendAcceptPlay(e), SendDeclinePlay(e)}, ret \in Int :
               then = Result(e, msgs, ret)
  <2>1. \A ret \in UndefinedReturn : ret \in Int
    BY DEF UndefinedReturn, FSM_IGNORE, RPS_ERROR
  <2>2. FSM_EXIT \in Int
    BY DEF FSM_EXIT
  <2>3. handler \in {"invalid_RPS_move", "accepted_RPS_move", "game_RPS_over"}
    BY <1>3 DEF RPSHandlers
  <2>4. CASE handler = "invalid_RPS_move"
    <3>1. then \in InvalidRPSMove(e)
      BY <2>4 DEF RPSPerform
    <3> QED BY <2>1, <3>1 DEF InvalidRPSMove
  <2>5. CASE handler = "accepted_RPS_move"
    <3>1. then \in AcceptedRPSMove(e)
      BY <2>5 DEF RPSPerform
    <3> QED BY <2>2, <3>1 DEF AcceptedRPSMove
  <2>6. CASE handler = "game_RPS_over"
    <3>1. then \in GameRPSOver(e)
      BY <2>6 DEF RPSPerform
    <3> QED BY <2>2, <3>1 DEF GameRPSOver
  <2> QED BY <2>3, <2>4, <2>5, <2>6
<1>4. CASE handler # "validate_RPS_input"
  <2>1. PICK msgs \in {<< >>, SendAcceptPlay(e), SendDeclinePlay(e)} :
          then.env = e /\ then.out = msgs
    BY <1>3, <1>4, ResultFields
  <2> QED BY <1>1, <2>1
<1> QED BY <1>2, <1>4

\* A turn of rock-paper-scissors, in a game or in the lobby.  Only an illegal play can
\* end the process.
LEMMA MainzeesTurn ==
  ASSUME NEW e \in RPSRecords, NEW turn \in Mainzees(e)
  PROVE  /\ TurnOf(e, turn.env, turn.out)
         /\ turn.ending = "crashed" => ~IsValidPlay(e)
<1>1. PICK first \in ValidateRPSInput(e) :
        LET handler == FsmTransition(RPSTable, RPS_VALIDATE, first.ret)
        IN  turn \in IF first.ret = FSM_EXIT THEN {Outcome(first.env, first.out, "select")}
                     ELSE IF handler \in RPSHandlers
                       THEN {Outcome(then.env, first.out \o then.out, "select") :
                               then \in RPSPerform(handler, first.env)}
                     ELSE {Outcome(first.env, first.out, ending) : ending \in OffTableOutcomes}
  BY DEF Mainzees
<1> DEFINE handler == FsmTransition(RPSTable, RPS_VALIDATE, first.ret)
<1>2. /\ TurnOf(e, first.env, first.out)
      /\ IsValidPlay(e) => first.ret \in {RPS_WAIT, RPS_GAMEOVER, RPS_TURNOVER}
  BY ValidateLeaves
<1>3. CASE first.ret = FSM_EXIT
  <2>1. turn = Outcome(first.env, first.out, "select")
    BY <1>1, <1>3
  <2>2. turn.env = first.env /\ turn.out = first.out /\ turn.ending = "select"
    BY <2>1 DEF Outcome
  <2> QED BY <1>2, <2>2
<1>4. CASE first.ret # FSM_EXIT /\ handler \in RPSHandlers
  <2>1. PICK then \in RPSPerform(handler, first.env) :
          turn = Outcome(then.env, first.out \o then.out, "select")
    BY <1>1, <1>4
  <2> DEFINE said == first.out \o then.out
  <2>2. turn.env = then.env /\ turn.out = said /\ turn.ending = "select"
    <3>1. turn = Outcome(then.env, said, "select")
      BY <2>1
    <3> HIDE DEF said
    <3> QED BY <3>1 DEF Outcome
  <2>3. first.env \in RPSRecords
    BY <1>2 DEF TurnOf
  <2> HIDE DEF handler
  <2>4. TurnOf(first.env, then.env, then.out)
    BY <1>4, <2>1, <2>3, HandlerLeaves
  <2>5. SentTo(then.out, Concerns(e))
    BY <1>2, <2>4 DEF TurnOf, SamePlayers, Concerns
  <2>6. said \in Seq(Messages) /\ SentTo(said, Concerns(e))
    <3>1. first.out \in Seq(Messages) /\ SentTo(first.out, Concerns(e)) /\ then.out \in Seq(Messages)
      BY <1>2, <2>4 DEF TurnOf
    <3> QED BY <2>5, <3>1, BothTold
  <2> HIDE DEF said
  <2>7. TurnOf(e, then.env, said)
    BY <1>2, <2>4, <2>6 DEF TurnOf, SamePlayers
  <2> QED BY <2>2, <2>7
<1>5. CASE first.ret # FSM_EXIT /\ handler \notin RPSHandlers
  <2>1. PICK ending \in OffTableOutcomes : turn = Outcome(first.env, first.out, ending)
    BY <1>1, <1>5
  <2>2. turn.env = first.env /\ turn.out = first.out
    BY <2>1 DEF Outcome
  <2>3. ~IsValidPlay(e)
    <3>1. first.ret # RPS_WAIT
      BY <1>5 DEF RPS_WAIT
    <3>2. first.ret # RPS_GAMEOVER /\ first.ret # RPS_TURNOVER
      BY <1>5, RPSRowsFound DEF RPSHandlers
    <3> QED BY <1>2, <3>1, <3>2
  <2> QED BY <1>2, <2>2, <2>3
<1> QED BY <1>3, <1>4, <1>5

-----------------------------------------------------------------------------
(* The list fits throughout.                                               *)

\* The standard streams and the listening socket are below all of these.
LEMMA FdsAreNats == \A fd \in Fds : fd \in Nat /\ fd > 3
BY FdsAssumption

\* Every node of a list is one.
LEMMA NodeTypes ==
  ASSUME NEW games \in Seq(Nodes), NEW i \in 1..Len(games)
  PROVE  /\ games[i] \in Nodes
         /\ games[i].TTTGame \in TTTRecords /\ games[i].RPSGame \in RPSRecords
<1>1. games[i] \in Nodes
  BY ElementOfSeq
<1> QED BY <1>1 DEF Nodes

\* More ids issued, and as many games as before.
LEMMA LaterFits ==
  ASSUME NEW games, NEW latest \in Int, NEW later \in Int, latest <= later,
         ListFits(games, latest)
  PROVE  ListFits(games, later)
<1>1. \A uid : uid \in 3..latest => uid \in 3..later
  OBVIOUS
<1>2. HeadFits(games[1], later)
  BY <1>1 DEF ListFits, HeadFits, Waits
<1>3. ASSUME NEW i \in 2..Len(games) PROVE GameFits(games[i], later)
  <2>1. GameFits(games[i], latest)
    BY DEF ListFits
  <2>2. games[i].uid_client_two \in games[i].uid_client_one..later
    BY <2>1 DEF GameFits
  <2> QED BY <1>1, <2>1, <2>2 DEF GameFits
<1> QED BY <1>2, <1>3 DEF ListFits

\* The lobbies change, to ones in which clients wait.
LEMMA HeadChangeFits ==
  ASSUME NEW games, NEW latest \in Int, ListFits(games, latest), NEW left,
         NEW ttt \in TTTRecords, NEW rps \in RPSRecords, NewHead(games, left, ttt, rps),
         Waits(ttt.client_x, ttt.client_x_uid, latest),
         Waits(rps.fd_client_player_one, rps.unique_game_id_player_one, latest)
  PROVE  ListFits(left, latest)
<1>1. games[1] \in Nodes
  <2>1. games \in Seq(Nodes) /\ 1 \in 1..Len(games)
    BY DEF ListFits
  <2> QED BY <2>1, NodeTypes
<1>2. /\ left[1].game_type = games[1].game_type
      /\ left[1].uid_client_one = games[1].uid_client_one
      /\ left[1].uid_client_two = games[1].uid_client_two
      /\ left[1].TTTGame = ttt /\ left[1].RPSGame = rps
  BY <1>1 DEF NewHead, Nodes
<1>3. HeadFits(left[1], latest)
  BY <1>2 DEF ListFits, HeadFits
<1>4. \A i \in 2..Len(left) : GameFits(left[i], latest)
  BY DEF NewHead, ListFits
<1> QED BY <1>3, <1>4 DEF NewHead, ListFits

\* A game is added, and the lobby is left to the next.
LEMMA NewGameFits ==
  ASSUME NEW games, NEW latest \in Int, ListFits(games, latest), NEW left, NEW node,
         NEW ttt \in TTTRecords, NEW rps \in RPSRecords, NewGame(games, left, node, ttt, rps),
         Len(left) - 1 <= MaxGames, GameFits(node, latest),
         Waits(ttt.client_x, ttt.client_x_uid, latest),
         Waits(rps.fd_client_player_one, rps.unique_game_id_player_one, latest)
  PROVE  ListFits(left, latest)
<1>0. games \in Seq(Nodes) /\ 1 \in 1..Len(games) /\ Len(games) \in Nat
  BY DEF ListFits
<1>1. games[1] \in Nodes
  BY <1>0, NodeTypes
<1>2. /\ left[1].game_type = games[1].game_type
      /\ left[1].uid_client_one = games[1].uid_client_one
      /\ left[1].uid_client_two = games[1].uid_client_two
      /\ left[1].TTTGame = ttt /\ left[1].RPSGame = rps
  BY <1>1 DEF NewGame, Nodes
<1>3. HeadFits(left[1], latest)
  BY <1>2 DEF ListFits, HeadFits
<1>4. ASSUME NEW i \in 2..Len(left) PROVE GameFits(left[i], latest)
  <2>1. i \in 2..Len(games) \/ i = Len(games) + 1
    BY <1>0 DEF NewGame
  <2> QED BY <2>1 DEF NewGame, ListFits
<1>5. Len(left) \in 1..(MaxGames + 1)
  BY <1>0, BoundsAssumption DEF NewGame
<1> QED BY <1>3, <1>4, <1>5 DEF NewGame, ListFits

\* One node changes.
NewNode(games, left, i, node) ==
  /\ left \in Seq(Nodes)
  /\ Len(left) = Len(games)
  /\ \A j \in 1..Len(games) : left[j] = IF j = i THEN node ELSE games[j]

\* A node's environment of tic-tac-toe is replaced, or the one of rock-paper-scissors.
LEMMA NodeReplaced ==
  ASSUME NEW games \in Seq(Nodes), NEW i \in 1..Len(games)
  PROVE  /\ \A ttt \in TTTRecords :
              NewNode(games, [games EXCEPT ![i].TTTGame = ttt], i,
                      [games[i] EXCEPT !.TTTGame = ttt])
         /\ \A rps \in RPSRecords :
              NewNode(games, [games EXCEPT ![i].RPSGame = rps], i,
                      [games[i] EXCEPT !.RPSGame = rps])
<1>1. games[i] \in Nodes
  BY NodeTypes
<1>2. ASSUME NEW node \in Nodes, NEW left, left = [games EXCEPT ![i] = node]
      PROVE  NewNode(games, left, i, node)
  BY <1>2, ExceptSeq DEF NewNode
<1>3. ASSUME NEW ttt \in TTTRecords
      PROVE  NewNode(games, [games EXCEPT ![i].TTTGame = ttt], i,
                     [games[i] EXCEPT !.TTTGame = ttt])
  <2> DEFINE node == [games[i] EXCEPT !.TTTGame = ttt]
             left == [games EXCEPT ![i].TTTGame = ttt]
  <2>1. node \in Nodes /\ left = [games EXCEPT ![i] = node]
    BY <1>1 DEF Nodes
  <2> HIDE DEF node, left
  <2>2. NewNode(games, left, i, node)
    BY <1>2, <2>1
  <2> QED BY <2>2 DEF node, left
<1>4. ASSUME NEW rps \in RPSRecords
      PROVE  NewNode(games, [games EXCEPT ![i].RPSGame = rps], i,
                     [games[i] EXCEPT !.RPSGame = rps])
  <2> DEFINE node == [games[i] EXCEPT !.RPSGame = rps]
             left == [games EXCEPT ![i].RPSGame = rps]
  <2>1. node \in Nodes /\ left = [games EXCEPT ![i] = node]
    BY <1>1 DEF Nodes
  <2> HIDE DEF node, left
  <2>2. NewNode(games, left, i, node)
    BY <1>2, <2>1
  <2> QED BY <2>2 DEF node, left
<1> QED BY <1>3, <1>4

\* A node changes to one that fits its place.
LEMMA NewNodeFits ==
  ASSUME NEW games, NEW latest \in Int, ListFits(games, latest), NEW i \in 1..Len(games),
         NEW node, NEW left, NewNode(games, left, i, node),
         IF i = 1 THEN HeadFits(node, latest) ELSE GameFits(node, latest)
  PROVE  ListFits(left, latest)
<1>0. games \in Seq(Nodes) /\ 1 \in 1..Len(games) /\ Len(games) \in Nat
  BY DEF ListFits
<1>1. HeadFits(left[1], latest)
  BY <1>0 DEF ListFits, NewNode
<1>2. ASSUME NEW j \in 2..Len(left) PROVE GameFits(left[j], latest)
  <2>1. j \in 1..Len(games) /\ j # 1 /\ j \in 2..Len(games)
    BY <1>0 DEF NewNode
  <2> QED BY <2>1 DEF ListFits, NewNode
<1> QED BY <1>1, <1>2 DEF ListFits, NewNode

-----------------------------------------------------------------------------
(* Every step keeps the invariant.                                         *)

\* Sending leaves the same connections, some of them known to be dead.
LEMMA SendsTypes ==
  ASSUME peer \in [Fds -> SocketStates], status \in {"running", "dead"},
         NEW msgs \in Seq(Messages), out' = msgs, peer' = AfterSending(peer, msgs),
         status' \in {"running", "dead"}
  PROVE  /\ peer' \in [Fds -> SocketStates]
         /\ \A fd \in Fds : peer'[fd] = "none" <=> peer[fd] = "none"
         /\ out' \in Seq(Messages)
         /\ status' \in {"running", "dead"}
<1>1. DOMAIN peer = Fds
  OBVIOUS
<1>2. peer' = [fd \in Fds |-> IF peer[fd] = "closed" /\ MessagesTo(fd, msgs) # {}
                              THEN "dead" ELSE peer[fd]]
  BY <1>1 DEF AfterSending
<1>3. "dead" \in SocketStates
  BY DEF SocketStates, PeerStates
<1> QED BY <1>2, <1>3

\* A request in which every field is written over.
LEMMA RequestWritten ==
  ASSUME NEW Uids, NEW Bytes,
         NEW d \in [uid : Uids, payload_length : Bytes,
                    payload_first_byte : Bytes, payload_second_byte : Bytes],
         NEW u \in Uids, NEW l \in Bytes, NEW a \in Bytes, NEW b \in Bytes
  PROVE  [d EXCEPT !.uid = u, !.payload_length = l,
            !.payload_first_byte = a, !.payload_second_byte = b]
           \in [uid : Uids, payload_length : Bytes,
               payload_first_byte : Bytes, payload_second_byte : Bytes]
OBVIOUS

\* What reading a request leaves.
LEMMA ReceivesTypes ==
  ASSUME IInv, NEW fd \in Fds, NEW request \in Requests, Receives(fd, request)
  PROVE  /\ received_data' \in Requested /\ received_data'.uid \in 0..255
         /\ cfd' = fd /\ cfd' \in Fds \cup {0, -1}
         /\ status = "running"
         /\ peer[fd] # "none"
<1>1. request \in [id : [1..4 -> 0..255], payload_length : -128..127,
                   first : -128..127, second : -128..127]
  BY RequestsAssumption
<1>2. /\ request.id[1] \in 0..255 /\ request.payload_length \in -128..127
      /\ request.first \in -128..127 /\ request.second \in -128..127
  BY <1>1
<1>3. request.id[1] \in -128..255 /\ 0 \in -128..127
  BY <1>2
<1>4. received_data \in Requested /\ received_data' = ReadData(received_data, request)
  BY DEF IInv, Receives
<1>5. received_data' \in Requested
  <2> DEFINE first == IF request.payload_length \in {1, 2} THEN request.first
                      ELSE received_data.payload_first_byte
             second == CASE request.payload_length = 1 -> 0
                         [] request.payload_length = 2 -> request.second
                         [] OTHER -> received_data.payload_second_byte
  <2>1. first \in -128..127 /\ second \in -128..127
    BY <1>2, <1>3, <1>4 DEF Requested
  <2>2. received_data' = [received_data EXCEPT !.uid = request.id[1],
                            !.payload_length = request.payload_length,
                            !.payload_first_byte = first, !.payload_second_byte = second]
    BY <1>4 DEF ReadData, ReadUid, Requested
  <2> HIDE DEF first, second
  <2>3. request.id[1] \in -128..255
    BY <1>3
  <2> DEFINE Uids == -128..255
             Bytes == -128..127
  <2>4. /\ received_data \in [uid : Uids, payload_length : Bytes,
                             payload_first_byte : Bytes, payload_second_byte : Bytes]
        /\ request.id[1] \in Uids /\ request.payload_length \in Bytes
        /\ first \in Bytes /\ second \in Bytes
    BY <1>2, <1>4, <2>1, <2>3 DEF Requested
  <2> HIDE DEF Uids, Bytes
  <2>5. received_data' \in [uid : Uids, payload_length : Bytes,
                            payload_first_byte : Bytes, payload_second_byte : Bytes]
    BY ONLY <2>2, <2>4, RequestWritten
  <2> QED BY <2>5 DEF Uids, Bytes, Requested
<1>6. received_data'.uid \in 0..255
  <2>1. received_data'.uid = request.id[1]
    BY <1>4 DEF ReadData, ReadUid, Requested
  <2> QED BY <1>2, <2>1
<1> QED BY <1>5, <1>6 DEF IInv, Receives

\* A request keeps the invariant if it leaves a list that fits and has sent messages.
LEMMA RequestKeepsInv ==
  ASSUME IInv, NEW fd \in Fds, NEW request \in Requests, Receives(fd, request),
         NEW msgs \in Seq(Messages), out' = msgs, peer' = AfterSending(peer, msgs),
         status' \in {"running", "dead"}, UNCHANGED unique_game_id,
         ListFits(game_lobby', unique_game_id)
  PROVE  IInv'
<1>1. /\ peer \in [Fds -> SocketStates] /\ status \in {"running", "dead"}
  BY DEF IInv
<1>2. /\ peer' \in [Fds -> SocketStates]
      /\ \A g \in Fds : peer'[g] = "none" <=> peer[g] = "none"
      /\ out' \in Seq(Messages)
  BY <1>1, SendsTypes
<1>3. received_data' \in Requested /\ cfd' \in Fds \cup {0, -1}
  BY ReceivesTypes
<1> QED BY <1>2, <1>3 DEF IInv

\* It holds when the server starts.
LEMMA InitInv == Init => IInv
<1> SUFFICES ASSUME Init PROVE IInv
  OBVIOUS
<1>1. \A v \in Unset : v \in -128..127 /\ v \in -128..255 /\ v \in Int
  BY UnsetAssumption
<1>2. received_data \in Requested
  BY <1>1 DEF Init, Requested
<1>3. PICK one \in Unset, two \in Unset, play_one \in Unset, play_two \in Unset :
        game_lobby = InitLobbies(one, two, play_one, play_two)
  BY DEF Init
<1> DEFINE rps == [EmptyRPSLobby EXCEPT !.client_one_play = play_one,
                                        !.client_two_play = play_two]
           head == Node(0, one, two, EmptyTTTLobby, rps)
<1>4. game_lobby = << head >>
  BY <1>3 DEF InitLobbies
<1>5. EmptyTTTLobby \in TTTRecords /\ EmptyRPSLobby \in RPSRecords
  <2>1. 0 \in Nat /\ 2 \in Int /\ 0 \in Int
    OBVIOUS
  <2> QED BY <2>1, NewGames DEF EmptyTTTLobby, EmptyRPSLobby
<1>6. rps \in RPSRecords /\ rps.fd_client_player_one = 0
  <2>1. rps \in RPSRecords
    BY <1>1, <1>5 DEF RPSRecords
  <2>2. rps.fd_client_player_one = EmptyRPSLobby.fd_client_player_one
    BY <1>5 DEF RPSRecords
  <2> QED BY <2>1, <2>2 DEF EmptyRPSLobby, NewRPSGame
<1>7. EmptyTTTLobby.client_x = 0
  BY DEF EmptyTTTLobby, NewTTTGame
<1> HIDE DEF rps
<1>8. /\ head \in Nodes /\ head.game_type = 0
      /\ head.uid_client_one \in Unset /\ head.uid_client_two \in Unset
      /\ head.TTTGame = EmptyTTTLobby /\ head.RPSGame = rps
  BY <1>1, <1>5, <1>6 DEF Node, Nodes
<1>9. HeadFits(head, unique_game_id)
  BY <1>6, <1>7, <1>8 DEF HeadFits, Waits
<1> HIDE DEF head
<1>10. /\ game_lobby \in Seq(Nodes) /\ Len(game_lobby) = 1 /\ game_lobby[1] = head
  BY <1>4, <1>8
<1>11. ListFits(game_lobby, unique_game_id)
  BY <1>9, <1>10, BoundsAssumption DEF ListFits
<1>12. /\ peer \in [Fds -> SocketStates]
       /\ unique_game_id \in 3..(IF MaxGameId > 3 THEN MaxGameId ELSE 3)
       /\ cfd \in Fds \cup {0, -1} /\ out \in Seq(Messages) /\ status \in {"running", "dead"}
  BY BoundsAssumption DEF Init, SocketStates, PeerStates
<1> QED BY <1>2, <1>11, <1>12 DEF IInv

\* What happens when nobody asks for anything: a client is accepted, or cannot be, is hung
\* up on or leaves, or the datagram socket is closed.
Unasked ==
  \/ AcceptFails
  \/ \E fd \in Fds : Accept(fd) \/ Disconnect(fd) \/ EmptyDatagram(fd) \/ ClientLeaves(fd)

\* Every step is one of these, or a request.
LEMMA Steps == Next <=> Unasked \/ \E fd \in Fds, request \in Requests : Request(fd, request)
BY DEF Next, Unasked

\* No game is touched, and nothing is said.
LEMMA UnaskedIsQuiet ==
  ASSUME Unasked
  PROVE  game_lobby' = game_lobby /\ out' = << >> /\ status' = status
BY DEF Unasked, AcceptFails, Accept, Close, Disconnect, EmptyDatagram, ClientLeaves

\* It keeps the invariant.
LEMMA UnaskedKeepsInv ==
  ASSUME IInv, Unasked
  PROVE  IInv'
<1>1. << >> \in Seq(Messages) /\ MaxGameId \in Nat /\ unique_game_id \in Int
  BY BoundsAssumption DEF IInv
<1>2. ASSUME unique_game_id < MaxGameId, unique_game_id' = unique_game_id + 1,
             UNCHANGED game_lobby
      PROVE  /\ unique_game_id' \in 3..(IF MaxGameId > 3 THEN MaxGameId ELSE 3)
             /\ ListFits(game_lobby', unique_game_id')
  <2>1. ListFits(game_lobby', unique_game_id')
    BY <1>1, <1>2, LaterFits DEF IInv
  <2> QED BY <1>1, <1>2, <2>1 DEF IInv
<1>3. CASE AcceptFails
  <2>1. /\ unique_game_id' = unique_game_id + 1 /\ unique_game_id < MaxGameId
        /\ cfd' = -1 /\ out' = << >> /\ UNCHANGED << peer, received_data, game_lobby, status >>
    BY <1>3 DEF AcceptFails
  <2> QED BY <1>1, <1>2, <2>1 DEF IInv
<1>4. ASSUME NEW fd \in Fds, Accept(fd) PROVE IInv'
  <2>1. /\ unique_game_id' = unique_game_id + 1 /\ unique_game_id < MaxGameId
        /\ peer' = [peer EXCEPT ![fd] = "open"]
        /\ cfd' = fd /\ out' = << >> /\ UNCHANGED << received_data, game_lobby, status >>
    BY <1>4 DEF Accept
  <2>2. peer' \in [Fds -> SocketStates]
    BY <2>1 DEF IInv, SocketStates, PeerStates
  <2> QED BY <1>1, <1>2, <2>1, <2>2 DEF IInv
<1>5. ASSUME NEW fd \in Fds, Disconnect(fd) \/ EmptyDatagram(fd) \/ ClientLeaves(fd) PROVE IInv'
  <2>1. /\ peer' \in [Fds -> SocketStates]
        /\ out' = << >> /\ cfd' \in Fds \cup {0, -1}
        /\ UNCHANGED << unique_game_id, received_data, game_lobby, status >>
    BY <1>5 DEF IInv, Disconnect, EmptyDatagram, Close, ClientLeaves, SocketStates, PeerStates
  <2> QED BY <1>1, <2>1 DEF IInv
<1> QED BY <1>3, <1>4, <1>5 DEF Unasked

\* A request is written over in the game it is about; the rest of the game stays.
LEMMA MoveReceived ==
  ASSUME NEW e \in TTTRecords, NEW move \in -128..127, NEW f,
         f = [e EXCEPT !.received_move = move]
  PROVE  /\ f \in TTTRecords
         /\ f.client_x = e.client_x /\ f.client_o = e.client_o
         /\ f.fd_current_player = e.fd_current_player
         /\ f.game_board = e.game_board /\ f.play_count = e.play_count
         /\ f.game_over = e.game_over
         /\ f.received_move = move
         /\ Sound(e) => Sound(f)
         /\ Ordinary(f) <=> Ordinary(e)
<1>1. /\ f \in TTTRecords
      /\ f.client_x = e.client_x /\ f.client_o = e.client_o
      /\ f.fd_current_player = e.fd_current_player
      /\ f.game_board = e.game_board /\ f.play_count = e.play_count
      /\ f.game_over = e.game_over
      /\ f.received_move = move
  BY DEF TTTRecords
<1>2. Ordinary(f) <=> Ordinary(e)
  BY <1>1 DEF Ordinary
<1>3. Sound(e) => Sound(f)
  BY <1>1, <1>2 DEF Sound, Theirs, Counts
<1> QED BY <1>1, <1>2, <1>3

\* The move of a player in turn: a turn of the engine in the game that was named.
LEMMA PlayTTTStep ==
  ASSUME IInv, NEW fd \in Fds, NEW request \in Requests, PlayTTT(fd, request)
  PROVE  \E e, turn, node :
           /\ e \in TTTRecords
           /\ Addressed \in Games(game_lobby) /\ IsTTT(Addressed)
           /\ IsEitherUid(game_lobby[Addressed], received_data'.uid)
           /\ game_lobby[Addressed].TTTGame.fd_current_player = fd /\ cfd' = fd
           /\ e = [game_lobby[Addressed].TTTGame EXCEPT
                     !.received_move = received_data'.payload_first_byte]
           /\ Sound(e)
           /\ turn = Mainaroo(e)
           /\ node = [game_lobby[Addressed] EXCEPT !.TTTGame = turn.env]
           /\ NewNode(game_lobby, game_lobby', Addressed, node)
           /\ GameFits(node, unique_game_id)
           /\ turn.out \in Seq(Messages) /\ Sends(turn.out)
           /\ SentTo(turn.out, PlayersOf(Addressed))
           /\ UNCHANGED unique_game_id
<1> DEFINE i == Addressed
           old == game_lobby[i]
           e == [old.TTTGame EXCEPT !.received_move = received_data'.payload_first_byte]
           turn == Mainaroo(e)
           node == [old EXCEPT !.TTTGame = turn.env]
<1>0. /\ ListFits(game_lobby, unique_game_id) /\ game_lobby \in Seq(Nodes)
      /\ Len(game_lobby) \in Nat /\ Len(game_lobby) >= 1
  BY DEF IInv, ListFits
<1>1. /\ Receives(fd, request) /\ i # NoLink /\ IsTTT(i)
      /\ old.TTTGame.fd_current_player = fd
      /\ game_lobby' = [game_lobby EXCEPT ![i].TTTGame = turn.env]
      /\ Sends(turn.out) /\ UNCHANGED unique_game_id
  BY DEF PlayTTT
<1>2. i \in 1..Len(game_lobby) /\ IsEitherUid(old, received_data'.uid)
  BY <1>0, <1>1, LookupResult DEF Addressed
<1>3. i \in Games(game_lobby) /\ GameFits(old, unique_game_id)
  <2>1. i # 1
    BY <1>0, <1>1 DEF ListFits, HeadFits, IsTTT
  <2>2. i \in 2..Len(game_lobby)
    BY <1>0, <1>2, <2>1
  <2> QED BY <1>0, <2>2 DEF Games, ListFits
<1> HIDE DEF i
<1>4. old \in Nodes /\ old.TTTGame \in TTTRecords
  BY <1>0, <1>2, NodeTypes
<1>5. received_data'.payload_first_byte \in -128..127 /\ cfd' = fd
  BY <1>1, ReceivesTypes DEF Requested
<1>6. Sound(old.TTTGame) /\ old.game_type = TTT_GAME
      /\ old.TTTGame.client_x \in Fds /\ old.TTTGame.client_o \in Fds
  BY <1>1, <1>3 DEF GameFits, IsTTT
<1>7. e \in TTTRecords /\ Sound(e)
      /\ e.client_x = old.TTTGame.client_x /\ e.client_o = old.TTTGame.client_o
  BY <1>4, <1>5, <1>6, MoveReceived
<1> HIDE DEF e
<1>8. /\ turn.env \in TTTRecords /\ SameGame(e, turn.env) /\ Sound(turn.env)
      /\ turn.out \in Seq(Messages) /\ SentTo(turn.out, {e.client_x, e.client_o})
  BY <1>7, MainarooGame
<1> HIDE DEF turn
<1>9. NewNode(game_lobby, game_lobby', i, node)
  BY <1>0, <1>1, <1>2, <1>8, NodeReplaced
<1>10. /\ node.game_type = old.game_type /\ node.uid_client_one = old.uid_client_one
       /\ node.uid_client_two = old.uid_client_two /\ node.TTTGame = turn.env
  BY <1>4 DEF Nodes
<1>11. GameFits(node, unique_game_id)
  BY <1>3, <1>6, <1>7, <1>8, <1>10 DEF GameFits, SameGame
<1>12. SentTo(turn.out, PlayersOf(i))
  BY <1>1, <1>7, <1>8 DEF PlayersOf, TTTPlayers
<1> QED BY <1>1, <1>2, <1>3, <1>5, <1>7, <1>8, <1>9, <1>11, <1>12 DEF i, e, turn

\* A play of rock-paper-scissors, in a game or, under the head's own ids, in the lobby.
LEMMA PlayRPSStep ==
  ASSUME IInv, NEW fd \in Fds, NEW request \in Requests, PlayRPS(fd, request)
  PROVE  \E e, turn, node :
           /\ e \in RPSRecords
           /\ Addressed \in 1..Len(game_lobby) /\ ~IsTTT(Addressed)
           /\ IsEitherUid(game_lobby[Addressed], received_data'.uid)
           /\ cfd' = fd
           /\ e = [game_lobby[Addressed].RPSGame EXCEPT
                     !.fd_current_client = fd,
                     !.move_received = received_data'.payload_first_byte]
           /\ turn \in Mainzees(e)
           /\ TurnOf(e, turn.env, turn.out)
           /\ node = [game_lobby[Addressed] EXCEPT !.RPSGame = turn.env]
           /\ NewNode(game_lobby, game_lobby', Addressed, node)
           /\ IF Addressed = 1 THEN HeadFits(node, unique_game_id)
              ELSE GameFits(node, unique_game_id)
           /\ out' = turn.out /\ peer' = AfterSending(peer, turn.out)
           /\ status' \in {"running", "dead"}
           /\ turn.ending = "crashed" \/ Sends(turn.out)
           /\ UNCHANGED unique_game_id
<1> DEFINE i == Addressed
           old == game_lobby[i]
           e == [old.RPSGame EXCEPT !.fd_current_client = fd,
                                    !.move_received = received_data'.payload_first_byte]
<1>0. /\ ListFits(game_lobby, unique_game_id) /\ game_lobby \in Seq(Nodes)
      /\ Len(game_lobby) \in Nat /\ Len(game_lobby) >= 1
  BY DEF IInv, ListFits
<1>1. /\ Receives(fd, request) /\ i # NoLink /\ ~IsTTT(i) /\ UNCHANGED unique_game_id
  BY DEF PlayRPS
<1>2. PICK turn \in Mainzees(e) :
        /\ game_lobby' = [game_lobby EXCEPT ![i].RPSGame = turn.env]
        /\ IF turn.ending = "crashed"
             THEN out' = turn.out /\ peer' = AfterSending(peer, turn.out) /\ status' = "dead"
             ELSE Sends(turn.out)
  BY DEF PlayRPS
<1> DEFINE node == [old EXCEPT !.RPSGame = turn.env]
<1>3. i \in 1..Len(game_lobby) /\ IsEitherUid(old, received_data'.uid)
  BY <1>0, <1>1, LookupResult DEF Addressed
<1> HIDE DEF i
<1>4. old \in Nodes /\ old.RPSGame \in RPSRecords
  BY <1>0, <1>3, NodeTypes
<1>5. received_data'.payload_first_byte \in -128..127 /\ cfd' = fd /\ fd \in Nat
  BY <1>1, ReceivesTypes, FdsAreNats DEF Requested
<1>6. /\ e \in RPSRecords
      /\ e.fd_client_player_one = old.RPSGame.fd_client_player_one
      /\ e.fd_client_player_two = old.RPSGame.fd_client_player_two
      /\ e.unique_game_id_player_one = old.RPSGame.unique_game_id_player_one
      /\ e.client_one_play = old.RPSGame.client_one_play
      /\ e.client_two_play = old.RPSGame.client_two_play
  <2>1. \A g \in Nat, move \in -128..127 :
          [old.RPSGame EXCEPT !.fd_current_client = g, !.move_received = move] \in RPSRecords
    BY <1>4 DEF RPSRecords
  <2>2. e \in RPSRecords
    BY <1>5, <2>1
  <2> QED BY <1>4, <2>2 DEF RPSRecords
<1> HIDE DEF e
<1>7. TurnOf(e, turn.env, turn.out)
  BY <1>6, MainzeesTurn
<1>8. /\ turn.env \in RPSRecords /\ SamePlayers(e, turn.env)
      /\ e.client_one_play \in 0..3 => turn.env.client_one_play \in 0..3
      /\ e.client_two_play \in 0..3 => turn.env.client_two_play \in 0..3
  BY <1>7 DEF TurnOf
<1>9. NewNode(game_lobby, game_lobby', i, node)
  BY <1>0, <1>2, <1>3, <1>8, NodeReplaced
<1>10. /\ node.game_type = old.game_type /\ node.uid_client_one = old.uid_client_one
       /\ node.uid_client_two = old.uid_client_two /\ node.TTTGame = old.TTTGame
       /\ node.RPSGame = turn.env
  BY <1>4 DEF Nodes
<1>11. IF i = 1 THEN HeadFits(node, unique_game_id) ELSE GameFits(node, unique_game_id)
  <2>1. CASE i = 1
    <3>1. HeadFits(old, unique_game_id)
      BY <1>0, <2>1 DEF ListFits
    <3> QED BY <1>6, <1>8, <1>10, <2>1, <3>1 DEF HeadFits, SamePlayers
  <2>2. CASE i # 1
    <3>1. i \in 2..Len(game_lobby)
      BY <1>0, <1>3, <2>2
    <3>2. GameFits(old, unique_game_id)
      BY <1>0, <3>1 DEF ListFits
    <3>3. old.game_type = RPS_GAME
      BY <1>1, <3>2 DEF GameFits, IsTTT
    <3> QED BY <1>6, <1>8, <1>10, <2>2, <3>2, <3>3 DEF GameFits, SamePlayers
  <2> QED BY <2>1, <2>2
<1>12. /\ out' = turn.out /\ peer' = AfterSending(peer, turn.out)
       /\ status' \in {"running", "dead"}
       /\ turn.ending = "crashed" \/ Sends(turn.out)
  <2>1. status = "running"
    BY <1>1 DEF Receives
  <2> QED BY <1>2, <2>1 DEF Sends
<1> QED BY <1>1, <1>3, <1>5, <1>6, <1>7, <1>9, <1>11, <1>12 DEF i, e

\* A game of these players that nobody has moved in.
IsNew(game, x, o) ==
  /\ game \in TTTRecords
  /\ game.client_x = x /\ game.client_o = o /\ game.fd_current_player = x
  /\ game.game_over = FALSE
  /\ Sound(game)
  /\ Shown(game) = [c \in Cells |-> "free"]

\* A new game is sound, and shows an empty board with X to move.
LEMMA NewGameSound ==
  ASSUME NEW x \in Nat, NEW o \in Nat, NEW xu \in Int, NEW ou \in Int,
         NEW game, game = NewTTTGame(x, xu, o, ou)
  PROVE  IsNew(game, x, o)
<1>1. /\ game.client_x = x /\ game.client_o = o /\ game.fd_current_player = x
      /\ game.client_x_uid = xu /\ game.client_o_uid = ou
      /\ game.game_board = [c \in Cells |-> BLANK_SPACE]
      /\ game.play_count = 0 /\ game.game_over = FALSE
  BY DEF NewTTTGame
<1>2. game \in TTTRecords
  BY NewGames
<1>3. Theirs(game)
  BY <1>1 DEF Theirs
<1>4. ASSUME Ordinary(game) PROVE Counts(game, 0)
  <2>1. Marks(game.game_board, x) = {} /\ Marks(game.game_board, o) = {}
    BY <1>1, <1>4 DEF Marks, Ordinary
  <2> QED BY <1>1, <2>1, FS_EmptySet DEF Counts
<1>5. Sound(game)
  BY <1>1, <1>3, <1>4 DEF Sound
<1>6. Shown(game) = [c \in Cells |-> "free"]
  BY <1>1 DEF Shown
<1> QED BY <1>1, <1>2, <1>5, <1>6 DEF IsNew

\* The games of two clients, one of whom has waited for the other, fit.
LEMMA PairsFit ==
  ASSUME NEW latest \in Int, latest >= 3, NEW fd \in Fds
  PROVE  /\ \A ttt \in TTTRecords :
              ttt.client_x > 0 /\ Waits(ttt.client_x, ttt.client_x_uid, latest) =>
                GameFits(TTTNode(ttt, fd, latest), latest)
         /\ \A rps \in RPSRecords :
              /\ rps.fd_client_player_one > 0
              /\ Waits(rps.fd_client_player_one, rps.unique_game_id_player_one, latest)
              => GameFits(RPSNode(rps, fd, latest), latest)
<1>1. ASSUME NEW ttt \in TTTRecords, ttt.client_x > 0,
             Waits(ttt.client_x, ttt.client_x_uid, latest)
      PROVE  GameFits(TTTNode(ttt, fd, latest), latest)
  <2> DEFINE game == NewTTTGame(ttt.client_x, ttt.client_x_uid, fd, latest)
             node == TTTNode(ttt, fd, latest)
  <2>1. ttt.client_x \in Fds /\ ttt.client_x_uid \in 3..latest
    BY <1>1 DEF Waits, TTTRecords
  <2>2. ttt.client_x \in Nat /\ fd \in Nat /\ ttt.client_x_uid \in Int
    BY <2>1, FdsAreNats
  <2>3. game.client_x = ttt.client_x /\ game.client_o = fd /\ Sound(game)
    <3>1. game = NewTTTGame(ttt.client_x, ttt.client_x_uid, fd, latest)
      OBVIOUS
    <3> HIDE DEF game
    <3>2. IsNew(game, ttt.client_x, fd)
      BY <2>2, <3>1, NewGameSound
    <3> QED BY <3>2 DEF IsNew
  <2> HIDE DEF game
  <2>4. /\ node.game_type = TTT_GAME /\ node.uid_client_one = ttt.client_x_uid
        /\ node.uid_client_two = latest /\ node.TTTGame = game
    BY DEF TTTNode, Node, game
  <2> HIDE DEF node
  <2>5. latest \in ttt.client_x_uid..latest
    BY <2>1
  <2> QED BY <2>1, <2>3, <2>4, <2>5 DEF GameFits, node
<1>2. ASSUME NEW rps \in RPSRecords, rps.fd_client_player_one > 0,
             Waits(rps.fd_client_player_one, rps.unique_game_id_player_one, latest)
      PROVE  GameFits(RPSNode(rps, fd, latest), latest)
  <2> DEFINE one == rps.fd_client_player_one
             game == NewRPSGame(one, rps.unique_game_id_player_one, fd, latest)
             node == RPSNode(rps, fd, latest)
  <2>1. one \in Fds /\ rps.unique_game_id_player_one \in 3..latest
    BY <1>2 DEF Waits, RPSRecords
  <2>2. /\ game.fd_client_player_one = one /\ game.fd_client_player_two = fd
        /\ game.client_one_play \in 0..3 /\ game.client_two_play \in 0..3
    BY DEF NewRPSGame
  <2> HIDE DEF game
  <2>3. /\ node.game_type = RPS_GAME /\ node.uid_client_one = rps.unique_game_id_player_one
        /\ node.uid_client_two = latest /\ node.RPSGame = game
    BY DEF RPSNode, Node, game
  <2> HIDE DEF node
  <2>4. latest \in rps.unique_game_id_player_one..latest
    BY <2>1
  <2> QED BY <2>1, <2>2, <2>3, <2>4 DEF GameFits, node
<1> QED BY <1>1, <1>2

\* The lobbies change at most, and nobody is told more than an id.
OnlyTheLobby(fd) ==
  /\ Len(game_lobby') = Len(game_lobby)
  /\ \A i \in Games(game_lobby) : game_lobby'[i] = game_lobby[i]
  /\ out' \in {<< >>, SendNewGameCode(fd, unique_game_id)}

\* A game is added to the others, which stay.
Added(node) ==
  /\ Len(game_lobby') = Len(game_lobby) + 1
  /\ \A i \in Games(game_lobby) : game_lobby'[i] = game_lobby[i]
  /\ game_lobby'[Len(game_lobby) + 1] = node

\* The client is paired with the one who has waited, and both are told.
PairedTTT(fd) ==
  LET ttt == game_lobby[1].TTTGame
  IN  /\ ttt \in TTTRecords /\ ttt.client_x > 0
      /\ Waits(ttt.client_x, ttt.client_x_uid, unique_game_id)
      /\ Added(TTTNode(ttt, fd, unique_game_id))
      /\ out' = SendNewGameCode(fd, unique_game_id) \o SendStartTTT(ttt.client_x, fd)

PairedRPS(fd) ==
  LET rps == game_lobby[1].RPSGame
  IN  /\ rps \in RPSRecords /\ rps.fd_client_player_one > 0
      /\ Waits(rps.fd_client_player_one, rps.unique_game_id_player_one, unique_game_id)
      /\ Added(RPSNode(rps, fd, unique_game_id))
      /\ out' = SendNewGameCode(fd, unique_game_id) \o SendStartRPS(rps.fd_client_player_one, fd)

\* What is sent about new games are messages.
LEMMA NewGameMessages ==
  ASSUME NEW fd \in Fds, NEW uid \in Int
  PROVE  /\ SendNewGameCode(fd, uid) \in Seq(Messages)
         /\ \A other \in Fds :
              /\ SendNewGameCode(fd, uid) \o SendStartTTT(other, fd) \in Seq(Messages)
              /\ SendNewGameCode(fd, uid) \o SendStartRPS(other, fd) \in Seq(Messages)
<1>1. {"NEW_GAME", "START_GAME"} \subseteq Codes /\ \A g \in Fds : g \in Int
  BY FdsAreNats DEF Codes
<1>2. \A g \in Fds, code \in {"NEW_GAME", "START_GAME"}, arg \in Int : Msg(g, code, arg) \in Messages
  BY <1>1 DEF Msg, Messages
<1>3. SendNewGameCode(fd, uid) \in Seq(Messages)
  BY <1>2 DEF SendNewGameCode
<1>4. \A other \in Fds : SendStartTTT(other, fd) \in Seq(Messages)
                         /\ SendStartRPS(other, fd) \in Seq(Messages)
  <2>1. X \in Int /\ O \in Int /\ 0 \in Int
    BY DEF X, O
  <2> QED BY <1>2, <2>1 DEF SendStartTTT, SendStartRPS
<1> HIDE DEF SendNewGameCode, SendStartTTT, SendStartRPS
<1> QED BY <1>3, <1>4

\* What a request for a new game leaves: somebody waits at most, or a game is added.
Asked(fd) ==
  /\ ListFits(game_lobby', unique_game_id)
  /\ received_data'.uid = 0 /\ cfd' = fd
  /\ unique_game_id \in Int /\ unique_game_id >= 3 /\ UNCHANGED unique_game_id
  /\ out' \in Seq(Messages) /\ Sends(out')
  /\ OnlyTheLobby(fd) \/ PairedTTT(fd) \/ PairedRPS(fd)

\* That is what NewConnection leaves.
LEMMA NewConnectionStep ==
  ASSUME IInv, NEW fd \in Fds, NEW request \in Requests, NewConnection(fd, request)
  PROVE  Asked(fd)
<1> DEFINE uid == unique_game_id
           games == game_lobby
           kind == received_data'.payload_second_byte
           done == HandleNewConnection(games, fd, uid, kind)
           ttt == games[1].TTTGame
           rps == games[1].RPSGame
<1>0. /\ ListFits(games, uid) /\ games \in Seq(Nodes) /\ uid \in Int
      /\ Len(games) \in Nat /\ Len(games) >= 1 /\ 1 \in 1..Len(games)
  BY BoundsAssumption DEF IInv, ListFits
<1>1. /\ Receives(fd, request) /\ received_data'.uid = 0
      /\ Len(done.games) - 1 <= MaxGames
      /\ game_lobby' = done.games /\ Sends(done.out) /\ UNCHANGED unique_game_id
  BY DEF NewConnection
<1>2. cfd' = fd /\ uid >= 3 /\ fd \in Nat /\ fd > 0 /\ uid \in 3..uid
  BY <1>0, <1>1, ReceivesTypes, FdsAreNats DEF IInv
<1>3. /\ ttt \in TTTRecords /\ rps \in RPSRecords
      /\ Waits(ttt.client_x, ttt.client_x_uid, uid)
      /\ Waits(rps.fd_client_player_one, rps.unique_game_id_player_one, uid)
  BY <1>0, NodeTypes DEF ListFits, HeadFits
<1>4. out' = done.out
  BY <1>1 DEF Sends
<1>5. ASSUME ListFits(done.games, uid), done.out \in Seq(Messages),
             OnlyTheLobby(fd) \/ PairedTTT(fd) \/ PairedRPS(fd)
      PROVE  Asked(fd)
  BY <1>0, <1>1, <1>2, <1>4, <1>5 DEF Asked
<1>6. ASSUME NEW t \in TTTRecords, NEW r \in RPSRecords, NewHead(games, done.games, t, r),
             Waits(t.client_x, t.client_x_uid, uid),
             Waits(r.fd_client_player_one, r.unique_game_id_player_one, uid),
             done.out \in {<< >>, SendNewGameCode(fd, uid)}
      PROVE  /\ ListFits(done.games, uid) /\ done.out \in Seq(Messages)
             /\ OnlyTheLobby(fd)
  <2>1. ListFits(done.games, uid)
    BY <1>0, <1>6, HeadChangeFits
  <2>2. done.out \in Seq(Messages)
    <3>1. SendNewGameCode(fd, uid) \in Seq(Messages) /\ << >> \in Seq(Messages)
      BY <1>0, NewGameMessages
    <3> HIDE DEF done
    <3> QED BY <1>6, <3>1
  <2>3. OnlyTheLobby(fd)
    BY <1>1, <1>4, <1>6 DEF NewHead, OnlyTheLobby, Games
  <2> QED BY <2>1, <2>2, <2>3
<1>7. ASSUME NEW node, NEW t \in TTTRecords, NEW r \in RPSRecords,
             NewGame(games, done.games, node, t, r), GameFits(node, uid),
             Waits(t.client_x, t.client_x_uid, uid),
             Waits(r.fd_client_player_one, r.unique_game_id_player_one, uid)
      PROVE  ListFits(done.games, uid) /\ Added(node)
  <2>1. ListFits(done.games, uid)
    BY <1>0, <1>1, <1>7, NewGameFits
  <2>2. Added(node)
    BY <1>1, <1>7 DEF NewGame, Added, Games
  <2> QED BY <2>1, <2>2
<1>8. CASE kind = TTT_GAME
  <2>1. done = JoinTTT(games, fd, uid)
    BY <1>8 DEF HandleNewConnection
  <2> HIDE DEF done
  <2>2. \A a, b \in Int, c, d \in Nat :
          [ttt EXCEPT !.client_x_uid = a, !.client_o_uid = b, !.client_x = c, !.client_o = d]
            \in TTTRecords
    BY <1>3 DEF TTTRecords
  <2>3. CASE /\ ttt.client_x = 0
             /\ NewHead(games, done.games, [ttt EXCEPT !.client_x = fd, !.client_x_uid = uid], rps)
             /\ done.out = SendNewGameCode(fd, uid)
    <3> DEFINE t == [ttt EXCEPT !.client_x = fd, !.client_x_uid = uid]
    <3>1. t \in TTTRecords /\ t.client_x = fd /\ t.client_x_uid = uid
      BY <1>0, <1>2, <1>3 DEF TTTRecords
    <3>2. NewHead(games, done.games, t, rps)
      BY <2>3
    <3> HIDE DEF t
    <3>3. Waits(t.client_x, t.client_x_uid, uid)
      BY <1>2, <3>1 DEF Waits
    <3> QED BY <1>3, <1>5, <1>6, <2>3, <3>1, <3>2, <3>3
  <2>4. ASSUME ttt.client_x > 0,
               NewGame(games, done.games, TTTNode(ttt, fd, uid),
                       [ttt EXCEPT !.client_x_uid = 2, !.client_o_uid = 2,
                                   !.client_x = 0, !.client_o = 0], rps),
               done.out = SendNewGameCode(fd, uid) \o SendStartTTT(ttt.client_x, fd)
        PROVE  ListFits(done.games, uid) /\ done.out \in Seq(Messages) /\ PairedTTT(fd)
    <3> DEFINE t == [ttt EXCEPT !.client_x_uid = 2, !.client_o_uid = 2,
                                !.client_x = 0, !.client_o = 0]
    <3>1. t \in TTTRecords /\ t.client_x = 0
      <4>1. 0 \in Nat /\ 2 \in Int
        OBVIOUS
      <4>2. t \in TTTRecords
        BY <2>2, <4>1
      <4> QED BY <1>3, <4>2 DEF TTTRecords
    <3>2. NewGame(games, done.games, TTTNode(ttt, fd, uid), t, rps)
      BY <2>4
    <3> HIDE DEF t
    <3>3. Waits(t.client_x, t.client_x_uid, uid)
      BY <3>1 DEF Waits
    <3>4. GameFits(TTTNode(ttt, fd, uid), uid)
      BY <1>0, <1>2, <1>3, <2>4, PairsFit
    <3>5. ListFits(done.games, uid) /\ Added(TTTNode(ttt, fd, uid))
      BY <1>3, <1>7, <3>1, <3>2, <3>3, <3>4
    <3>6. ttt.client_x \in Fds
      BY <1>3, <2>4 DEF Waits, TTTRecords
    <3>7. done.out \in Seq(Messages)
      BY <1>0, <2>4, <3>6, NewGameMessages
    <3>8. PairedTTT(fd)
      BY <1>3, <1>4, <2>4, <3>5 DEF PairedTTT
    <3> QED BY <3>5, <3>7, <3>8
  <2>5. \/ /\ ttt.client_x = 0
           /\ NewHead(games, done.games, [ttt EXCEPT !.client_x = fd, !.client_x_uid = uid], rps)
           /\ done.out = SendNewGameCode(fd, uid)
        \/ /\ ttt.client_x > 0
           /\ NewGame(games, done.games, TTTNode(ttt, fd, uid),
                       [ttt EXCEPT !.client_x_uid = 2, !.client_o_uid = 2,
                                   !.client_x = 0, !.client_o = 0], rps)
           /\ done.out = SendNewGameCode(fd, uid) \o SendStartTTT(ttt.client_x, fd)
    <3>1. JoinedTTT(games, ttt, fd, uid, done)
      BY <1>0, <1>2, <2>1, JoinTTTResult
    <3> QED BY <3>1 DEF JoinedTTT
  <2>6. ASSUME ttt.client_x > 0,
               NewGame(games, done.games, TTTNode(ttt, fd, uid),
                       [ttt EXCEPT !.client_x_uid = 2, !.client_o_uid = 2,
                                   !.client_x = 0, !.client_o = 0], rps),
               done.out = SendNewGameCode(fd, uid) \o SendStartTTT(ttt.client_x, fd)
        PROVE  Asked(fd)
    <3>1. ListFits(done.games, uid) /\ done.out \in Seq(Messages) /\ PairedTTT(fd)
      BY <2>4, <2>6
    <3> QED BY <1>5, <3>1
  <2> QED BY <2>3, <2>5, <2>6
<1>9. CASE kind = RPS_GAME
  <2>1. done = JoinRPS(games, fd, uid)
    BY <1>9 DEF HandleNewConnection
  <2> HIDE DEF done
  <2>2. \A a, b \in Int, c, d \in Nat :
          [rps EXCEPT !.unique_game_id_player_one = a, !.unique_game_id_player_two = b,
                      !.fd_client_player_one = c, !.fd_client_player_two = d] \in RPSRecords
    BY <1>3 DEF RPSRecords
  <2>3. CASE /\ rps.fd_client_player_one = 0
             /\ NewHead(games, done.games, ttt, [rps EXCEPT !.fd_client_player_one = fd,
                                                 !.unique_game_id_player_one = uid])
             /\ done.out = SendNewGameCode(fd, uid)
    <3> DEFINE r == [rps EXCEPT !.fd_client_player_one = fd, !.unique_game_id_player_one = uid]
    <3>1. r \in RPSRecords /\ r.fd_client_player_one = fd /\ r.unique_game_id_player_one = uid
      BY <1>0, <1>2, <1>3 DEF RPSRecords
    <3>2. NewHead(games, done.games, ttt, r)
      BY <2>3
    <3> HIDE DEF r
    <3>3. Waits(r.fd_client_player_one, r.unique_game_id_player_one, uid)
      BY <1>2, <3>1 DEF Waits
    <3> QED BY <1>3, <1>5, <1>6, <2>3, <3>1, <3>2, <3>3
  <2>4. ASSUME rps.fd_client_player_one > 0,
               NewGame(games, done.games, RPSNode(rps, fd, uid), ttt,
                       [rps EXCEPT !.unique_game_id_player_one = 0,
                                   !.unique_game_id_player_two = 0,
                                   !.fd_client_player_one = 0, !.fd_client_player_two = 0]),
               done.out = SendNewGameCode(fd, uid) \o SendStartRPS(rps.fd_client_player_one, fd)
        PROVE  ListFits(done.games, uid) /\ done.out \in Seq(Messages) /\ PairedRPS(fd)
    <3> DEFINE r == [rps EXCEPT !.unique_game_id_player_one = 0, !.unique_game_id_player_two = 0,
                                !.fd_client_player_one = 0, !.fd_client_player_two = 0]
    <3>1. r \in RPSRecords /\ r.fd_client_player_one = 0
      <4>1. 0 \in Nat /\ 0 \in Int
        OBVIOUS
      <4>2. r \in RPSRecords
        BY <2>2, <4>1
      <4> QED BY <1>3, <4>2 DEF RPSRecords
    <3>2. NewGame(games, done.games, RPSNode(rps, fd, uid), ttt, r)
      BY <2>4
    <3> HIDE DEF r
    <3>3. Waits(r.fd_client_player_one, r.unique_game_id_player_one, uid)
      BY <3>1 DEF Waits
    <3>4. GameFits(RPSNode(rps, fd, uid), uid)
      BY <1>0, <1>2, <1>3, <2>4, PairsFit
    <3>5. ListFits(done.games, uid) /\ Added(RPSNode(rps, fd, uid))
      BY <1>3, <1>7, <3>1, <3>2, <3>3, <3>4
    <3>6. rps.fd_client_player_one \in Fds
      BY <1>3, <2>4 DEF Waits, RPSRecords
    <3>7. done.out \in Seq(Messages)
      BY <1>0, <2>4, <3>6, NewGameMessages
    <3>8. PairedRPS(fd)
      BY <1>3, <1>4, <2>4, <3>5 DEF PairedRPS
    <3> QED BY <3>5, <3>7, <3>8
  <2>5. \/ /\ rps.fd_client_player_one = 0
           /\ NewHead(games, done.games, ttt, [rps EXCEPT !.fd_client_player_one = fd,
                                                    !.unique_game_id_player_one = uid])
           /\ done.out = SendNewGameCode(fd, uid)
        \/ /\ rps.fd_client_player_one > 0
           /\ NewGame(games, done.games, RPSNode(rps, fd, uid), ttt,
                       [rps EXCEPT !.unique_game_id_player_one = 0,
                                   !.unique_game_id_player_two = 0,
                                   !.fd_client_player_one = 0, !.fd_client_player_two = 0])
           /\ done.out = SendNewGameCode(fd, uid) \o SendStartRPS(rps.fd_client_player_one, fd)
    <3>1. JoinedRPS(games, rps, fd, uid, done)
      BY <1>0, <1>2, <2>1, JoinRPSResult
    <3> QED BY <3>1 DEF JoinedRPS
  <2>6. ASSUME rps.fd_client_player_one > 0,
               NewGame(games, done.games, RPSNode(rps, fd, uid), ttt,
                       [rps EXCEPT !.unique_game_id_player_one = 0,
                                   !.unique_game_id_player_two = 0,
                                   !.fd_client_player_one = 0, !.fd_client_player_two = 0]),
               done.out = SendNewGameCode(fd, uid) \o SendStartRPS(rps.fd_client_player_one, fd)
        PROVE  Asked(fd)
    <3>1. ListFits(done.games, uid) /\ done.out \in Seq(Messages) /\ PairedRPS(fd)
      BY <2>4, <2>6
    <3> QED BY <1>5, <3>1
  <2> QED BY <2>3, <2>5, <2>6
<1>10. CASE kind # TTT_GAME /\ kind # RPS_GAME
  <2>1. done = Lobbied(games, << >>)
    BY <1>10 DEF HandleNewConnection
  <2>2. done.games = games /\ done.out = << >>
    BY <2>1 DEF Lobbied
  <2>3. OnlyTheLobby(fd)
    BY <1>1, <1>4, <2>2 DEF OnlyTheLobby
  <2> QED BY <1>0, <1>5, <2>2, <2>3
<1> QED BY <1>8, <1>9, <1>10

\* Every iteration of the loop, and every departure, keeps the invariant.
LEMMA NextInv == IInv /\ [Next]_vars => IInv'
<1> SUFFICES ASSUME IInv, [Next]_vars PROVE IInv'
  OBVIOUS
<1>0. /\ ListFits(game_lobby, unique_game_id) /\ unique_game_id \in Int
      /\ game_lobby \in Seq(Nodes) /\ Len(game_lobby) \in Nat /\ Len(game_lobby) >= 1
  BY BoundsAssumption DEF IInv, ListFits
<1>1. CASE Unasked
  BY <1>1, UnaskedKeepsInv
<1>2. ASSUME NEW fd \in Fds, NEW request \in Requests, NEW msgs \in Seq(Messages),
             Receives(fd, request), Sends(msgs), UNCHANGED unique_game_id,
             ListFits(game_lobby', unique_game_id)
      PROVE  IInv'
  <2>1. status' \in {"running", "dead"} /\ out' = msgs /\ peer' = AfterSending(peer, msgs)
    BY <1>2 DEF Sends
  <2> QED BY <1>2, <2>1, RequestKeepsInv
<1>3. ASSUME NEW fd \in Fds, NEW request \in Requests, NewConnection(fd, request)
      PROVE  IInv'
  <2>1. Receives(fd, request)
    BY <1>3 DEF NewConnection
  <2>2. /\ ListFits(game_lobby', unique_game_id) /\ UNCHANGED unique_game_id
        /\ out' \in Seq(Messages) /\ Sends(out')
    BY <1>3, NewConnectionStep DEF Asked
  <2> QED BY <1>2, <2>1, <2>2
<1>4. ASSUME NEW fd \in Fds, NEW request \in Requests, UnknownGame(fd, request)
      PROVE  IInv'
  <2>1. /\ Receives(fd, request) /\ Sends(<< >>)
        /\ UNCHANGED << unique_game_id, game_lobby >>
    BY <1>4 DEF UnknownGame
  <2>2. << >> \in Seq(Messages)
    OBVIOUS
  <2> QED BY <1>0, <1>2, <2>1, <2>2
<1>5. ASSUME NEW fd \in Fds, NEW request \in Requests, PlayTTTOutOfTurn(fd, request)
      PROVE  IInv'
  <2>1. /\ Receives(fd, request) /\ Sends(<< Msg(fd, "OUT_OF_TURN", 0) >>)
        /\ UNCHANGED << unique_game_id, game_lobby >>
    BY <1>5 DEF PlayTTTOutOfTurn
  <2>2. << Msg(fd, "OUT_OF_TURN", 0) >> \in Seq(Messages)
    <3>1. Msg(fd, "OUT_OF_TURN", 0) \in Messages
      BY FdsAreNats DEF Msg, Messages, Codes
    <3> HIDE DEF Msg
    <3> QED BY <3>1
  <2> QED BY <1>0, <1>2, <2>1, <2>2
<1>6. ASSUME NEW fd \in Fds, NEW request \in Requests, PlayTTT(fd, request)
      PROVE  IInv'
  <2>1. Receives(fd, request)
    BY <1>6 DEF PlayTTT
  <2>2. PICK turn, node :
          /\ Addressed \in Games(game_lobby)
          /\ NewNode(game_lobby, game_lobby', Addressed, node)
          /\ GameFits(node, unique_game_id)
          /\ turn.out \in Seq(Messages) /\ Sends(turn.out)
          /\ UNCHANGED unique_game_id
    BY <1>6, PlayTTTStep
  <2>3. Addressed \in 1..Len(game_lobby) /\ Addressed # 1
    BY <1>0, <2>2 DEF Games
  <2>4. ListFits(game_lobby', unique_game_id)
    BY <1>0, <2>2, <2>3, NewNodeFits
  <2> QED BY <1>2, <2>1, <2>2, <2>4
<1>7. ASSUME NEW fd \in Fds, NEW request \in Requests, PlayRPS(fd, request)
      PROVE  IInv'
  <2>1. Receives(fd, request)
    BY <1>7 DEF PlayRPS
  <2>2. PICK e, turn, node :
          /\ e \in RPSRecords
          /\ Addressed \in 1..Len(game_lobby)
          /\ TurnOf(e, turn.env, turn.out)
          /\ NewNode(game_lobby, game_lobby', Addressed, node)
          /\ IF Addressed = 1 THEN HeadFits(node, unique_game_id)
             ELSE GameFits(node, unique_game_id)
          /\ out' = turn.out /\ peer' = AfterSending(peer, turn.out)
          /\ status' \in {"running", "dead"}
          /\ UNCHANGED unique_game_id
    BY <1>7, PlayRPSStep
  <2>3. ListFits(game_lobby', unique_game_id)
    BY <1>0, <2>2, NewNodeFits
  <2>4. turn.out \in Seq(Messages)
    BY <2>2 DEF TurnOf
  <2> QED BY <2>1, <2>2, <2>3, <2>4, RequestKeepsInv
<1>8. CASE UNCHANGED vars
  BY <1>8 DEF vars, IInv
<1> QED BY <1>1, <1>3, <1>4, <1>5, <1>6, <1>7, <1>8, Steps DEF Request

\* The inductive invariant holds in every behaviour, whatever the clients send.
THEOREM Invariance == Spec => []IInv
<1>1. Init => IInv
  BY InitInv
<1>2. IInv /\ [Next]_vars => IInv'
  BY NextInv
<1> QED BY <1>1, <1>2, PTL DEF Spec

\* Every variable keeps its type: in particular every seat of every game is a client's
\* descriptor, under ids that have been issued, in the order in which they were.
THEOREM TypeCorrect == Spec => []TypeOK
<1>1. IInv => TypeOK
  BY InvTypes
<1> QED BY <1>1, Invariance, PTL

-----------------------------------------------------------------------------
(* Lookups.                                                                *)

\* A lookup (return_link_by_uid) never returns a game under an id that is not its own,
\* and misses a game only if it has two ids and is not the last.
THEOREM LookupsRight == Spec => []LookupFindsOwnGames
<1>1. IInv => LookupFindsOwnGames
  <2> SUFFICES ASSUME IInv, NEW i \in Games(game_lobby),
                      NEW uid \in {game_lobby[i].uid_client_one, game_lobby[i].uid_client_two},
                      NEW link, link = ReturnLinkByUid(game_lobby, uid)
               PROVE  /\ link # NoLink => IsEitherUid(game_lobby[link], uid)
                      /\ link = NoLink => /\ i < Len(game_lobby)
                                          /\ game_lobby[i].uid_client_one # game_lobby[i].uid_client_two
                      /\ IsBothUids(game_lobby[i], uid) => link <= i
    BY DEF LookupFindsOwnGames
  <2>0. Len(game_lobby) \in Nat /\ Len(game_lobby) >= 1 /\ i \in 1..Len(game_lobby)
    BY BoundsAssumption DEF IInv, ListFits, Games
  <2>1. /\ link # NoLink => IsEitherUid(game_lobby[link], uid)
        /\ link = NoLink => ~IsEitherUid(game_lobby[Len(game_lobby)], uid)
        /\ \A j \in 1..Len(game_lobby) : IsBothUids(game_lobby[j], uid) => link # NoLink /\ link <= j
    BY <2>0, LookupResult
  <2>2. ASSUME link = NoLink
        PROVE  i < Len(game_lobby) /\ game_lobby[i].uid_client_one # game_lobby[i].uid_client_two
    <3>1. IsEitherUid(game_lobby[i], uid)
      BY DEF IsEitherUid
    <3>2. i # Len(game_lobby)
      BY <2>1, <2>2, <3>1
    <3>3. ~IsBothUids(game_lobby[i], uid)
      BY <2>0, <2>1, <2>2
    <3> QED BY <2>0, <3>2, <3>3 DEF IsBothUids
  <2> QED BY <2>0, <2>1, <2>2
<1> QED BY <1>1, Invariance, PTL

-----------------------------------------------------------------------------
(* Games do not disturb one another.                                       *)

\* A request for a new game leaves the games there are as they are.
LEMMA OldGamesStay ==
  ASSUME NEW fd, OnlyTheLobby(fd) \/ PairedTTT(fd) \/ PairedRPS(fd)
  PROVE  \A i \in Games(game_lobby) : game_lobby'[i] = game_lobby[i]
BY DEF OnlyTheLobby, PairedTTT, PairedRPS, Added

\* The play of a game changes no other.
LEMMA OneGamePlayed ==
  ASSUME IInv, NEW i, NEW node, NewNode(game_lobby, game_lobby', i, node),
         NEW j \in Games(game_lobby), game_lobby'[j] # game_lobby[j]
  PROVE  j = i /\ game_lobby'[i] = node
<1>1. j \in 1..Len(game_lobby)
  BY DEF Games, IInv, ListFits
<1> QED BY <1>1 DEF NewNode

\* The game that a step changes, if it changes any.
Isolated(i) ==
  /\ \A j \in Games(game_lobby) : game_lobby'[j] # game_lobby[j] => j = i
  /\ IsEitherUid(game_lobby[i], received_data'.uid)
  /\ IsTTT(i) => cfd' = game_lobby[i].TTTGame.fd_current_player
  /\ game_lobby'[i].RPSGame.client_one_play # game_lobby[i].RPSGame.client_one_play =>
       cfd' = game_lobby[i].RPSGame.fd_client_player_one
  /\ game_lobby'[i].RPSGame.client_two_play # game_lobby[i].RPSGame.client_two_play =>
       cfd' = game_lobby[i].RPSGame.fd_client_player_two

\* A request changes at most the game it names, and there only what its sender may: no
\* game is moved in but by the player whose turn it is (main, handle_move).
THEOREM GamesIsolated == Spec => GamesAreIsolated
<1>1. ASSUME IInv, Next, NEW i \in Games(game_lobby), game_lobby'[i] # game_lobby[i]
      PROVE  Isolated(i)
  <2>0. i \in 1..Len(game_lobby) /\ game_lobby \in Seq(Nodes)
    BY <1>1 DEF Games, IInv, ListFits
  <2>1. ASSUME NEW fd \in Fds, NEW request \in Requests, PlayTTT(fd, request)
        PROVE  Isolated(i)
    <3>1. PICK turn, node :
            /\ IsEitherUid(game_lobby[Addressed], received_data'.uid)
            /\ game_lobby[Addressed].TTTGame.fd_current_player = fd /\ cfd' = fd
            /\ node = [game_lobby[Addressed] EXCEPT !.TTTGame = turn.env]
            /\ NewNode(game_lobby, game_lobby', Addressed, node)
      BY <1>1, <2>1, PlayTTTStep
    <3>2. Addressed = i /\ game_lobby'[i] = node
      BY <1>1, <3>1, OneGamePlayed
    <3>3. \A j \in Games(game_lobby) : game_lobby'[j] # game_lobby[j] => j = i
      BY <1>1, <3>1, <3>2, OneGamePlayed
    <3>4. game_lobby'[i].RPSGame = game_lobby[i].RPSGame
      BY <2>0, <3>1, <3>2, NodeTypes DEF Nodes
    <3> QED BY <3>1, <3>2, <3>3, <3>4 DEF Isolated
  <2>2. ASSUME NEW fd \in Fds, NEW request \in Requests, PlayRPS(fd, request)
        PROVE  Isolated(i)
    <3>1. PICK e, turn, node :
            /\ e \in RPSRecords
            /\ ~IsTTT(Addressed)
            /\ IsEitherUid(game_lobby[Addressed], received_data'.uid)
            /\ cfd' = fd
            /\ e = [game_lobby[Addressed].RPSGame EXCEPT
                      !.fd_current_client = fd,
                      !.move_received = received_data'.payload_first_byte]
            /\ TurnOf(e, turn.env, turn.out)
            /\ node = [game_lobby[Addressed] EXCEPT !.RPSGame = turn.env]
            /\ NewNode(game_lobby, game_lobby', Addressed, node)
      BY <1>1, <2>2, PlayRPSStep
    <3>2. Addressed = i /\ game_lobby'[i] = node
      BY <1>1, <3>1, OneGamePlayed
    <3>3. \A j \in Games(game_lobby) : game_lobby'[j] # game_lobby[j] => j = i
      BY <1>1, <3>1, <3>2, OneGamePlayed
    <3>4. game_lobby[i] \in Nodes /\ game_lobby[i].RPSGame \in RPSRecords
      BY <2>0, NodeTypes
    <3>5. game_lobby'[i].RPSGame = turn.env
      BY <3>1, <3>2, <3>4 DEF Nodes
    <3>6. /\ e.fd_current_client = fd
          /\ e.fd_client_player_one = game_lobby[i].RPSGame.fd_client_player_one
          /\ e.fd_client_player_two = game_lobby[i].RPSGame.fd_client_player_two
          /\ e.client_one_play = game_lobby[i].RPSGame.client_one_play
          /\ e.client_two_play = game_lobby[i].RPSGame.client_two_play
      BY <3>1, <3>2, <3>4 DEF RPSRecords
    <3> QED BY <3>1, <3>2, <3>3, <3>5, <3>6 DEF Isolated, TurnOf
  <2>3. ASSUME NEW fd \in Fds, NEW request \in Requests, NewConnection(fd, request)
        PROVE  Isolated(i)
    <3>1. game_lobby'[i] = game_lobby[i]
      BY <1>1, <2>3, NewConnectionStep, OldGamesStay DEF Asked
    <3> QED BY <1>1, <3>1
  <2>4. ASSUME \/ Unasked
               \/ \E fd \in Fds, request \in Requests :
                    UnknownGame(fd, request) \/ PlayTTTOutOfTurn(fd, request)
        PROVE  Isolated(i)
    <3>1. game_lobby' = game_lobby
      BY <2>4, UnaskedIsQuiet DEF UnknownGame, PlayTTTOutOfTurn
    <3> QED BY <1>1, <3>1
  <2> QED BY <1>1, <2>1, <2>2, <2>3, <2>4, Steps DEF Request
<1>2. IInv /\ [Next]_vars =>
        [\A i \in Games(game_lobby) : game_lobby'[i] # game_lobby[i] =>
           /\ \A j \in Games(game_lobby) : game_lobby'[j] # game_lobby[j] => j = i
           /\ IsEitherUid(game_lobby[i], received_data'.uid)
           /\ IsTTT(i) => cfd' = game_lobby[i].TTTGame.fd_current_player
           /\ LET before == game_lobby[i].RPSGame
                  after  == game_lobby'[i].RPSGame
              IN  /\ after.client_one_play # before.client_one_play =>
                       cfd' = before.fd_client_player_one
                  /\ after.client_two_play # before.client_two_play =>
                       cfd' = before.fd_client_player_two]_vars
  BY <1>1 DEF Isolated
<1> QED BY <1>2, Invariance, PTL DEF Spec, GamesAreIsolated

-----------------------------------------------------------------------------
(* New games are announced.                                                *)

\* The second client's id and two more messages: what is sent after the first.
LEMMA StartsAre ==
  ASSUME NEW m1, NEW m2, NEW m3, m1 \in Messages, m2 \in Messages, m3 \in Messages,
         NEW msgs, msgs = << m1 >> \o << m2, m3 >>
  PROVE  msgs[1] = m1 /\ {msgs[m] : m \in 2..Len(msgs)} = {m2, m3}
<1>1. Len(msgs) = 3 /\ msgs[1] = m1 /\ msgs[2] = m2 /\ msgs[3] = m3
  BY ThreeMessages
<1>2. \A m : m \in 2..3 <=> m \in {2, 3}
  OBVIOUS
<1> QED BY <1>1, <1>2

\* What the announcement of a new game is to be.
Announced ==
  LET new == game_lobby'[Len(game_lobby')]
      first == SeatsOf(new)[1]
      second == SeatsOf(new)[2]
      starts == {out'[m] : m \in 2..Len(out')}
  IN  /\ out'[1] = Msg(second[1], "NEW_GAME", second[2])
      /\ first = Waiting(new.game_type)[1]
      /\ \/ first[1] = second[1] /\ new.game_type = RPS_GAME /\ starts = {}
         \/ \E x, o \in {0, X, O} :
              /\ starts = {Msg(first[1], "START_GAME", x), Msg(second[1], "START_GAME", o)}
              /\ new.game_type = TTT_GAME => x = X /\ o = O

\* The announcement of a game of tic-tac-toe.
LEMMA TTTAnnounced ==
  ASSUME IInv, NEW fd \in Fds, unique_game_id \in Int, PairedTTT(fd)
  PROVE  Announced
<1> DEFINE ttt == game_lobby[1].TTTGame
           uid == unique_game_id
           node == TTTNode(ttt, fd, uid)
           new == game_lobby'[Len(game_lobby')]
           m1 == Msg(fd, "NEW_GAME", uid)
           m2 == Msg(fd, "START_GAME", O)
           m3 == Msg(ttt.client_x, "START_GAME", X)
<1>0. /\ ttt \in TTTRecords /\ ttt.client_x > 0 /\ Len(game_lobby) \in Nat
      /\ new = node /\ out' = << m1 >> \o << m2, m3 >>
  BY DEF PairedTTT, Added, SendNewGameCode, SendStartTTT, IInv, ListFits
<1>1. ttt.client_x \in Nat /\ fd \in Nat
  BY <1>0, FdsAreNats DEF TTTRecords
<1>2. m1 \in Messages /\ m2 \in Messages /\ m3 \in Messages
  BY <1>1 DEF Msg, Messages, Codes, X, O
<1>3. /\ node.game_type = TTT_GAME /\ node.TTTGame.client_x = ttt.client_x
      /\ node.TTTGame.client_x_uid = ttt.client_x_uid
      /\ node.TTTGame.client_o = fd /\ node.TTTGame.client_o_uid = uid
  BY DEF TTTNode, Node, NewTTTGame
<1>4. SeatsOf(new) = << << ttt.client_x, ttt.client_x_uid >>, << fd, uid >> >>
  BY <1>0, <1>3 DEF SeatsOf
<1>5. Waiting(new.game_type)[1] = << ttt.client_x, ttt.client_x_uid >>
  BY <1>0, <1>1, <1>3 DEF Waiting, Lobby
<1>6. out'[1] = m1 /\ {out'[m] : m \in 2..Len(out')} = {m2, m3}
  BY <1>0, <1>2, StartsAre
<1> DEFINE first == SeatsOf(new)[1]
           second == SeatsOf(new)[2]
           starts == {out'[m] : m \in 2..Len(out')}
<1>7. /\ first = << ttt.client_x, ttt.client_x_uid >> /\ first[1] = ttt.client_x
      /\ second[1] = fd /\ second[2] = uid
  BY <1>4
<1>8. new.game_type = TTT_GAME
  BY <1>0, <1>3
<1>9. /\ out'[1] = Msg(second[1], "NEW_GAME", second[2])
      /\ first = Waiting(new.game_type)[1]
      /\ starts = {Msg(first[1], "START_GAME", X), Msg(second[1], "START_GAME", O)}
  BY <1>5, <1>6, <1>7
<1> HIDE DEF new, ttt, first, second, starts
<1>10. \E x, o \in {0, X, O} :
         /\ starts = {Msg(first[1], "START_GAME", x), Msg(second[1], "START_GAME", o)}
         /\ new.game_type = TTT_GAME => x = X /\ o = O
  BY <1>9
<1> QED BY <1>9, <1>10 DEF Announced, new, first, second, starts

\* The announcement of a game of rock-paper-scissors: none, to a client paired with itself.
LEMMA RPSAnnounced ==
  ASSUME IInv, NEW fd \in Fds, unique_game_id \in Int, PairedRPS(fd)
  PROVE  Announced
<1> DEFINE rps == game_lobby[1].RPSGame
           one == rps.fd_client_player_one
           uid == unique_game_id
           node == RPSNode(rps, fd, uid)
           new == game_lobby'[Len(game_lobby')]
           m1 == Msg(fd, "NEW_GAME", uid)
           m2 == Msg(one, "START_GAME", 0)
           m3 == Msg(fd, "START_GAME", 0)
           first == SeatsOf(new)[1]
           second == SeatsOf(new)[2]
           starts == {out'[m] : m \in 2..Len(out')}
<1>0. /\ rps \in RPSRecords /\ one > 0 /\ Len(game_lobby) \in Nat
      /\ new = node
      /\ fd = one => out' = << m1 >> \o << >>
      /\ fd # one => out' = << m1 >> \o << m2, m3 >>
  <2>1. /\ rps \in RPSRecords /\ one > 0 /\ Len(game_lobby) \in Nat
        /\ new = node
        /\ out' = SendNewGameCode(fd, uid) \o SendStartRPS(one, fd)
    BY DEF PairedRPS, Added, IInv, ListFits
  <2> HIDE DEF rps, new, node
  <2>2. fd = one => SendStartRPS(one, fd) = << >>
    BY DEF SendStartRPS
  <2>3. fd # one => SendStartRPS(one, fd) = << m2, m3 >>
    BY DEF SendStartRPS
  <2>4. SendNewGameCode(fd, uid) = << m1 >>
    BY DEF SendNewGameCode
  <2> QED BY <2>1, <2>2, <2>3, <2>4
<1>1. one \in Nat /\ fd \in Nat
  BY <1>0, FdsAreNats DEF RPSRecords
<1>2. m1 \in Messages /\ m2 \in Messages /\ m3 \in Messages
  BY <1>1 DEF Msg, Messages, Codes
<1>3. /\ node.game_type = RPS_GAME /\ node.RPSGame.fd_client_player_one = one
      /\ node.RPSGame.unique_game_id_player_one = rps.unique_game_id_player_one
      /\ node.RPSGame.fd_client_player_two = fd
      /\ node.RPSGame.unique_game_id_player_two = uid
  BY DEF RPSNode, Node, NewRPSGame
<1>4. SeatsOf(new) = << << one, rps.unique_game_id_player_one >>, << fd, uid >> >>
  BY <1>0, <1>3 DEF SeatsOf
<1>5. Waiting(new.game_type)[1] = << one, rps.unique_game_id_player_one >>
  BY <1>0, <1>1, <1>3 DEF Waiting, Lobby
<1>6. /\ first = << one, rps.unique_game_id_player_one >> /\ first[1] = one
      /\ second[1] = fd /\ second[2] = uid
  BY <1>4
<1>7. new.game_type = RPS_GAME
  BY <1>0, <1>3
<1>8. first = Waiting(new.game_type)[1]
  BY <1>5, <1>6
<1> HIDE DEF new, first, second, starts
<1>9. CASE fd = one
  <2>1. out' = << m1 >>
    BY <1>0, <1>9
  <2>2. Len(out') = 1 /\ out'[1] = m1
    <3> HIDE DEF m1
    <3> QED BY <2>1
  <2>3. starts = {}
    BY <2>2 DEF starts
  <2> QED BY <1>6, <1>7, <1>8, <1>9, <2>2, <2>3 DEF Announced, new, first, second, starts
<1>10. CASE fd # one
  <2>1. out' = << m1 >> \o << m2, m3 >>
    BY <1>0, <1>10
  <2>2. out'[1] = m1 /\ starts = {m2, m3}
    BY <1>2, <2>1, StartsAre DEF starts
  <2>3. /\ out'[1] = Msg(second[1], "NEW_GAME", second[2])
        /\ starts = {Msg(first[1], "START_GAME", 0), Msg(second[1], "START_GAME", 0)}
    BY <1>6, <2>2
  <2>4. \E x, o \in {0, X, O} :
          /\ starts = {Msg(first[1], "START_GAME", x), Msg(second[1], "START_GAME", o)}
          /\ new.game_type = TTT_GAME => x = X /\ o = O
    BY <1>7, <2>3
  <2> QED BY <1>8, <2>3, <2>4 DEF Announced, new, first, second, starts
<1> QED BY <1>9, <1>10

\* When a game starts, the client who completes the pair is told its id and both are told
\* to start, as what they are (handle_new_connection, send_start_ttt, send_start_rps).
THEOREM NewGamesAnnounced == Spec => NewGamesAreAnnounced
<1>1. ASSUME IInv, Next, Len(game_lobby') > Len(game_lobby) PROVE Announced
  <2>0. Len(game_lobby) \in Nat
    BY <1>1 DEF IInv, ListFits
  <2>1. ASSUME NEW fd \in Fds, NEW request \in Requests, NewConnection(fd, request)
        PROVE  Announced
    <3>1. /\ unique_game_id \in Int
          /\ OnlyTheLobby(fd) \/ PairedTTT(fd) \/ PairedRPS(fd)
      BY <1>1, <2>1, NewConnectionStep DEF Asked
    <3>2. ~OnlyTheLobby(fd)
      BY <1>1, <2>0 DEF OnlyTheLobby
    <3> QED BY <1>1, <3>1, <3>2, TTTAnnounced, RPSAnnounced
  <2>2. ASSUME NEW i, NEW node, NewNode(game_lobby, game_lobby', i, node) PROVE FALSE
    BY <1>1, <2>0, <2>2 DEF NewNode
  <2>3. ASSUME NEW fd \in Fds, NEW request \in Requests,
               PlayTTT(fd, request) \/ PlayRPS(fd, request)
        PROVE  FALSE
    BY <1>1, <2>2, <2>3, PlayTTTStep, PlayRPSStep
  <2>4. ASSUME \/ Unasked
               \/ \E fd \in Fds, request \in Requests :
                    UnknownGame(fd, request) \/ PlayTTTOutOfTurn(fd, request)
        PROVE  FALSE
    <3>1. game_lobby' = game_lobby
      BY <2>4, UnaskedIsQuiet DEF UnknownGame, PlayTTTOutOfTurn
    <3> QED BY <1>1, <2>0, <3>1
  <2> QED BY <1>1, <2>1, <2>3, <2>4, Steps DEF Request
<1>2. IInv /\ [Next]_vars =>
        [Len(game_lobby') > Len(game_lobby) =>
           LET new == game_lobby'[Len(game_lobby')]
               first == SeatsOf(new)[1]
               second == SeatsOf(new)[2]
               starts == {out'[m] : m \in 2..Len(out')}
           IN  /\ out'[1] = Msg(second[1], "NEW_GAME", second[2])
               /\ first = Waiting(new.game_type)[1]
               /\ \/ first[1] = second[1] /\ new.game_type = RPS_GAME /\ starts = {}
                  \/ \E x, o \in {0, X, O} :
                       /\ starts = {Msg(first[1], "START_GAME", x),
                                    Msg(second[1], "START_GAME", o)}
                       /\ new.game_type = TTT_GAME => x = X /\ o = O]_vars
  BY <1>1 DEF Announced
<1> QED BY <1>2, Invariance, PTL DEF Spec, NewGamesAreAnnounced

-----------------------------------------------------------------------------
(* Every game is one of noughts and crosses.                               *)

\* Two clients with descriptors that can stand for a mark, as IsOrdinaryTTT has it.
LEMMA OrdinaryPair ==
  ASSUME NEW x, NEW o
  PROVE  Cardinality({x, o}) = 2 <=> x # o
<1>1. CASE x = o
  <2>1. {x, o} = {x}
    BY <1>1
  <2>2. Cardinality({x}) = 1
    BY FS_Singleton
  <2> QED BY <1>1, <2>1, <2>2
<1>2. CASE x # o
  <2>1. IsFiniteSet({x}) /\ Cardinality({x}) = 1
    BY FS_Singleton
  <2>2. o \notin {x} /\ {x, o} = {x} \cup {o}
    BY <1>2
  <2>3. Cardinality({x} \cup {o}) = Cardinality({x}) + 1
    BY <2>1, <2>2, FS_AddElement
  <2> QED BY <1>2, <2>1, <2>2, <2>3
<1> QED BY <1>1, <1>2

\* Is this place in the list that of an ordinary game?
Hosts(games, i) ==
  /\ i \in Games(games)
  /\ games[i].game_type = TTT_GAME
  /\ Ordinary(games[i].TTTGame)

\* What a step does to one place in the list: nothing, a game starts there, or the game
\* there is played.
LEMMA PlaceSteps ==
  ASSUME IInv, Next, NEW i \in Nat, i >= 2
  PROVE  \/ /\ i \in Games(game_lobby') <=> i \in Games(game_lobby)
            /\ i \in Games(game_lobby) => game_lobby'[i] = game_lobby[i]
         \/ /\ i \notin Games(game_lobby)
            /\ game_lobby'[i].game_type = TTT_GAME =>
                 \E x, o \in Nat : IsNew(game_lobby'[i].TTTGame, x, o)
         \/ /\ i \in Games(game_lobby) /\ game_lobby[i].game_type # TTT_GAME
            /\ game_lobby'[i].game_type # TTT_GAME
         \/ /\ i \in Games(game_lobby) /\ i \in Games(game_lobby')
            /\ game_lobby[i].game_type = TTT_GAME /\ game_lobby'[i].game_type = TTT_GAME
            /\ \E e \in TTTRecords, move \in -128..127 :
                 /\ game_lobby[i].TTTGame \in TTTRecords
                 /\ e = [game_lobby[i].TTTGame EXCEPT !.received_move = move]
                 /\ Sound(e)
                 /\ game_lobby'[i].TTTGame = Mainaroo(e).env
<1>0. /\ Len(game_lobby) \in Nat /\ Len(game_lobby) >= 1 /\ game_lobby \in Seq(Nodes)
      /\ \A j \in Games(game_lobby) : j \in 1..Len(game_lobby) /\ j # 1
  BY BoundsAssumption DEF IInv, ListFits, Games
<1> DEFINE Stays == /\ i \in Games(game_lobby') <=> i \in Games(game_lobby)
                    /\ i \in Games(game_lobby) => game_lobby'[i] = game_lobby[i]
           Starts == /\ i \notin Games(game_lobby)
                     /\ game_lobby'[i].game_type = TTT_GAME =>
                          \E x, o \in Nat : IsNew(game_lobby'[i].TTTGame, x, o)
           IsOther == /\ i \in Games(game_lobby) /\ game_lobby[i].game_type # TTT_GAME
                      /\ game_lobby'[i].game_type # TTT_GAME
           IsPlayed == /\ i \in Games(game_lobby) /\ i \in Games(game_lobby')
                       /\ game_lobby[i].game_type = TTT_GAME
                       /\ game_lobby'[i].game_type = TTT_GAME
                       /\ \E e \in TTTRecords, move \in -128..127 :
                            /\ game_lobby[i].TTTGame \in TTTRecords
                            /\ e = [game_lobby[i].TTTGame EXCEPT !.received_move = move]
                            /\ Sound(e)
                            /\ game_lobby'[i].TTTGame = Mainaroo(e).env
<1>1. ASSUME NEW place, NEW node, NewNode(game_lobby, game_lobby', place, node), i # place
      PROVE  Stays
  BY <1>0, <1>1 DEF NewNode, Games
<1>2. ASSUME NEW fd \in Fds, NEW request \in Requests, PlayTTT(fd, request)
      PROVE  Stays \/ IsPlayed
  <2>1. PICK e, turn, node :
          /\ e \in TTTRecords
          /\ Addressed \in Games(game_lobby) /\ IsTTT(Addressed)
          /\ e = [game_lobby[Addressed].TTTGame EXCEPT
                    !.received_move = received_data'.payload_first_byte]
          /\ Sound(e)
          /\ turn = Mainaroo(e)
          /\ node = [game_lobby[Addressed] EXCEPT !.TTTGame = turn.env]
          /\ NewNode(game_lobby, game_lobby', Addressed, node)
    BY <1>2, PlayTTTStep
  <2>2. CASE i = Addressed
    <3>1. i \in 1..Len(game_lobby) /\ i \in Games(game_lobby)
      BY <1>0, <2>1, <2>2
    <3>2. i \in Games(game_lobby') /\ game_lobby'[i] = node
      BY <2>1, <2>2, <3>1 DEF NewNode, Games
    <3>3. game_lobby[i] \in Nodes /\ game_lobby[i].TTTGame \in TTTRecords
      BY <1>0, <3>1, NodeTypes
    <3>4. node.game_type = game_lobby[i].game_type /\ node.TTTGame = turn.env
      BY <2>1, <2>2, <3>3 DEF Nodes
    <3>5. received_data'.payload_first_byte \in -128..127
      BY <1>2, ReceivesTypes DEF PlayTTT, Requested
    <3>6. /\ game_lobby[i].game_type = TTT_GAME /\ game_lobby'[i].game_type = TTT_GAME
          /\ game_lobby'[i].TTTGame = Mainaroo(e).env
      BY <2>1, <2>2, <3>2, <3>4 DEF IsTTT
    <3>7. e = [game_lobby[i].TTTGame EXCEPT !.received_move = received_data'.payload_first_byte]
      BY <2>1, <2>2
    <3> QED BY <2>1, <3>1, <3>2, <3>3, <3>5, <3>6, <3>7
  <2> QED BY <1>1, <2>1, <2>2
<1>3. ASSUME NEW fd \in Fds, NEW request \in Requests, PlayRPS(fd, request)
      PROVE  Stays \/ IsOther
  <2>1. PICK turn, node :
          /\ Addressed \in 1..Len(game_lobby) /\ ~IsTTT(Addressed)
          /\ node = [game_lobby[Addressed] EXCEPT !.RPSGame = turn.env]
          /\ NewNode(game_lobby, game_lobby', Addressed, node)
    BY <1>3, PlayRPSStep
  <2>2. CASE i = Addressed
    <3>1. i \in Games(game_lobby) /\ game_lobby'[i] = node /\ game_lobby[i] \in Nodes
      BY <1>0, <2>1, <2>2, NodeTypes DEF NewNode, Games
    <3>2. node.game_type = game_lobby[i].game_type
      BY <2>1, <2>2, <3>1 DEF Nodes
    <3> QED BY <2>1, <2>2, <3>1, <3>2 DEF IsTTT
  <2> QED BY <1>1, <2>1, <2>2
<1>4. ASSUME NEW node, Added(node),
             node.game_type = TTT_GAME => \E x, o \in Nat : IsNew(node.TTTGame, x, o)
      PROVE  Stays \/ Starts
  <2>1. CASE i = Len(game_lobby) + 1
    BY <1>0, <1>4, <2>1 DEF Added, Games
  <2>2. CASE i # Len(game_lobby) + 1
    BY <1>0, <1>4, <2>2 DEF Added, Games
  <2> QED BY <2>1, <2>2
<1>5. ASSUME NEW fd \in Fds, NEW request \in Requests, NewConnection(fd, request)
      PROVE  Stays \/ Starts
  <2>1. /\ unique_game_id \in Int
        /\ OnlyTheLobby(fd) \/ PairedTTT(fd) \/ PairedRPS(fd)
    BY <1>5, NewConnectionStep DEF Asked
  <2>2. CASE OnlyTheLobby(fd)
    BY <2>2 DEF OnlyTheLobby, Games
  <2>3. CASE PairedTTT(fd)
    <3> DEFINE ttt == game_lobby[1].TTTGame
               node == TTTNode(ttt, fd, unique_game_id)
               game == NewTTTGame(ttt.client_x, ttt.client_x_uid, fd, unique_game_id)
    <3>1. ttt.client_x \in Nat /\ ttt.client_x_uid \in Int /\ fd \in Nat /\ Added(node)
      BY <2>3, FdsAreNats DEF PairedTTT, TTTRecords
    <3>2. node.TTTGame = game
      BY DEF TTTNode, Node
    <3>3. game = NewTTTGame(ttt.client_x, ttt.client_x_uid, fd, unique_game_id)
      OBVIOUS
    <3> HIDE DEF game, ttt, node
    <3>4. IsNew(game, ttt.client_x, fd)
      BY <2>1, <3>1, <3>3, NewGameSound
    <3>5. \E x, o \in Nat : IsNew(node.TTTGame, x, o)
      BY <3>1, <3>2, <3>4
    <3> QED BY <1>4, <3>1, <3>5
  <2>4. CASE PairedRPS(fd)
    <3>1. /\ Added(RPSNode(game_lobby[1].RPSGame, fd, unique_game_id))
          /\ RPSNode(game_lobby[1].RPSGame, fd, unique_game_id).game_type # TTT_GAME
      BY <2>4 DEF PairedRPS, RPSNode, Node
    <3> QED BY <1>4, <3>1
  <2> QED BY <2>1, <2>2, <2>3, <2>4
<1>6. ASSUME \/ Unasked
             \/ \E fd \in Fds, request \in Requests :
                  UnknownGame(fd, request) \/ PlayTTTOutOfTurn(fd, request)
      PROVE  Stays
  <2>1. game_lobby' = game_lobby
    BY <1>6, UnaskedIsQuiet DEF UnknownGame, PlayTTTOutOfTurn
  <2> QED BY <2>1
<1>7. Stays \/ Starts \/ IsOther \/ IsPlayed
  <2> HIDE DEF Stays, Starts, IsOther, IsPlayed
  <2> QED BY <1>2, <1>3, <1>5, <1>6, Steps DEF Request
<1> QED BY <1>7

\* How NoughtsAndCrosses sees a place in the list, before and after a step.
LEMMA SeenAs ==
  ASSUME NEW i
  PROVE  /\ IsOrdinaryTTT(i) <=> Hosts(game_lobby, i)
         /\ IsOrdinaryTTT(i)' <=> Hosts(game_lobby', i)
         /\ MarksIn(i) = Shown(game_lobby[i].TTTGame)
         /\ MarksIn(i)' = Shown(game_lobby'[i].TTTGame)
         /\ \A fd : PlayerIn(i, fd) = Side(game_lobby[i].TTTGame, fd)
         /\ \A fd : PlayerIn(i, fd)' = Side(game_lobby'[i].TTTGame, fd)
<1>1. /\ \A fd : PlayerIn(i, fd) = Side(game_lobby[i].TTTGame, fd)
      /\ \A fd : PlayerIn(i, fd)' = Side(game_lobby'[i].TTTGame, fd)
  BY DEF PlayerIn, Side
<1>2. /\ MarksIn(i) = Shown(game_lobby[i].TTTGame)
      /\ MarksIn(i)' = Shown(game_lobby'[i].TTTGame)
  BY DEF MarksIn, Shown, PlayerIn, Side
<1>3. IsOrdinaryTTT(i) <=> Hosts(game_lobby, i)
  BY OrdinaryPair DEF IsOrdinaryTTT, Hosts, IsTTT, TTTPlayers, Ordinary
<1>4. IsOrdinaryTTT(i)' <=> Hosts(game_lobby', i)
  BY OrdinaryPair DEF IsOrdinaryTTT, Hosts, IsTTT, TTTPlayers, Ordinary
<1> QED BY <1>1, <1>2, <1>3, <1>4

\* A place where no ordinary game is, or a new one, looks like a game nobody has moved in.
LooksNew(games, i) ==
  Hosts(games, i) =>
    /\ Shown(games[i].TTTGame) = [c \in Cells |-> "free"]
    /\ Side(games[i].TTTGame, games[i].TTTGame.fd_current_player) = "x"
    /\ games[i].TTTGame.game_over = FALSE

\* A turn that changes nothing in the game, and one that is a move.
SeenSame(e, f) ==
  /\ Shown(f) = Shown(e)
  /\ Side(f, f.fd_current_player) = Side(e, e.fd_current_player)
  /\ f.game_over <=> e.game_over

SeenMove(e, f, c) ==
  /\ Shown(e)[c] = "free"
  /\ Shown(f) = [Shown(e) EXCEPT ![c] = Side(e, e.fd_current_player)]
  /\ IF IsDecided(Shown(f))
       THEN f.game_over /\ Side(f, f.fd_current_player) = Side(e, e.fd_current_player)
       ELSE /\ f.game_over <=> e.game_over
            /\ Side(f, f.fd_current_player)
                 = IF Side(e, e.fd_current_player) = "x" THEN "o" ELSE "x"

\* What a turn on a request does to an ordinary game.
LEMMA TurnSeen ==
  ASSUME NEW e \in TTTRecords, NEW move \in -128..127,
         NEW d, d = [e EXCEPT !.received_move = move], Sound(d),
         NEW f, f = Mainaroo(d).env
  PROVE  /\ Ordinary(d) <=> Ordinary(e)
         /\ Ordinary(f) <=> Ordinary(e)
         /\ Ordinary(e) => SeenSame(e, f) \/ \E c \in Cells : SeenMove(e, f, c)
<1>1. /\ d \in TTTRecords
      /\ d.client_x = e.client_x /\ d.client_o = e.client_o
      /\ d.fd_current_player = e.fd_current_player /\ d.game_board = e.game_board
      /\ d.game_over = e.game_over
      /\ Ordinary(d) <=> Ordinary(e)
  BY MoveReceived
<1>2. f \in TTTRecords /\ SameGame(d, f)
  BY <1>1, MainarooGame
<1>3. Ordinary(f) <=> Ordinary(e)
  BY <1>1, <1>2 DEF SameGame, Ordinary
<1>4. /\ Shown(d) = Shown(e)
      /\ \A fd : Side(d, fd) = Side(e, fd) /\ Side(f, fd) = Side(e, fd)
  BY <1>1, <1>2 DEF Shown, Side, SameGame
<1>5. ASSUME f = d PROVE SeenSame(e, f)
  BY <1>1, <1>4, <1>5 DEF SeenSame
<1>6. ASSUME Ordinary(d), NEW c \in Cells,
             Shown(d)[c] = "free",
             Shown(f) = [Shown(d) EXCEPT ![c] = Side(d, d.fd_current_player)],
             IF IsDecided(Shown(f))
               THEN f.game_over /\ f.fd_current_player = d.fd_current_player
               ELSE (f.game_over <=> d.game_over) /\ f.fd_current_player = OtherPlayer(d)
      PROVE  SeenMove(e, f, c)
  <2>1. Side(d, OtherPlayer(d)) = IF Side(d, d.fd_current_player) = "x" THEN "o" ELSE "x"
    BY <1>6 DEF Side, OtherPlayer, Ordinary, Sound, Theirs
  <2>2. Shown(e)[c] = "free" /\ Shown(f) = [Shown(e) EXCEPT ![c] = Side(e, e.fd_current_player)]
    BY <1>1, <1>4, <1>6
  <2>3. CASE IsDecided(Shown(f))
    BY <1>1, <1>4, <1>6, <2>2, <2>3 DEF SeenMove
  <2>4. CASE ~IsDecided(Shown(f))
    <3>1. (f.game_over <=> e.game_over) /\ f.fd_current_player = OtherPlayer(d)
      BY <1>1, <1>6, <2>4
    <3>2. Side(f, f.fd_current_player) = IF Side(e, e.fd_current_player) = "x" THEN "o" ELSE "x"
      BY <1>1, <1>4, <2>1, <3>1
    <3> QED BY <2>2, <2>4, <3>1, <3>2 DEF SeenMove
  <2> QED BY <2>3, <2>4
<1>7. Ordinary(d) => f = d \/ \E c \in Cells :
        /\ Shown(d)[c] = "free"
        /\ Shown(f) = [Shown(d) EXCEPT ![c] = Side(d, d.fd_current_player)]
        /\ IF IsDecided(Shown(f))
             THEN f.game_over /\ f.fd_current_player = d.fd_current_player
             ELSE (f.game_over <=> d.game_over) /\ f.fd_current_player = OtherPlayer(d)
  <2> DEFINE turn == Mainaroo(d)
  <2>1. turn = Mainaroo(d) /\ f = turn.env
    OBVIOUS
  <2>2. d \in TTTRecords /\ Sound(d)
    BY <1>1
  <2> HIDE DEF turn
  <2>3. Ordinary(d) => turn.env = d \/ \E c \in Cells :
          /\ Shown(d)[c] = "free"
          /\ Shown(turn.env) = [Shown(d) EXCEPT ![c] = Side(d, d.fd_current_player)]
          /\ IF IsDecided(Shown(turn.env))
               THEN turn.env.game_over /\ turn.env.fd_current_player = d.fd_current_player
               ELSE /\ turn.env.game_over <=> d.game_over
                    /\ turn.env.fd_current_player = OtherPlayer(d)
    BY ONLY <2>1, <2>2, MainarooPlays
  <2> QED BY <2>1, <2>3
<1>8. Ordinary(d) => SeenSame(e, f) \/ \E c \in Cells : SeenMove(e, f, c)
  BY <1>5, <1>6, <1>7
<1> QED BY <1>1, <1>3, <1>8

\* What a step does to one place in the list, as NoughtsAndCrosses sees it.
LEMMA PlaceSeen ==
  ASSUME IInv, Next, NEW i \in Nat, i >= 2,
         NEW e, e = game_lobby[i].TTTGame, NEW f, f = game_lobby'[i].TTTGame
  PROVE  \/ ~Hosts(game_lobby, i) /\ LooksNew(game_lobby', i)
         \/ /\ Hosts(game_lobby, i) /\ Hosts(game_lobby', i)
            /\ SeenSame(e, f) \/ \E c \in Cells : SeenMove(e, f, c)
<1>1. CASE /\ i \in Games(game_lobby') <=> i \in Games(game_lobby)
           /\ i \in Games(game_lobby) => game_lobby'[i] = game_lobby[i]
  <2>1. CASE Hosts(game_lobby, i)
    BY <1>1, <2>1 DEF Hosts, SeenSame
  <2>2. CASE ~Hosts(game_lobby, i)
    BY <1>1, <2>2 DEF Hosts, LooksNew
  <2> QED BY <2>1, <2>2
<1>2. CASE /\ i \notin Games(game_lobby)
           /\ game_lobby'[i].game_type = TTT_GAME =>
                \E x, o \in Nat : IsNew(game_lobby'[i].TTTGame, x, o)
  BY <1>2 DEF Hosts, LooksNew, IsNew, Side
<1>3. CASE /\ i \in Games(game_lobby) /\ game_lobby[i].game_type # TTT_GAME
           /\ game_lobby'[i].game_type # TTT_GAME
  BY <1>3 DEF Hosts, LooksNew
<1>4. CASE /\ i \in Games(game_lobby) /\ i \in Games(game_lobby')
           /\ game_lobby[i].game_type = TTT_GAME /\ game_lobby'[i].game_type = TTT_GAME
           /\ \E d \in TTTRecords, move \in -128..127 :
                /\ game_lobby[i].TTTGame \in TTTRecords
                /\ d = [game_lobby[i].TTTGame EXCEPT !.received_move = move]
                /\ Sound(d)
                /\ game_lobby'[i].TTTGame = Mainaroo(d).env
  <2>1. PICK d \in TTTRecords, move \in -128..127 :
          /\ e \in TTTRecords
          /\ d = [e EXCEPT !.received_move = move]
          /\ Sound(d) /\ f = Mainaroo(d).env
    BY <1>4
  <2>2. /\ Ordinary(f) <=> Ordinary(e)
        /\ Ordinary(e) => SeenSame(e, f) \/ \E c \in Cells : SeenMove(e, f, c)
    BY <2>1, TurnSeen
  <2> QED BY <1>4, <2>2 DEF Hosts, LooksNew
<1> QED BY <1>1, <1>2, <1>3, <1>4, PlaceSteps

\* Each game is one of NoughtsAndCrosses from the moment it is added, whatever else the
\* server is asked meanwhile (main, mainaroo).
THEOREM GamesPlay == Spec => EveryGamePlaysNoughtsAndCrosses
<1>1. Init => \A i \in 2..(MaxGames + 1) : Game(i)!Init
  <2> SUFFICES ASSUME Init, NEW i \in 2..(MaxGames + 1) PROVE Game(i)!Init
    OBVIOUS
  <2>1. ~IsOrdinaryTTT(i)
    BY DEF Init, InitLobbies, IsOrdinaryTTT, Games
  <2> QED BY <2>1 DEF Game!Init, Game!Squares, Cells
<1>2. ASSUME IInv, Next, NEW i \in 2..(MaxGames + 1)
      PROVE  UNCHANGED Game(i)!vars \/ Game(i)!Next
  <2> DEFINE e == game_lobby[i].TTTGame
             f == game_lobby'[i].TTTGame
  <2>0. i \in Nat /\ i >= 2
    BY BoundsAssumption
  <2>1. /\ IsOrdinaryTTT(i) <=> Hosts(game_lobby, i)
        /\ IsOrdinaryTTT(i)' <=> Hosts(game_lobby', i)
        /\ MarksIn(i) = Shown(e) /\ MarksIn(i)' = Shown(f)
        /\ PlayerIn(i, game_lobby[i].TTTGame.fd_current_player) = Side(e, e.fd_current_player)
        /\ PlayerIn(i, game_lobby[i].TTTGame.fd_current_player)' = Side(f, f.fd_current_player)
    BY SeenAs
  <2>2. CASE ~Hosts(game_lobby, i) /\ LooksNew(game_lobby', i)
    BY <2>1, <2>2 DEF LooksNew, Game!vars
  <2>3. CASE Hosts(game_lobby, i) /\ Hosts(game_lobby', i) /\ SeenSame(e, f)
    BY <2>1, <2>3 DEF SeenSame, Game!vars
  <2>4. ASSUME Hosts(game_lobby, i), Hosts(game_lobby', i), NEW c \in Cells, SeenMove(e, f, c)
        PROVE  Game(i)!Next
    <3>1. Game(i)!Decided(Shown(f)) <=> IsDecided(Shown(f))
      BY DEF Game!Decided, Game!Lines, Game!Players, Game!Squares, IsDecided, LineSets, Cells
    <3>2. /\ Shown(e)[c] = "free"
          /\ Shown(f) = [Shown(e) EXCEPT ![c] = Side(e, e.fd_current_player)]
          /\ IF IsDecided(Shown(f))
               THEN f.game_over /\ Side(f, f.fd_current_player) = Side(e, e.fd_current_player)
               ELSE /\ f.game_over <=> e.game_over
                    /\ Side(f, f.fd_current_player)
                         = IF Side(e, e.fd_current_player) = "x" THEN "o" ELSE "x"
      BY <2>4 DEF SeenMove
    <3>3. Game(i)!Play(c)
      BY <2>1, <2>4, <3>1, <3>2 DEF Game!Play, Game!Opponent
    <3> QED BY <3>3 DEF Game!Next, Game!Squares, Cells
  <2> QED BY <1>2, <2>0, <2>2, <2>3, <2>4, PlaceSeen
<1>3. IInv /\ [Next]_vars =>
        [\A i \in 2..(MaxGames + 1) : UNCHANGED Game(i)!vars \/ Game(i)!Next]_vars
  BY <1>2
<1> QED BY <1>1, <1>3, Invariance, PTL DEF Spec, EveryGamePlaysNoughtsAndCrosses

-----------------------------------------------------------------------------
(* Who is told something.                                                  *)

\* The head's ids, which init_lobbies leaves unset, are not ids that a request can name:
\* 0 is read as a request for a new game.
NoStrayIds == \A v \in Unset : v <= 0

\* A play leaves the players of every game as they are.
LEMMA PlayersStay ==
  ASSUME IInv, NEW fd \in Fds, NEW request \in Requests,
         PlayTTT(fd, request) \/ PlayRPS(fd, request)
  PROVE  /\ Games(game_lobby') = Games(game_lobby)
         /\ \A i \in Games(game_lobby) : PlayersOf(i)' = PlayersOf(i)
<1>0. /\ game_lobby \in Seq(Nodes)
      /\ \A i \in Games(game_lobby) : i \in 1..Len(game_lobby)
  BY DEF IInv, ListFits, Games
<1>1. ASSUME NEW place \in 1..Len(game_lobby), NEW node, NewNode(game_lobby, game_lobby', place, node),
             node.game_type = game_lobby[place].game_type,
             node.TTTGame.client_x = game_lobby[place].TTTGame.client_x,
             node.TTTGame.client_o = game_lobby[place].TTTGame.client_o,
             node.RPSGame.fd_client_player_one = game_lobby[place].RPSGame.fd_client_player_one,
             node.RPSGame.fd_client_player_two = game_lobby[place].RPSGame.fd_client_player_two
      PROVE  /\ Games(game_lobby') = Games(game_lobby)
             /\ \A i \in Games(game_lobby) : PlayersOf(i)' = PlayersOf(i)
  <2>1. Games(game_lobby') = Games(game_lobby)
    BY <1>1 DEF NewNode, Games
  <2>2. ASSUME NEW i \in Games(game_lobby) PROVE PlayersOf(i)' = PlayersOf(i)
    <3>1. game_lobby'[i] = IF i = place THEN node ELSE game_lobby[i]
      BY <1>0, <1>1 DEF NewNode
    <3> QED BY <1>1, <3>1 DEF PlayersOf, IsTTT, TTTPlayers, RPSPlayers
  <2> QED BY <2>1, <2>2
<1>2. CASE PlayTTT(fd, request)
  <2>1. PICK e, turn, node :
          /\ e \in TTTRecords
          /\ Addressed \in Games(game_lobby)
          /\ e = [game_lobby[Addressed].TTTGame EXCEPT
                    !.received_move = received_data'.payload_first_byte]
          /\ Sound(e)
          /\ turn = Mainaroo(e)
          /\ node = [game_lobby[Addressed] EXCEPT !.TTTGame = turn.env]
          /\ NewNode(game_lobby, game_lobby', Addressed, node)
    BY <1>2, PlayTTTStep
  <2>2. /\ Addressed \in 1..Len(game_lobby) /\ game_lobby[Addressed] \in Nodes
        /\ game_lobby[Addressed].TTTGame \in TTTRecords
    BY <1>0, <2>1, NodeTypes
  <2>3. SameGame(e, turn.env)
    BY <2>1, MainarooGame
  <2>4. /\ turn.env.client_x = game_lobby[Addressed].TTTGame.client_x
        /\ turn.env.client_o = game_lobby[Addressed].TTTGame.client_o
    BY <2>1, <2>2, <2>3 DEF SameGame, TTTRecords
  <2>5. /\ node.game_type = game_lobby[Addressed].game_type /\ node.TTTGame = turn.env
        /\ node.RPSGame = game_lobby[Addressed].RPSGame
    BY <2>1, <2>2 DEF Nodes
  <2> QED BY <1>1, <2>1, <2>2, <2>4, <2>5
<1>3. CASE PlayRPS(fd, request)
  <2>1. PICK e, turn, node :
          /\ e \in RPSRecords
          /\ Addressed \in 1..Len(game_lobby)
          /\ e = [game_lobby[Addressed].RPSGame EXCEPT
                    !.fd_current_client = fd,
                    !.move_received = received_data'.payload_first_byte]
          /\ TurnOf(e, turn.env, turn.out)
          /\ node = [game_lobby[Addressed] EXCEPT !.RPSGame = turn.env]
          /\ NewNode(game_lobby, game_lobby', Addressed, node)
    BY <1>3, PlayRPSStep
  <2>2. game_lobby[Addressed] \in Nodes /\ game_lobby[Addressed].RPSGame \in RPSRecords
    BY <1>0, <2>1, NodeTypes
  <2>3. /\ turn.env.fd_client_player_one = game_lobby[Addressed].RPSGame.fd_client_player_one
        /\ turn.env.fd_client_player_two = game_lobby[Addressed].RPSGame.fd_client_player_two
    BY <2>1, <2>2 DEF TurnOf, SamePlayers, RPSRecords
  <2>4. /\ node.game_type = game_lobby[Addressed].game_type /\ node.RPSGame = turn.env
        /\ node.TTTGame = game_lobby[Addressed].TTTGame
    BY <2>1, <2>2 DEF Nodes
  <2> QED BY <1>1, <2>1, <2>2, <2>3, <2>4
<1> QED BY <1>2, <1>3

\* Under an id that a request can name there is a game, never the lobbies.
LEMMA NamesAGame ==
  ASSUME NoStrayIds, IInv, NEW fd \in Fds, NEW request \in Requests, Receives(fd, request),
         received_data'.uid # 0, Addressed # NoLink
  PROVE  /\ Addressed \in Games(game_lobby)
         /\ IsEitherUid(game_lobby[Addressed], received_data'.uid)
<1>0. Len(game_lobby) \in Nat /\ Len(game_lobby) >= 1 /\ HeadFits(game_lobby[1], unique_game_id)
  BY BoundsAssumption DEF IInv, ListFits
<1>1. Addressed \in 1..Len(game_lobby) /\ IsEitherUid(game_lobby[Addressed], received_data'.uid)
  BY <1>0, LookupResult DEF Addressed
<1>2. received_data'.uid \in 0..255
  BY ReceivesTypes
<1>3. \A v \in Unset : v \in Int /\ v <= 0
  BY UnsetAssumption DEF NoStrayIds
<1>4. Addressed # 1
  <2>1. ASSUME NEW head, HeadFits(head, unique_game_id), IsEitherUid(head, received_data'.uid)
        PROVE  FALSE
    BY <1>2, <1>3, <2>1 DEF HeadFits, IsEitherUid
  <2> QED BY <1>0, <1>1, <2>1
<1> QED BY <1>0, <1>1, <1>4 DEF Games

\* Whoever is told something is the client who asked, or plays in a game it asked about.
ToldOfTheirGame(m) ==
  \/ out'[m].to = cfd'
  \/ \E i \in Games(game_lobby') \cap Concerned :
       /\ out'[m].to \in PlayersOf(i)'
       /\ i > Len(game_lobby) \/ IsEitherUid(game_lobby[i], received_data'.uid)

\* The players of a game that is added are told of it, and nobody else.
LEMMA AddedTold ==
  ASSUME IInv, NEW fd \in Fds, unique_game_id \in Int, received_data'.uid = 0, cfd' = fd,
         PairedTTT(fd) \/ PairedRPS(fd),
         NEW m \in 1..Len(out')
  PROVE  ToldOfTheirGame(m)
<1>0. Len(game_lobby) \in Nat /\ Len(game_lobby) >= 1
  BY BoundsAssumption DEF IInv, ListFits
<1> PICK i \in Nat : i = Len(game_lobby) + 1
  BY <1>0
<1> DEFINE uid == unique_game_id
           node == game_lobby'[i]
<1>1. Len(game_lobby') = i
  BY DEF PairedTTT, PairedRPS, Added
<1>2. i \in Games(game_lobby') \cap Concerned /\ i > Len(game_lobby)
  BY <1>0, <1>1 DEF Games, Concerned
<1>3. ASSUME NEW other, other \in PlayersOf(i)', out'[m].to \in {fd, other}
      PROVE  ToldOfTheirGame(m)
  BY <1>2, <1>3 DEF ToldOfTheirGame
<1>4. ASSUME NEW m1 \in Messages, NEW m2 \in Messages, NEW m3 \in Messages,
             out' = << m1 >> \o << m2, m3 >>
      PROVE  out'[m] \in {m1, m2, m3}
  <2>1. Len(out') = 3 /\ out'[1] = m1 /\ out'[2] = m2 /\ out'[3] = m3
    BY <1>4, ThreeMessages
  <2>2. m \in 1..3
    BY <2>1
  <2> QED BY <2>1, <2>2
<1>5. CASE PairedTTT(fd)
  <2> DEFINE x == game_lobby[1].TTTGame.client_x
             m1 == Msg(fd, "NEW_GAME", uid)
             m2 == Msg(fd, "START_GAME", O)
             m3 == Msg(x, "START_GAME", X)
  <2>1. /\ node = TTTNode(game_lobby[1].TTTGame, fd, uid) /\ x \in Nat
        /\ out' = << m1 >> \o << m2, m3 >>
    BY <1>5 DEF PairedTTT, Added, SendNewGameCode, SendStartTTT, TTTRecords
  <2>2. node.game_type = TTT_GAME /\ node.TTTGame.client_x = x
    BY <2>1 DEF TTTNode, Node, NewTTTGame
  <2>3. x \in PlayersOf(i)'
    BY <2>2 DEF PlayersOf, IsTTT, TTTPlayers
  <2>4. m1 \in Messages /\ m2 \in Messages /\ m3 \in Messages
    BY <2>1, FdsAreNats DEF Msg, Messages, Codes, X, O
  <2>5. out'[m] \in {m1, m2, m3}
    BY <1>4, <2>1, <2>4
  <2>6. out'[m].to \in {fd, x}
    BY <2>5 DEF Msg
  <2> QED BY <1>3, <2>3, <2>6
<1>6. CASE PairedRPS(fd)
  <2> DEFINE one == game_lobby[1].RPSGame.fd_client_player_one
             m1 == Msg(fd, "NEW_GAME", uid)
             m2 == Msg(one, "START_GAME", 0)
             m3 == Msg(fd, "START_GAME", 0)
  <2>1. /\ node = RPSNode(game_lobby[1].RPSGame, fd, uid) /\ one \in Nat
        /\ out' = << m1 >> \o SendStartRPS(one, fd)
    BY <1>6 DEF PairedRPS, Added, SendNewGameCode, RPSRecords
  <2>2. node.game_type = RPS_GAME /\ node.RPSGame.fd_client_player_one = one
    BY <2>1 DEF RPSNode, Node, NewRPSGame
  <2>3. one \in PlayersOf(i)'
    BY <2>2 DEF PlayersOf, IsTTT, RPSPlayers
  <2>4. m1 \in Messages /\ m2 \in Messages /\ m3 \in Messages
    BY <2>1, FdsAreNats DEF Msg, Messages, Codes
  <2>5. out'[m] \in {m1, m2, m3}
    <3>1. CASE one # fd
      <4>1. out' = << m1 >> \o << m2, m3 >>
        BY <2>1, <3>1 DEF SendStartRPS
      <4> QED BY <1>4, <2>4, <4>1
    <3>2. CASE one = fd
      <4>1. out' = << m1 >>
        BY <2>1, <3>2 DEF SendStartRPS
      <4> HIDE DEF m1
      <4> QED BY <4>1
    <3> QED BY <3>1, <3>2
  <2>6. out'[m].to \in {fd, one}
    BY <2>5 DEF Msg
  <2> QED BY <1>3, <2>3, <2>6
<1> QED BY <1>5, <1>6

\* That holds of every message that handling a request sends.
LEMMA RequestTells ==
  ASSUME NoStrayIds, IInv, NEW fd \in Fds, NEW request \in Requests, Request(fd, request),
         NEW m \in 1..Len(out')
  PROVE  ToldOfTheirGame(m)
<1>1. ASSUME out' = << >> PROVE FALSE
  BY <1>1
<1>2. ASSUME NEW msg, out' = << msg >>, msg.to = cfd' PROVE ToldOfTheirGame(m)
  BY <1>2 DEF ToldOfTheirGame
<1>3. CASE NewConnection(fd, request)
  <2>1. /\ received_data'.uid = 0 /\ cfd' = fd /\ unique_game_id \in Int
        /\ OnlyTheLobby(fd) \/ PairedTTT(fd) \/ PairedRPS(fd)
    BY <1>3, NewConnectionStep DEF Asked
  <2>2. CASE OnlyTheLobby(fd)
    <3>1. Msg(fd, "NEW_GAME", unique_game_id).to = cfd'
      BY <2>1 DEF Msg
    <3> QED BY <1>1, <1>2, <2>2, <3>1 DEF OnlyTheLobby, SendNewGameCode
  <2> QED BY <2>1, <2>2, AddedTold
<1>4. CASE UnknownGame(fd, request)
  BY <1>1, <1>4 DEF UnknownGame, Sends
<1>5. CASE PlayTTTOutOfTurn(fd, request)
  <2>1. /\ out' = << Msg(fd, "OUT_OF_TURN", 0) >> /\ cfd' = fd
    BY <1>5 DEF PlayTTTOutOfTurn, Sends, Receives
  <2>2. Msg(fd, "OUT_OF_TURN", 0).to = cfd'
    BY <2>1 DEF Msg
  <2> QED BY <1>2, <2>1, <2>2
<1>6. CASE PlayTTT(fd, request) \/ PlayRPS(fd, request)
  <2>1. Receives(fd, request) /\ received_data'.uid # 0 /\ Addressed # NoLink
    BY <1>6 DEF PlayTTT, PlayRPS
  <2>2. PICK i \in Games(game_lobby) :
          i = Addressed /\ IsEitherUid(game_lobby[i], received_data'.uid)
    BY <2>1, NamesAGame
  <2>3. i \in Games(game_lobby') \cap Concerned /\ PlayersOf(i)' = PlayersOf(i)
    <3>1. Games(game_lobby') = Games(game_lobby) /\ PlayersOf(i)' = PlayersOf(i)
      BY <1>6, PlayersStay
    <3> QED BY <2>1, <2>2, <3>1 DEF Concerned
  <2>4. SentTo(out', {cfd'} \cup PlayersOf(i))
    <3>1. CASE PlayTTT(fd, request)
      <4>1. PICK turn : SentTo(turn.out, PlayersOf(i)) /\ Sends(turn.out)
        BY <2>2, <3>1, PlayTTTStep
      <4> QED BY <4>1 DEF SentTo, Sends
    <3>2. CASE PlayRPS(fd, request)
      <4>1. PICK e, turn :
              /\ e \in RPSRecords
              /\ ~IsTTT(i) /\ cfd' = fd
              /\ e = [game_lobby[i].RPSGame EXCEPT
                        !.fd_current_client = fd,
                        !.move_received = received_data'.payload_first_byte]
              /\ TurnOf(e, turn.env, turn.out)
              /\ out' = turn.out
        BY <2>2, <3>2, PlayRPSStep
      <4>2. game_lobby[i].RPSGame \in RPSRecords
        <5>1. game_lobby \in Seq(Nodes) /\ i \in 1..Len(game_lobby)
          BY <2>2 DEF IInv, ListFits, Games
        <5> QED BY <5>1, NodeTypes
      <4>3. Concerns(e) = {cfd'} \cup PlayersOf(i)
        <5>1. PlayersOf(i) = RPSPlayers(i)
          BY <4>1 DEF PlayersOf
        <5> QED BY <4>1, <4>2, <5>1 DEF Concerns, RPSPlayers, RPSRecords
      <4> QED BY <4>1, <4>3 DEF TurnOf
    <3> QED BY <1>6, <3>1, <3>2
  <2>5. out'[m].to \in {cfd'} \cup PlayersOf(i)
    BY <2>4 DEF SentTo
  <2> QED BY <2>2, <2>3, <2>5 DEF ToldOfTheirGame
<1> QED BY <1>3, <1>4, <1>5, <1>6 DEF Request

\* Nobody but the requester is sent anything, except the players of the game the request
\* named or started: of every message the server sends, if the head's ids cannot be named.
THEOREM TalkStays ==
  ASSUME NoStrayIds
  PROVE  Spec => TalkStaysInTheGame
<1> DEFINE Stays ==
      \A m \in 1..Len(out') : out'[m].to # cfd' =>
        \E i \in Games(game_lobby') :
          /\ out'[m].to \in PlayersOf(i)'
          /\ i > Len(game_lobby) \/ IsEitherUid(game_lobby[i], received_data'.uid)
<1>1. ASSUME IInv, NEW fd \in Fds, NEW request \in Requests, Request(fd, request) PROVE Stays
  <2>1. \A m \in 1..Len(out') : ToldOfTheirGame(m)
    BY <1>1, RequestTells
  <2> QED BY <2>1 DEF ToldOfTheirGame
<1>2. ASSUME Unasked PROVE Stays
  <2>1. out' = << >>
    BY <1>2, UnaskedIsQuiet
  <2> QED BY <2>1
<1>3. IInv /\ [Next]_vars => [Stays]_vars
  <2> HIDE DEF Stays
  <2> QED BY <1>1, <1>2, Steps
<1> QED BY <1>3, Invariance, PTL DEF Spec, TalkStaysInTheGame

\* SIGPIPE is raised only over somebody who has left, and is sent something.
LEMMA SigpipeRaised ==
  ASSUME IInv, NEW msgs, RaisesSigpipe(peer, msgs)
  PROVE  \E fd \in Fds : HasLeft(peer, fd) /\ \E m \in 1..Len(msgs) : msgs[m].to = fd
<1>1. PICK fd \in DOMAIN peer : HasLeft(peer, fd) /\ MessagesTo(fd, msgs) # {}
  BY FS_EmptySet DEF RaisesSigpipe, HasLeft
<1> QED BY <1>1 DEF IInv, MessagesTo

\* Nor does a request kill the server unless somebody its messages may go to has left,
\* or it is an illegal play.
THEOREM DeathsAccountedFor ==
  ASSUME NoStrayIds
  PROVE  Spec => DeathIsAccountedFor
<1> DEFINE Told == {cfd'} \cup UNION {PlayersOf(i)' : i \in Concerned \cap Games(game_lobby')}
           SomebodyLeft == \E fd \in Told : HasLeft(peer, fd)
           Illegal == /\ received_data'.uid # 0 /\ Addressed # NoLink /\ ~IsTTT(Addressed)
                      /\ ~IsValidPlay(game_lobby'[Addressed].RPSGame)
           Accounted == status' = "dead" /\ status = "running" => SomebodyLeft \/ Illegal
<1>1. ASSUME IInv, NEW fd \in Fds, NEW request \in Requests, Request(fd, request),
             RaisesSigpipe(peer, out')
      PROVE  SomebodyLeft
  <2>1. PICK g \in Fds, m \in 1..Len(out') : HasLeft(peer, g) /\ out'[m].to = g
    BY <1>1, SigpipeRaised
  <2>2. ToldOfTheirGame(m)
    BY <1>1, RequestTells
  <2>3. g \in Told
    BY <2>1, <2>2 DEF ToldOfTheirGame
  <2> QED BY <2>1, <2>3
<1>2. ASSUME IInv, NEW fd \in Fds, NEW request \in Requests, Request(fd, request), Sends(out'),
             status' = "dead", status = "running"
      PROVE  SomebodyLeft
  <2>1. RaisesSigpipe(peer, out')
    BY <1>2 DEF Sends
  <2> QED BY <1>1, <1>2, <2>1
<1>3. ASSUME IInv, NEW fd \in Fds, NEW request \in Requests, Request(fd, request)
      PROVE  Sends(out') \/ Illegal
  <2>1. CASE ~PlayRPS(fd, request)
    BY <1>3, <2>1 DEF Request, NewConnection, UnknownGame, PlayTTT, PlayTTTOutOfTurn, Sends
  <2>2. CASE PlayRPS(fd, request)
    <3>0. received_data'.uid # 0 /\ Addressed # NoLink /\ ~IsTTT(Addressed)
      BY <2>2 DEF PlayRPS
    <3>1. PICK e, turn, node :
            /\ e \in RPSRecords
            /\ Addressed \in 1..Len(game_lobby)
            /\ turn \in Mainzees(e)
            /\ TurnOf(e, turn.env, turn.out)
            /\ node = [game_lobby[Addressed] EXCEPT !.RPSGame = turn.env]
            /\ NewNode(game_lobby, game_lobby', Addressed, node)
            /\ out' = turn.out
            /\ turn.ending = "crashed" \/ Sends(turn.out)
      BY <1>3, <2>2, PlayRPSStep
    <3>2. CASE Sends(turn.out)
      BY <3>1, <3>2
    <3>3. CASE turn.ending = "crashed"
      <4>1. ~IsValidPlay(e)
        BY <3>1, <3>3, MainzeesTurn
      <4>2. turn.env.move_received = e.move_received
        BY <3>1 DEF TurnOf, SamePlayers
      <4>3. ~IsValidPlay(turn.env)
        BY <4>1, <4>2 DEF IsValidPlay
      <4>4. game_lobby'[Addressed].RPSGame = turn.env
        <5>1. game_lobby[Addressed] \in Nodes
          BY <1>3, <3>1, NodeTypes DEF IInv, ListFits
        <5>2. node.RPSGame = turn.env
          BY <3>1, <5>1 DEF Nodes
        <5> QED BY <3>1, <5>2 DEF NewNode
      <4> QED BY <3>0, <4>3, <4>4
    <3> QED BY <3>1, <3>2, <3>3
  <2> QED BY <2>1, <2>2
<1>4. ASSUME Unasked PROVE status' = status
  BY <1>4, UnaskedIsQuiet
<1>5. IInv /\ Next => Accounted
  <2>1. ASSUME IInv, NEW fd \in Fds, NEW request \in Requests, Request(fd, request) PROVE Accounted
    BY <1>2, <1>3, <2>1
  <2>2. ASSUME Unasked PROVE Accounted
    BY <1>4, <2>2
  <2> HIDE DEF Accounted
  <2> QED BY <2>1, <2>2, Steps
<1>6. IInv /\ [Next]_vars => [Accounted]_vars
  BY <1>5
<1> QED BY <1>6, Invariance, PTL DEF Spec, DeathIsAccountedFor

-----------------------------------------------------------------------------
(* Who is told nothing.                                                    *)

\* The first message there is goes to this client.
FirstTo(msgs, fd) == Len(msgs) >= 1 /\ msgs[1].to = fd

\* That is so of a message, whatever follows it.
LEMMA FirstMessage ==
  ASSUME NEW m \in Messages, NEW s \in Seq(Messages), NEW msgs, msgs \in {<< m >>, << m >> \o s}
  PROVE  FirstTo(msgs, m.to)
<1>1. CASE msgs = << m >>
  BY <1>1 DEF FirstTo
<1>2. CASE msgs = << m >> \o s
  <2>1. Len(msgs) >= 1 /\ msgs[1] = m
    BY <1>2
  <2> QED BY <2>1 DEF FirstTo
<1> QED BY <1>1, <1>2

\* The client is not left without an answer then.
LEMMA FirstIsTold ==
  ASSUME NEW fd, FirstTo(out', fd), cfd' = fd
  PROVE  IsToldSomething(cfd)'
<1>1. 1 \in 1..Len(out') /\ out'[1].to = cfd'
  BY DEF FirstTo
<1> QED BY <1>1 DEF IsToldSomething, MessagesTo

\* A turn of tic-tac-toe answers the mover first, unless it leaves a line that is put
\* down to nobody.
LEMMA MoverAnsweredFirst ==
  ASSUME NEW e \in TTTRecords, Sound(e), NEW turn, turn = Mainaroo(e)
  PROVE  \/ FirstTo(turn.out, e.fd_current_player)
         \/ /\ HasLine(turn.env.game_board)
            /\ turn.env.winner \notin {e.client_x, e.client_o}
<1> DEFINE first == ValidateInput(e)
           fd == e.fd_current_player
<1>0. Theirs(e)
  BY DEF Sound
<1>1. \/ first.ret = FSM_EXIT /\ turn.env = e /\ turn.out = first.out
      \/ /\ first.ret = TURNOVER
         /\ turn.env = SwitchPlayers(first.env)
         /\ turn.out = SendAccepted(first.env) \o SendUpdate(SwitchPlayers(first.env))
      \/ /\ first.ret = GAMEOVER
         /\ turn.env = [first.env EXCEPT !.game_over = TRUE]
         /\ turn.out = first.out
  BY <1>0, MainarooCases
<1>2. ASSUME NEW f \in TTTRecords, f.fd_current_player = fd, NEW code \in Codes
      PROVE  LET m == Msg(f.fd_current_player, code, 0)
             IN  /\ m \in Messages /\ m.to = fd
                 /\ FirstTo(<< m >>, fd)
                 /\ \A s \in Seq(Messages) : FirstTo(<< m >> \o s, fd)
  <2> DEFINE m == Msg(f.fd_current_player, code, 0)
  <2>1. m \in Messages /\ m.to = fd
    BY <1>2 DEF Msg, Messages, TTTRecords
  <2> HIDE DEF m
  <2>2. << >> \in Seq(Messages)
    OBVIOUS
  <2>3. FirstTo(<< m >>, fd) /\ \A s \in Seq(Messages) : FirstTo(<< m >> \o s, fd)
    BY <2>1, <2>2, FirstMessage
  <2> QED BY <2>1, <2>3 DEF m
<1>3. {"ACCEPTED", "INVALID_ACTION", "WIN", "LOSS", "TIE"} \subseteq Codes
  BY DEF Codes
<1>4. ASSUME NEW f \in TTTRecords, NEW c1 \in {"WIN", "LOSS", "TIE"}, NEW c2 \in {"WIN", "LOSS", "TIE"}
      PROVE  << Msg(f.client_x, c1, f.received_move), Msg(f.client_o, c2, f.received_move) >>
               \in Seq(Messages)
  BY <1>3 DEF Msg, Messages, TTTRecords
<1>5. CASE ~IsPlayable(e)
  <2>1. first.ret = FSM_EXIT /\ first.out = SendDecline(e)
    BY <1>5, ValidateCases, ResultFields
  <2>2. turn.out = SendDecline(e)
    BY <1>1, <2>1
  <2> QED BY <1>2, <1>3, <2>2 DEF SendDecline
<1>6. CASE IsPlayable(e)
  <2> DEFINE m == Mark(e)
             w == Won(m)
  <2>0. /\ m \in TTTRecords /\ m.fd_current_player = fd
        /\ w \in TTTRecords /\ w.fd_current_player = fd /\ w.game_board = m.game_board
        /\ w.client_x = e.client_x /\ w.client_o = e.client_o
    BY <1>6, MarkResult, WonResult DEF SameGame
  <2>1. CASE HasLine(m.game_board)
    <3>1. first.ret = GAMEOVER /\ first.env = w /\ first.out = SendWinLoss(w)
      BY <1>6, <2>1, ValidateCases, ResultFields
    <3> HIDE DEF w, m
    <3>2. turn.out = SendWinLoss(w) /\ turn.env = [w EXCEPT !.game_over = TRUE]
      BY <1>1, <3>1
    <3>3. turn.env.game_board = m.game_board /\ turn.env.winner = w.winner
      BY <2>0, <3>2 DEF TTTRecords
    <3>4. CASE w.client_x = w.winner \/ w.client_o = w.winner
      <4>1. \E c1 \in {"WIN", "LOSS", "TIE"}, c2 \in {"WIN", "LOSS", "TIE"} :
              turn.out = SendAccepted(w) \o << Msg(w.client_x, c1, w.received_move),
                                               Msg(w.client_o, c2, w.received_move) >>
        BY <3>2, <3>4 DEF SendWinLoss
      <4>2. \A s \in Seq(Messages) : FirstTo(SendAccepted(w) \o s, fd)
        BY <1>2, <1>3, <2>0 DEF SendAccepted
      <4> QED BY <1>4, <2>0, <4>1, <4>2
    <3>5. CASE ~(w.client_x = w.winner \/ w.client_o = w.winner)
      BY <2>0, <2>1, <3>3, <3>5
    <3> QED BY <3>4, <3>5
  <2>2. CASE ~HasLine(m.game_board) /\ m.play_count = 8
    <3>1. first.ret = GAMEOVER /\ first.out = SendTie(m)
      BY <1>6, <2>2, ValidateCases, ResultFields
    <3> HIDE DEF w, m
    <3>2. turn.out = SendTie(m)
      BY <1>1, <3>1
    <3>3. \A s \in Seq(Messages) : FirstTo(SendAccepted(m) \o s, fd)
      BY <1>2, <1>3, <2>0 DEF SendAccepted
    <3> QED BY <1>4, <2>0, <3>2, <3>3 DEF SendTie
  <2>3. CASE ~HasLine(m.game_board) /\ m.play_count # 8
    <3>1. first.ret = TURNOVER /\ first.env = m
      BY <1>6, <2>3, ValidateCases, ResultFields
    <3> HIDE DEF w, m
    <3>2. turn.out = SendAccepted(m) \o SendUpdate(SwitchPlayers(m))
      BY <1>1, <3>1
    <3>3. SendUpdate(SwitchPlayers(m)) \in Seq(Messages)
      <4>1. SwitchPlayers(m) \in TTTRecords
        BY <2>0, SwitchResult
      <4>2. "MOVE_MADE" \in Codes
        BY DEF Codes
      <4> QED BY <4>1, <4>2 DEF SendUpdate, Msg, Messages, TTTRecords
    <3>4. \A s \in Seq(Messages) : FirstTo(SendAccepted(m) \o s, fd)
      BY <1>2, <1>3, <2>0 DEF SendAccepted
    <3> QED BY <3>2, <3>3, <3>4
  <2> QED BY <2>1, <2>2, <2>3
<1> QED BY <1>5, <1>6

\* Of the result of two recorded plays, the client who has just played is told first.
LEMMA ResultAnswersFirst ==
  ASSUME NEW e \in RPSRecords, NEW r, r = CheckRPSGameOver(e),
         e.client_one_play \in 0..3, e.client_two_play \in 0..3
  PROVE  /\ r.env.fd_current_client = e.fd_current_client /\ r.env \in RPSRecords
         /\ r.out \in Seq(Messages)
         /\ \/ r.ret = RPS_TURNOVER /\ r.out = << >>
            \/ r.ret = RPS_GAMEOVER /\ FirstTo(r.out, e.fd_current_client)
<1> DEFINE fd == e.fd_current_client
           p == e.client_one_play
           q == e.client_two_play
<1>0. r.env.fd_current_client = fd /\ r.env \in RPSRecords /\ r.out \in Seq(Messages)
  BY GameOverLeaves DEF TurnOf, SamePlayers
<1>1. ASSUME NEW f \in RPSRecords, SamePlayers(e, f),
             NEW c1 \in Codes, NEW c2 \in Codes, NEW a1 \in Int, NEW a2 \in Int,
             r.out = SendAcceptPlay(f) \o << Msg(f.fd_client_player_one, c1, a1),
                                             Msg(f.fd_client_player_two, c2, a2) >>
      PROVE  FirstTo(r.out, fd)
  <2> DEFINE m == Msg(f.fd_current_client, "ACCEPTED", 0)
             s == << Msg(f.fd_client_player_one, c1, a1), Msg(f.fd_client_player_two, c2, a2) >>
  <2>1. m \in Messages /\ m.to = fd
    BY <1>1 DEF Msg, Messages, Codes, RPSRecords, SamePlayers
  <2>2. s \in Seq(Messages)
    BY <1>1 DEF Msg, Messages, RPSRecords
  <2>3. r.out = << m >> \o s
    BY <1>1 DEF SendAcceptPlay
  <2> HIDE DEF m, s
  <2> QED BY <2>1, <2>2, <2>3, FirstMessage
<1>2. {"WIN", "LOSS", "TIE"} \subseteq Codes
  BY DEF Codes
<1>3. CASE ~(p > 0 /\ q > 0)
  <2>1. r = Result(e, << >>, RPS_TURNOVER)
    BY <1>3 DEF CheckRPSGameOver
  <2> QED BY <1>0, <2>1, ResultFields
<1>4. CASE p > 0 /\ q > 0
  <2>1. Standing(e) \in {0, 1, 2}
    <3>1. 3 + p - q \in 1..5 /\ 3 + p - q >= 0
      BY <1>4
    <3>2. \A n \in 1..5 : n % 3 \in {0, 1, 2}
      OBVIOUS
    <3> QED BY <3>1, <3>2 DEF Standing, CRemainder
  <2>2. ASSUME NEW winner \in {e.fd_client_player_one, e.fd_client_player_two},
               r = Result([e EXCEPT !.winner = winner],
                          SendRPSWinLoss([e EXCEPT !.winner = winner]), RPS_GAMEOVER)
        PROVE  r.ret = RPS_GAMEOVER /\ FirstTo(r.out, fd)
    <3> DEFINE f == [e EXCEPT !.winner = winner]
    <3>1. /\ f \in RPSRecords /\ SamePlayers(e, f) /\ f.winner = winner
          /\ f.client_one_play \in Int /\ f.client_two_play \in Int
          /\ f.fd_client_player_one = e.fd_client_player_one
          /\ f.fd_client_player_two = e.fd_client_player_two
      BY DEF RPSRecords, SamePlayers
    <3>2. r.ret = RPS_GAMEOVER /\ r.out = SendRPSWinLoss(f)
      BY <2>2, ResultFields
    <3> HIDE DEF f
    <3>3. \E c1 \in Codes, c2 \in Codes, a1 \in Int, a2 \in Int :
            SendRPSWinLoss(f) = SendAcceptPlay(f) \o << Msg(f.fd_client_player_one, c1, a1),
                                                        Msg(f.fd_client_player_two, c2, a2) >>
      BY <1>2, <2>2, <3>1 DEF SendRPSWinLoss
    <3> QED BY <1>1, <3>1, <3>2, <3>3
  <2>3. CASE Standing(e) = 0
    <3>1. r = Result(e, SendRPSTie(e), RPS_GAMEOVER)
      BY <1>4, <2>3 DEF CheckRPSGameOver
    <3>2. r.ret = RPS_GAMEOVER /\ r.out = SendRPSTie(e)
      BY <3>1, ResultFields
    <3>3. SamePlayers(e, e) /\ e.move_received \in Int
      BY DEF SamePlayers, RPSRecords
    <3>4. FirstTo(r.out, fd)
      BY <1>1, <1>2, <3>2, <3>3 DEF SendRPSTie
    <3> QED BY <1>0, <3>2, <3>4
  <2>4. CASE Standing(e) # 0
    <3>1. \E winner \in {e.fd_client_player_one, e.fd_client_player_two} :
            r = Result([e EXCEPT !.winner = winner],
                       SendRPSWinLoss([e EXCEPT !.winner = winner]), RPS_GAMEOVER)
      BY <1>4, <2>1, <2>4 DEF CheckRPSGameOver
    <3> QED BY <1>0, <2>2, <3>1
  <2> QED BY <2>3, <2>4
<1> QED BY <1>3, <1>4

\* A legal play of somebody who has not played answers them first.
LEMMA PlayerAnsweredFirst ==
  ASSUME NEW e \in RPSRecords, IsValidPlay(e), ~HasGone(e),
         e.client_one_play \in 0..3, e.client_two_play \in 0..3,
         NEW turn \in Mainzees(e)
  PROVE  FirstTo(turn.out, e.fd_current_client)
<1> DEFINE f == RecordPlay(e)
           first == CheckRPSGameOver(f)
           fd == e.fd_current_client
           handler == FsmTransition(RPSTable, RPS_VALIDATE, first.ret)
<1>1. turn \in IF first.ret = FSM_EXIT THEN {Outcome(first.env, first.out, "select")}
               ELSE IF handler \in RPSHandlers
                 THEN {Outcome(then.env, first.out \o then.out, "select") :
                         then \in RPSPerform(handler, first.env)}
               ELSE {Outcome(first.env, first.out, ending) : ending \in OffTableOutcomes}
  <2>1. ValidateRPSInput(e) = {first}
    BY DEF ValidateRPSInput
  <2> HIDE DEF first
  <2> QED BY <2>1 DEF Mainzees
<1>2. /\ f \in RPSRecords /\ f.fd_current_client = fd
      /\ f.client_one_play \in 0..3 /\ f.client_two_play \in 0..3
  <2>1. e.move_received \in 1..3
    BY DEF IsValidPlay, ROCK, PAPER, SCISSORS
  <2> QED BY <2>1 DEF RecordPlay, RPSRecords
<1> HIDE DEF f
<1>3. /\ first.env.fd_current_client = fd /\ first.env \in RPSRecords
      /\ first.out \in Seq(Messages)
      /\ \/ first.ret = RPS_TURNOVER /\ first.out = << >>
         \/ first.ret = RPS_GAMEOVER /\ FirstTo(first.out, fd)
  BY <1>2, ResultAnswersFirst
<1> HIDE DEF first
<1>4. first.ret # FSM_EXIT
  BY <1>3 DEF RPS_TURNOVER, RPS_GAMEOVER
<1>5. CASE first.ret = RPS_TURNOVER /\ first.out = << >>
  <2> DEFINE m == Msg(first.env.fd_current_client, "ACCEPTED", 0)
  <2>1. handler = "accepted_RPS_move"
    BY <1>5, RPSRowsFound
  <2>2. m \in Messages /\ m.to = fd /\ << >> \in Seq(Messages)
    BY <1>3 DEF Msg, Messages, Codes, RPSRecords
  <2>3. PICK then \in AcceptedRPSMove(first.env) :
          turn = Outcome(then.env, first.out \o then.out, "select")
    <3> HIDE DEF handler
    <3> QED BY <1>1, <1>4, <2>1 DEF RPSHandlers, RPSPerform
  <2>4. then.out = << m >>
    BY <2>3, ResultFields DEF AcceptedRPSMove, SendAcceptPlay
  <2> HIDE DEF m
  <2>5. turn.out = << m >>
    BY <1>5, <2>2, <2>3, <2>4 DEF Outcome
  <2> QED BY <2>2, <2>5, FirstMessage
<1>6. CASE first.ret = RPS_GAMEOVER /\ FirstTo(first.out, fd)
  <2>1. handler = "game_RPS_over"
    BY <1>6, RPSRowsFound
  <2>2. PICK then \in GameRPSOver(first.env) :
          turn = Outcome(then.env, first.out \o then.out, "select")
    <3> HIDE DEF handler
    <3> QED BY <1>1, <1>4, <2>1 DEF RPSHandlers, RPSPerform
  <2>3. then.out = << >>
    BY <2>2, ResultFields DEF GameRPSOver
  <2>4. turn.out = first.out
    BY <1>3, <2>2, <2>3 DEF Outcome
  <2> QED BY <1>6, <2>4
<1> QED BY <1>3, <1>5, <1>6

\* What accounts for a request being left without an answer.
Unanswerable ==
  \/ /\ received_data'.uid = 0
     /\ received_data'.payload_second_byte \notin {TTT_GAME, RPS_GAME}
  \/ received_data'.uid # 0 /\ Addressed = NoLink
  \/ /\ ~IsTTT(Addressed)
     /\ LET before == [game_lobby[Addressed].RPSGame EXCEPT
                         !.fd_current_client = cfd',
                         !.move_received = received_data'.payload_first_byte]
        IN  ~IsValidPlay(before) \/ HasGone(before)
  \/ /\ IsTTT(Addressed)
     /\ LET after == game_lobby'[Addressed].TTTGame
        IN  /\ HasLine(after.game_board)
            /\ after.winner \notin TTTPlayers(Addressed)

\* Who asks for a game of either kind is told the id of it first.
LEMMA AskerAnsweredFirst ==
  ASSUME IInv, NEW fd \in Fds, NEW request \in Requests, NewConnection(fd, request),
         received_data'.payload_second_byte \in {TTT_GAME, RPS_GAME}
  PROVE  FirstTo(out', fd)
<1> DEFINE uid == unique_game_id
           m == Msg(fd, "NEW_GAME", uid)
<1>1. m \in Messages /\ m.to = fd
  BY FdsAreNats DEF Msg, Messages, Codes, IInv
<1>2. /\ ListFits(game_lobby, uid) /\ game_lobby \in Seq(Nodes) /\ 1 \in 1..Len(game_lobby)
  BY BoundsAssumption DEF IInv, ListFits
<1>3. game_lobby[1].TTTGame \in TTTRecords /\ game_lobby[1].RPSGame \in RPSRecords
  BY <1>2, NodeTypes
<1>4. out' = HandleNewConnection(game_lobby, fd, uid, received_data'.payload_second_byte).out
  BY DEF NewConnection, Sends
<1>5. ASSUME NEW msgs, msgs = SendNewGameCode(fd, uid)
             \/ \E s \in Seq(Messages) : msgs = SendNewGameCode(fd, uid) \o s
      PROVE  FirstTo(msgs, fd)
  <2>1. SendNewGameCode(fd, uid) = << m >>
    BY DEF SendNewGameCode
  <2>2. << >> \in Seq(Messages)
    OBVIOUS
  <2> HIDE DEF m
  <2> QED BY <1>1, <1>5, <2>1, <2>2, FirstMessage
<1>6. \A other \in Nat, arg \in Int : Msg(other, "START_GAME", arg) \in Messages
  BY DEF Msg, Messages, Codes
<1>7. fd \in Nat /\ X \in Int /\ O \in Int /\ 0 \in Int
  BY FdsAreNats DEF X, O
<1>8. CASE received_data'.payload_second_byte = TTT_GAME
  <2> DEFINE x == game_lobby[1].TTTGame.client_x
  <2>1. out' = JoinTTT(game_lobby, fd, uid).out
    BY <1>4, <1>8 DEF HandleNewConnection
  <2>2. out' \in {SendNewGameCode(fd, uid), SendNewGameCode(fd, uid) \o SendStartTTT(x, fd)}
    BY <2>1 DEF JoinTTT, Lobbied, Lobby, NewTTTGame
  <2>3. SendStartTTT(x, fd) \in Seq(Messages)
    <3>1. x \in Nat
      BY <1>3 DEF TTTRecords
    <3> QED BY <1>6, <1>7, <3>1 DEF SendStartTTT
  <2> QED BY <1>5, <2>2, <2>3
<1>9. CASE received_data'.payload_second_byte = RPS_GAME
  <2> DEFINE one == game_lobby[1].RPSGame.fd_client_player_one
  <2>1. out' = JoinRPS(game_lobby, fd, uid).out
    BY <1>4, <1>9 DEF HandleNewConnection
  <2>2. out' \in {SendNewGameCode(fd, uid), SendNewGameCode(fd, uid) \o SendStartRPS(one, fd)}
    BY <2>1 DEF JoinRPS, Lobbied, Lobby, NewRPSGame
  <2>3. SendStartRPS(one, fd) \in Seq(Messages)
    <3>1. one \in Nat
      BY <1>3 DEF RPSRecords
    <3> QED BY <1>6, <1>7, <3>1 DEF SendStartRPS
  <2> QED BY <1>5, <2>2, <2>3
<1> QED BY <1>8, <1>9

\* A move in turn is answered, or leaves a line that is put down to nobody.
LEMMA MoveAccounted ==
  ASSUME IInv, NEW fd \in Fds, NEW request \in Requests, PlayTTT(fd, request)
  PROVE  FirstTo(out', fd) \/ Unanswerable
<1>1. PICK e, turn, node :
        /\ e \in TTTRecords
        /\ Addressed \in Games(game_lobby) /\ IsTTT(Addressed)
        /\ game_lobby[Addressed].TTTGame.fd_current_player = fd
        /\ e = [game_lobby[Addressed].TTTGame EXCEPT
                  !.received_move = received_data'.payload_first_byte]
        /\ Sound(e)
        /\ turn = Mainaroo(e)
        /\ node = [game_lobby[Addressed] EXCEPT !.TTTGame = turn.env]
        /\ NewNode(game_lobby, game_lobby', Addressed, node)
        /\ Sends(turn.out)
  BY PlayTTTStep
<1>2. /\ Addressed \in 1..Len(game_lobby) /\ game_lobby[Addressed] \in Nodes
      /\ game_lobby[Addressed].TTTGame \in TTTRecords
  BY <1>1, NodeTypes DEF IInv, ListFits, Games
<1>3. /\ e.fd_current_player = fd
      /\ e.client_x = game_lobby[Addressed].TTTGame.client_x
      /\ e.client_o = game_lobby[Addressed].TTTGame.client_o
  BY <1>1, <1>2 DEF TTTRecords
<1>4. game_lobby'[Addressed].TTTGame = turn.env
  <2>1. node.TTTGame = turn.env
    BY <1>1, <1>2 DEF Nodes
  <2> QED BY <1>1, <1>2, <2>1 DEF NewNode
<1>5. out' = turn.out
  BY <1>1 DEF Sends
<1>6. FirstTo(turn.out, fd) \/ (HasLine(turn.env.game_board)
                                /\ turn.env.winner \notin {e.client_x, e.client_o})
  BY <1>1, <1>3, MoverAnsweredFirst
<1> QED BY <1>1, <1>3, <1>4, <1>5, <1>6 DEF Unanswerable, TTTPlayers

\* A play is answered, unless it is illegal or its player has played.
LEMMA PlayAccounted ==
  ASSUME NoStrayIds, IInv, NEW fd \in Fds, NEW request \in Requests, PlayRPS(fd, request)
  PROVE  FirstTo(out', fd) \/ Unanswerable
<1>0. Receives(fd, request) /\ received_data'.uid # 0 /\ Addressed # NoLink
  BY DEF PlayRPS
<1>1. PICK e, turn :
        /\ e \in RPSRecords
        /\ ~IsTTT(Addressed) /\ cfd' = fd
        /\ e = [game_lobby[Addressed].RPSGame EXCEPT
                  !.fd_current_client = fd,
                  !.move_received = received_data'.payload_first_byte]
        /\ turn \in Mainzees(e)
        /\ out' = turn.out
  BY PlayRPSStep
<1>2. Addressed \in Games(game_lobby)
  BY <1>0, NamesAGame
<1>3. /\ game_lobby[Addressed].RPSGame \in RPSRecords
      /\ game_lobby[Addressed].RPSGame.client_one_play \in 0..3
      /\ game_lobby[Addressed].RPSGame.client_two_play \in 0..3
  <2>1. game_lobby \in Seq(Nodes) /\ Addressed \in 1..Len(game_lobby)
        /\ GameFits(game_lobby[Addressed], unique_game_id)
    BY <1>2 DEF IInv, ListFits, Games
  <2>2. game_lobby[Addressed].game_type = RPS_GAME
    BY <1>1, <2>1 DEF GameFits, IsTTT
  <2> QED BY <2>1, <2>2, NodeTypes DEF GameFits
<1>4. /\ e.fd_current_client = fd
      /\ e.client_one_play \in 0..3 /\ e.client_two_play \in 0..3
  BY <1>1, <1>3 DEF RPSRecords
<1>5. CASE IsValidPlay(e) /\ ~HasGone(e)
  <2>1. FirstTo(turn.out, fd)
    BY <1>1, <1>4, <1>5, PlayerAnsweredFirst
  <2> QED BY <1>1, <2>1
<1>6. CASE ~IsValidPlay(e) \/ HasGone(e)
  BY <1>1, <1>6 DEF Unanswerable
<1> QED BY <1>5, <1>6

\* A request is left without an answer only if it names no game that can be found or no
\* kind of game, if it is an illegal or repeated play of rock-paper-scissors, or if it is
\* a move of tic-tac-toe on a board with a line that is put down to nobody.
THEOREM SilenceAccountedFor ==
  ASSUME NoStrayIds
  PROVE  Spec => SilenceIsAccountedFor
<1> DEFINE Accounted ==
      \A request \in Requests :
        cfd' \in Fds /\ ~IsToldSomething(cfd)' /\ Request(cfd', request) => Unanswerable
<1>1. ASSUME IInv, NEW fd \in Fds, NEW request \in Requests, Request(fd, request), cfd' = fd,
             ~IsToldSomething(cfd)'
      PROVE  Unanswerable
  <2>0. ~FirstTo(out', fd)
    BY <1>1, FirstIsTold
  <2>1. CASE NewConnection(fd, request)
    <3>1. received_data'.uid = 0
      BY <2>1 DEF NewConnection
    <3> QED BY <1>1, <2>0, <2>1, <3>1, AskerAnsweredFirst DEF Unanswerable
  <2>2. CASE UnknownGame(fd, request)
    BY <2>2 DEF UnknownGame, Unanswerable
  <2>3. CASE PlayTTT(fd, request)
    BY <1>1, <2>0, <2>3, MoveAccounted
  <2>4. CASE PlayTTTOutOfTurn(fd, request)
    <3> DEFINE m == Msg(fd, "OUT_OF_TURN", 0)
    <3>1. out' = << m >>
      BY <2>4 DEF PlayTTTOutOfTurn, Sends
    <3>2. m \in Messages /\ m.to = fd /\ << >> \in Seq(Messages)
      BY FdsAreNats DEF Msg, Messages, Codes
    <3> HIDE DEF m
    <3> QED BY <2>0, <3>1, <3>2, FirstMessage
  <2>5. CASE PlayRPS(fd, request)
    BY <1>1, <2>0, <2>5, PlayAccounted
  <2> QED BY <1>1, <2>1, <2>2, <2>3, <2>4, <2>5 DEF Request
<1>2. IInv /\ Next => Accounted
  BY <1>1
<1>3. IInv /\ [Next]_vars => [Accounted]_vars
  <2> HIDE DEF Accounted
  <2> QED BY <1>2
<1> QED BY <1>3, Invariance, PTL DEF Spec, SilenceIsAccountedFor, Unanswerable

-----------------------------------------------------------------------------
(* The seats of one game after those of another.                            *)

\* FlattenSeq returns what the last of its sequences completes.
LEMMA FlattenIs ==
  ASSUME NEW s, Len(s) \in Nat, Len(s) # 0
  PROVE  \E f : Flattens(f, Len(s), s) /\ SeqExt!FlattenSeq(s) = f[Len(s)]
<1> DEFINE flatten == CHOOSE f : Flattens(f, Len(s), s)
<1>1. Flattens(flatten, Len(s), s)
  BY FlattenExists
<1>2. SeqExt!FlattenSeq(s) = flatten[Len(s)]
  BY DEF SeqExt!FlattenSeq, Flattens
<1> QED BY <1>1, <1>2

\* One more sequence follows the others.
LEMMA FlattenGrows ==
  ASSUME NEW T, NEW s \in Seq(Seq(T)), NEW t \in Seq(Seq(T)), Len(s) >= 1,
         Len(t) = Len(s) + 1, \A i \in 1..Len(s) : t[i] = s[i]
  PROVE  /\ SeqExt!FlattenSeq(s) \in Seq(T)
         /\ SeqExt!FlattenSeq(t) = SeqExt!FlattenSeq(s) \o t[Len(t)]
<1> PICK n \in Nat : n = Len(s)
  OBVIOUS
<1>0. /\ Len(s) = n /\ Len(t) = n + 1 /\ n # 0 /\ n + 1 # 0 /\ n + 1 \in Nat
      /\ n <= n + 1 /\ n \in 1..n /\ n + 1 \in 1..(n + 1) /\ n + 1 # 1 /\ (n + 1) - 1 = n
      /\ \A i \in 1..n : s[i] \in Seq(T) /\ s[i] = t[i]
  OBVIOUS
<1>1. PICK f : Flattens(f, n, s) /\ SeqExt!FlattenSeq(s) = f[n]
  BY ONLY <1>0, n \in Nat, FlattenIs
<1>2. PICK g : Flattens(g, n + 1, t) /\ SeqExt!FlattenSeq(t) = g[n + 1]
  BY ONLY <1>0, n \in Nat, FlattenIs
<1>3. f[n] \in Seq(T)
  BY ONLY <1>0, <1>1, n \in Nat, FlattenTyped
<1>4. g[n] = f[n]
  <2>0. AgreeUpTo(s, t, n)
    BY ONLY <1>0 DEF AgreeUpTo
  <2> PICK m \in Nat : m = n + 1
    BY ONLY <1>0
  <2>1. n <= n /\ n <= m /\ n \in Nat /\ Flattens(f, n, s) /\ Flattens(g, m, t)
    BY <1>0, <1>1, <1>2
  <2>2. AgreeUpTo(f, g, n)
    BY ONLY <2>0, <2>1, m \in Nat, FlattenAgrees
  <2> QED BY ONLY <1>0, <2>2 DEF AgreeUpTo
<1>5. g[n + 1] = g[n] \o t[n + 1]
  BY ONLY <1>0, <1>2 DEF Flattens
<1> QED BY ONLY <1>0, <1>1, <1>2, <1>3, <1>4, <1>5

-----------------------------------------------------------------------------
(* The seats taken.                                                        *)

Kinds == {TTT_GAME, RPS_GAME}

\* A seat: a descriptor and an id.
SeatRecords == Int \X Int

\* SeatsInGames, Waiting and Seats of any list.
InGames(games, kind) ==
  [i \in 1..Len(games) |-> IF games[i].game_type = kind THEN SeatsOf(games[i]) ELSE << >>]

SeatKept(seat) == IF seat[1] = 0 THEN << >> ELSE << seat >>

InLobby(ttt, rps, kind) ==
  IF kind = TTT_GAME THEN SeatKept(<< ttt.client_x, ttt.client_x_uid >>)
  ELSE SeatKept(<< rps.fd_client_player_one, rps.unique_game_id_player_one >>)

InList(games, kind) ==
  SeqExt!FlattenSeq(InGames(games, kind)) \o InLobby(games[1].TTTGame, games[1].RPSGame, kind)

\* Before and after a step those are the seats.
LEMMA SeatsAreInList ==
  \A kind \in Kinds : Seats(kind) = InList(game_lobby, kind) /\ Seats(kind)' = InList(game_lobby', kind)
<1>1. ASSUME NEW kind \in Kinds PROVE Waiting(kind) = InLobby(game_lobby[1].TTTGame, game_lobby[1].RPSGame, kind)
  BY DEF Waiting, Lobby, InLobby, SeatKept
<1>2. ASSUME NEW kind \in Kinds
      PROVE  Waiting(kind)' = InLobby(game_lobby'[1].TTTGame, game_lobby'[1].RPSGame, kind)
  BY DEF Waiting, Lobby, InLobby, SeatKept
<1>3. ASSUME NEW kind \in Kinds
      PROVE  /\ SeatsInGames(kind) = InGames(game_lobby, kind)
             /\ SeatsInGames(kind)' = InGames(game_lobby', kind)
  BY DEF SeatsInGames, InGames
<1> QED BY <1>1, <1>2, <1>3 DEF Seats, InList

\* The seats of a node are two, or as many sequences as there are nodes.
LEMMA InGamesTyped ==
  ASSUME NEW games \in Seq(Nodes), NEW kind
  PROVE  /\ InGames(games, kind) \in Seq(Seq(SeatRecords))
         /\ Len(InGames(games, kind)) = Len(games)
<1>1. ASSUME NEW node \in Nodes PROVE SeatsOf(node) \in Seq(SeatRecords)
  <2>1. /\ node.TTTGame \in TTTRecords /\ node.RPSGame \in RPSRecords
    BY DEF Nodes
  <2>2. ASSUME NEW a \in Int, NEW b \in Int, NEW c \in Int, NEW d \in Int
        PROVE  << << a, b >>, << c, d >> >> \in Seq(SeatRecords)
    <3>1. << a, b >> \in SeatRecords /\ << c, d >> \in SeatRecords
      BY DEF SeatRecords
    <3> QED BY <3>1
  <2>3. /\ node.TTTGame.client_x \in Int /\ node.TTTGame.client_x_uid \in Int
        /\ node.TTTGame.client_o \in Int /\ node.TTTGame.client_o_uid \in Int
    BY <2>1 DEF TTTRecords
  <2>4. /\ node.RPSGame.fd_client_player_one \in Int
        /\ node.RPSGame.unique_game_id_player_one \in Int
        /\ node.RPSGame.fd_client_player_two \in Int
        /\ node.RPSGame.unique_game_id_player_two \in Int
    BY <2>1 DEF RPSRecords
  <2> QED BY <2>2, <2>3, <2>4 DEF SeatsOf
<1>2. Len(games) \in Nat
  OBVIOUS
<1>3. ASSUME NEW i \in 1..Len(games)
      PROVE  (IF games[i].game_type = kind THEN SeatsOf(games[i]) ELSE << >>) \in Seq(SeatRecords)
  <2>1. games[i] \in Nodes
    BY ElementOfSeq
  <2>2. SeatsOf(games[i]) \in Seq(SeatRecords) /\ << >> \in Seq(SeatRecords)
    BY <1>1, <2>1
  <2> QED BY <2>2
<1> DEFINE T == Seq(SeatRecords)
           s == InGames(games, kind)
<1>4. s \in [1..Len(games) -> T]
  BY <1>3 DEF InGames
<1> HIDE DEF T, s
<1>5. s \in Seq(T) /\ Len(s) = Len(games)
  BY <1>2, <1>4
<1> QED BY <1>5 DEF T, s

\* A list whose nodes have the same seats, and whose lobby too.
LEMMA SeatsKept ==
  ASSUME NEW games, NEW left, Len(left) = Len(games), NEW kind,
         \A i \in 1..Len(games) :
           /\ left[i].game_type = kind <=> games[i].game_type = kind
           /\ games[i].game_type = kind => SeatsOf(left[i]) = SeatsOf(games[i])
  PROVE  InGames(left, kind) = InGames(games, kind)
BY DEF InGames

\* When only the head is replaced, the seats of games stay.
LEMMA HeadSeats ==
  ASSUME NEW games \in Seq(Nodes), Len(games) >= 1, games[1].game_type = 0, NEW kind \in Kinds,
         NEW left, NEW ttt \in TTTRecords, NEW rps \in RPSRecords, NewHead(games, left, ttt, rps)
  PROVE  InList(left, kind) = SeqExt!FlattenSeq(InGames(games, kind)) \o InLobby(ttt, rps, kind)
<1>1. games[1] \in Nodes
  BY NodeTypes
<1>2. left[1].game_type = 0 /\ left[1].TTTGame = ttt /\ left[1].RPSGame = rps
  BY <1>1 DEF NewHead, Nodes
<1>3. kind # 0
  BY DEF Kinds
<1>4. ASSUME NEW i \in 1..Len(games)
      PROVE  /\ left[i].game_type = kind <=> games[i].game_type = kind
             /\ games[i].game_type = kind => SeatsOf(left[i]) = SeatsOf(games[i])
  <2>1. CASE i = 1
    BY <1>2, <1>3, <2>1
  <2>2. CASE i # 1
    BY <2>2 DEF NewHead
  <2> QED BY <2>1, <2>2
<1>5. InGames(left, kind) = InGames(games, kind)
  BY <1>4, SeatsKept DEF NewHead
<1> QED BY <1>2, <1>5 DEF InList

\* The seats of a list to which this node was added, with these lobbies.
WithNode(games, left, kind, node, ttt, rps) ==
  InList(left, kind) =
    (SeqExt!FlattenSeq(InGames(games, kind))
       \o (IF node.game_type = kind THEN SeatsOf(node) ELSE << >>))
    \o InLobby(ttt, rps, kind)

\* When a game is added, its seats come after those of the others.
LEMMA NewGameSeats ==
  ASSUME NEW games \in Seq(Nodes), Len(games) >= 1, games[1].game_type = 0, NEW kind \in Kinds,
         NEW left, NEW ttt \in TTTRecords, NEW rps \in RPSRecords, NEW node,
         NewGame(games, left, node, ttt, rps)
  PROVE  WithNode(games, left, kind, node, ttt, rps)
<1> DEFINE s == InGames(games, kind)
           t == InGames(left, kind)
<1>0. games[1] \in Nodes /\ Len(games) \in Nat /\ left \in Seq(Nodes) /\ Len(left) = Len(games) + 1
  BY NodeTypes DEF NewGame
<1>1. left[1].game_type = 0 /\ left[1].TTTGame = ttt /\ left[1].RPSGame = rps
  BY <1>0 DEF NewGame, Nodes
<1>2. kind # 0
  BY DEF Kinds
<1>3. /\ s \in Seq(Seq(SeatRecords)) /\ Len(s) = Len(games)
      /\ t \in Seq(Seq(SeatRecords)) /\ Len(t) = Len(games) + 1
  BY <1>0, InGamesTyped
<1>4. \A i \in 1..Len(s) : t[i] = s[i]
  <2> SUFFICES ASSUME NEW i \in 1..Len(games) PROVE t[i] = s[i]
    BY <1>3
  <2>1. i \in 1..Len(left)
    BY <1>0
  <2>2. CASE i = 1
    BY <1>1, <1>2, <2>1, <2>2 DEF InGames
  <2>3. CASE i # 1
    <3>1. left[i] = games[i]
      BY <1>0, <2>3 DEF NewGame
    <3> QED BY <2>1, <3>1 DEF InGames
  <2> QED BY <2>2, <2>3
<1>5. t[Len(t)] = IF node.game_type = kind THEN SeatsOf(node) ELSE << >>
  <2>1. Len(t) \in 1..Len(left) /\ left[Len(t)] = node
    BY <1>0, <1>3 DEF NewGame
  <2> QED BY <2>1 DEF InGames
<1> HIDE DEF s, t
<1>6. SeqExt!FlattenSeq(t) = SeqExt!FlattenSeq(s) \o t[Len(t)]
  BY <1>3, <1>4, FlattenGrows
<1> QED BY <1>1, <1>5, <1>6 DEF InList, WithNode, s, t

\* The seats of the games are a sequence of seats.
LEMMA SeatsTyped ==
  ASSUME NEW games \in Seq(Nodes), Len(games) >= 1, NEW kind
  PROVE  SeqExt!FlattenSeq(InGames(games, kind)) \in Seq(SeatRecords)
<1> DEFINE s == InGames(games, kind)
<1> PICK n \in Nat : n = Len(games) /\ n # 0 /\ n \in 1..n
  OBVIOUS
<1>1. s \in Seq(Seq(SeatRecords)) /\ Len(s) = n
  BY InGamesTyped
<1> HIDE DEF s
<1>2. PICK f : Flattens(f, n, s) /\ SeqExt!FlattenSeq(s) = f[n]
  BY <1>1, FlattenIs
<1>3. \A i \in 1..n : s[i] \in Seq(SeatRecords)
  BY <1>1
<1>4. f[n] \in Seq(SeatRecords)
  BY <1>2, <1>3, FlattenTyped
<1> QED BY <1>2, <1>4 DEF s

\* A seat that is taken in the lobby, and one that completes a pair.
LEMMA SeatAppended ==
  ASSUME NEW T, NEW a \in Seq(T), NEW x \in T, NEW y \in T
  PROVE  /\ a \o << x >> = Append(a \o << >>, x)
         /\ (a \o << y, x >>) \o << >> = Append(a \o << y >>, x)
         /\ a \o << >> = a
OBVIOUS

\* Who is seated by a request: nobody, or the client who asked, under the id issued last.
Seated(fd) ==
  \/ \A kind \in Kinds : Seats(kind)' = Seats(kind)
  \/ \E asked \in Kinds :
       /\ Seats(asked)' = Append(Seats(asked), << fd, unique_game_id >>)
       /\ \A kind \in Kinds \ {asked} : Seats(kind)' = Seats(kind)

\* A request for a game of tic-tac-toe seats the client who asks.
LEMMA JoiningTTTSeats ==
  ASSUME IInv, NEW fd \in Fds, unique_game_id \in Int, NEW done,
         JoinedTTT(game_lobby, game_lobby[1].TTTGame, fd, unique_game_id, done),
         game_lobby' = done.games
  PROVE  Seated(fd)
<1> DEFINE games == game_lobby
           uid == unique_game_id
           ttt == games[1].TTTGame
           rps == games[1].RPSGame
           a(kind) == SeqExt!FlattenSeq(InGames(games, kind))
           x == << fd, uid >>
           y == << ttt.client_x, ttt.client_x_uid >>
<1>0. /\ games \in Seq(Nodes) /\ Len(games) >= 1 /\ games[1].game_type = 0
      /\ 1 \in 1..Len(games)
  BY BoundsAssumption DEF IInv, ListFits, HeadFits
<1>1. ttt \in TTTRecords /\ rps \in RPSRecords
  BY <1>0, NodeTypes
<1>2. a(TTT_GAME) \in Seq(SeatRecords) /\ a(RPS_GAME) \in Seq(SeatRecords)
  BY <1>0, SeatsTyped
<1>3. fd \in Nat /\ fd # 0 /\ x \in SeatRecords /\ y \in SeatRecords
  <2>1. fd \in Nat /\ fd # 0 /\ fd \in Int
    BY FdsAreNats
  <2>2. ttt.client_x \in Int /\ ttt.client_x_uid \in Int
    BY <1>1 DEF TTTRecords
  <2> QED BY <2>1, <2>2 DEF SeatRecords
<1>4. InLobby(ttt, rps, TTT_GAME) = IF ttt.client_x = 0 THEN << >> ELSE << y >>
  BY DEF InLobby, SeatKept
<1>5. /\ Seats(TTT_GAME) = a(TTT_GAME) \o InLobby(ttt, rps, TTT_GAME)
      /\ Seats(RPS_GAME) = a(RPS_GAME) \o InLobby(ttt, rps, RPS_GAME)
  BY SeatsAreInList DEF InList, Kinds
<1>6. /\ Seats(TTT_GAME)' = InList(game_lobby', TTT_GAME)
      /\ Seats(RPS_GAME)' = InList(game_lobby', RPS_GAME)
  BY SeatsAreInList DEF Kinds
<1>7. ASSUME NEW t \in TTTRecords
      PROVE  InLobby(t, rps, RPS_GAME) = InLobby(ttt, rps, RPS_GAME)
  BY DEF InLobby
<1>8. ASSUME Seats(TTT_GAME)' = Append(Seats(TTT_GAME), x), Seats(RPS_GAME)' = Seats(RPS_GAME)
      PROVE  Seated(fd)
  BY <1>8 DEF Seated, Kinds
<1>9. CASE /\ ttt.client_x = 0
           /\ NewHead(games, done.games, [ttt EXCEPT !.client_x = fd, !.client_x_uid = uid], rps)
  <2> DEFINE t == [ttt EXCEPT !.client_x = fd, !.client_x_uid = uid]
  <2>1. t \in TTTRecords /\ t.client_x = fd /\ t.client_x_uid = uid
    BY <1>1, <1>3 DEF TTTRecords
  <2>2. NewHead(games, game_lobby', t, rps)
    BY <1>9
  <2> HIDE DEF t
  <2>3. InLobby(t, rps, TTT_GAME) = << x >>
    BY <1>3, <2>1 DEF InLobby, SeatKept
  <2>4. /\ InList(game_lobby', TTT_GAME) = a(TTT_GAME) \o InLobby(t, rps, TTT_GAME)
        /\ InList(game_lobby', RPS_GAME) = a(RPS_GAME) \o InLobby(t, rps, RPS_GAME)
    BY <1>0, <1>1, <2>1, <2>2, HeadSeats DEF Kinds
  <2>5. Seats(RPS_GAME)' = Seats(RPS_GAME)
    BY <1>5, <1>6, <1>7, <2>1, <2>4
  <2>6. Seats(TTT_GAME)' = Append(Seats(TTT_GAME), x)
    <3>1. /\ Seats(TTT_GAME) = a(TTT_GAME) \o << >>
          /\ Seats(TTT_GAME)' = a(TTT_GAME) \o << x >>
      BY <1>4, <1>5, <1>6, <1>9, <2>3, <2>4
    <3> HIDE DEF a, x
    <3> QED BY <1>2, <1>3, <3>1, SeatAppended
  <2> QED BY <1>8, <2>5, <2>6
<1>10. CASE /\ ttt.client_x > 0
            /\ NewGame(games, done.games, TTTNode(ttt, fd, uid),
                       [ttt EXCEPT !.client_x_uid = 2, !.client_o_uid = 2,
                                   !.client_x = 0, !.client_o = 0], rps)
  <2> DEFINE t == [ttt EXCEPT !.client_x_uid = 2, !.client_o_uid = 2,
                              !.client_x = 0, !.client_o = 0]
             node == TTTNode(ttt, fd, uid)
  <2>1. t \in TTTRecords /\ t.client_x = 0
    <3>1. \A b, c \in Int, d, e \in Nat :
            [ttt EXCEPT !.client_x_uid = b, !.client_o_uid = c, !.client_x = d, !.client_o = e]
              \in TTTRecords
      BY <1>1 DEF TTTRecords
    <3>2. 0 \in Nat /\ 2 \in Int
      OBVIOUS
    <3>3. t \in TTTRecords
      BY <3>1, <3>2
    <3> QED BY <1>1, <3>3 DEF TTTRecords
  <2>2. NewGame(games, game_lobby', node, t, rps)
    BY <1>10
  <2>3. node.game_type = TTT_GAME /\ SeatsOf(node) = << y, x >>
    BY DEF TTTNode, Node, NewTTTGame, SeatsOf
  <2> HIDE DEF t, node
  <2>4. InLobby(t, rps, TTT_GAME) = << >>
    BY <2>1 DEF InLobby, SeatKept
  <2>5. ASSUME NEW kind \in Kinds
        PROVE  InList(game_lobby', kind)
                 = (a(kind) \o (IF node.game_type = kind THEN SeatsOf(node) ELSE << >>))
                     \o InLobby(t, rps, kind)
    <3>1. WithNode(games, game_lobby', kind, node, t, rps)
      BY <1>0, <1>1, <2>1, <2>2, <2>5, NewGameSeats
    <3> QED BY <3>1 DEF WithNode
  <2>6. Seats(RPS_GAME)' = Seats(RPS_GAME)
    <3>1. Seats(RPS_GAME)' = (a(RPS_GAME) \o << >>) \o InLobby(ttt, rps, RPS_GAME)
      <4>1. InList(game_lobby', RPS_GAME) = (a(RPS_GAME) \o << >>) \o InLobby(t, rps, RPS_GAME)
        BY <2>3, <2>5 DEF Kinds
      <4> QED BY <1>6, <1>7, <2>1, <4>1
    <3>2. a(RPS_GAME) \o << >> = a(RPS_GAME)
      <4> HIDE DEF a
      <4> QED BY <1>2
    <3> QED BY <1>5, <3>1, <3>2
  <2>7. Seats(TTT_GAME)' = Append(Seats(TTT_GAME), x)
    <3>1. /\ Seats(TTT_GAME) = a(TTT_GAME) \o << y >>
          /\ Seats(TTT_GAME)' = (a(TTT_GAME) \o << y, x >>) \o << >>
      <4>1. ttt.client_x # 0
        BY <1>10
      <4>2. InList(game_lobby', TTT_GAME) = (a(TTT_GAME) \o << y, x >>) \o << >>
        BY <2>3, <2>4, <2>5 DEF Kinds
      <4> QED BY <1>4, <1>5, <1>6, <4>1, <4>2
    <3> HIDE DEF a, x, y
    <3> QED BY <1>2, <1>3, <3>1, SeatAppended
  <2> QED BY <1>8, <2>6, <2>7
<1> QED BY <1>9, <1>10 DEF JoinedTTT

\* And so does one for a game of rock-paper-scissors.
LEMMA JoiningRPSSeats ==
  ASSUME IInv, NEW fd \in Fds, unique_game_id \in Int, NEW done,
         JoinedRPS(game_lobby, game_lobby[1].RPSGame, fd, unique_game_id, done),
         game_lobby' = done.games
  PROVE  Seated(fd)
<1> DEFINE games == game_lobby
           uid == unique_game_id
           ttt == games[1].TTTGame
           rps == games[1].RPSGame
           a(kind) == SeqExt!FlattenSeq(InGames(games, kind))
           x == << fd, uid >>
           y == << rps.fd_client_player_one, rps.unique_game_id_player_one >>
<1>0. /\ games \in Seq(Nodes) /\ Len(games) >= 1 /\ games[1].game_type = 0
      /\ 1 \in 1..Len(games)
  BY BoundsAssumption DEF IInv, ListFits, HeadFits
<1>1. ttt \in TTTRecords /\ rps \in RPSRecords
  BY <1>0, NodeTypes
<1>2. a(TTT_GAME) \in Seq(SeatRecords) /\ a(RPS_GAME) \in Seq(SeatRecords)
  BY <1>0, SeatsTyped
<1>3. fd \in Nat /\ fd # 0 /\ x \in SeatRecords /\ y \in SeatRecords
  <2>1. fd \in Nat /\ fd # 0 /\ fd \in Int
    BY FdsAreNats
  <2>2. rps.fd_client_player_one \in Int /\ rps.unique_game_id_player_one \in Int
    BY <1>1 DEF RPSRecords
  <2> QED BY <2>1, <2>2 DEF SeatRecords
<1>4. InLobby(ttt, rps, RPS_GAME) = IF rps.fd_client_player_one = 0 THEN << >> ELSE << y >>
  BY DEF InLobby, SeatKept
<1>5. /\ Seats(TTT_GAME) = a(TTT_GAME) \o InLobby(ttt, rps, TTT_GAME)
      /\ Seats(RPS_GAME) = a(RPS_GAME) \o InLobby(ttt, rps, RPS_GAME)
  BY SeatsAreInList DEF InList, Kinds
<1>6. /\ Seats(TTT_GAME)' = InList(game_lobby', TTT_GAME)
      /\ Seats(RPS_GAME)' = InList(game_lobby', RPS_GAME)
  BY SeatsAreInList DEF Kinds
<1>7. ASSUME NEW r \in RPSRecords
      PROVE  InLobby(ttt, r, TTT_GAME) = InLobby(ttt, rps, TTT_GAME)
  BY DEF InLobby
<1>8. ASSUME Seats(RPS_GAME)' = Append(Seats(RPS_GAME), x), Seats(TTT_GAME)' = Seats(TTT_GAME)
      PROVE  Seated(fd)
  BY <1>8 DEF Seated, Kinds
<1>9. CASE /\ rps.fd_client_player_one = 0
           /\ NewHead(games, done.games, ttt, [rps EXCEPT !.fd_client_player_one = fd,
                                                          !.unique_game_id_player_one = uid])
  <2> DEFINE r == [rps EXCEPT !.fd_client_player_one = fd, !.unique_game_id_player_one = uid]
  <2>1. r \in RPSRecords /\ r.fd_client_player_one = fd /\ r.unique_game_id_player_one = uid
    BY <1>1, <1>3 DEF RPSRecords
  <2>2. NewHead(games, game_lobby', ttt, r)
    BY <1>9
  <2> HIDE DEF r
  <2>3. InLobby(ttt, r, RPS_GAME) = << x >>
    BY <1>3, <2>1 DEF InLobby, SeatKept
  <2>4. /\ InList(game_lobby', TTT_GAME) = a(TTT_GAME) \o InLobby(ttt, r, TTT_GAME)
        /\ InList(game_lobby', RPS_GAME) = a(RPS_GAME) \o InLobby(ttt, r, RPS_GAME)
    BY <1>0, <1>1, <2>1, <2>2, HeadSeats DEF Kinds
  <2>5. Seats(TTT_GAME)' = Seats(TTT_GAME)
    BY <1>5, <1>6, <1>7, <2>1, <2>4
  <2>6. Seats(RPS_GAME)' = Append(Seats(RPS_GAME), x)
    <3>1. /\ Seats(RPS_GAME) = a(RPS_GAME) \o << >>
          /\ Seats(RPS_GAME)' = a(RPS_GAME) \o << x >>
      <4>1. InLobby(ttt, rps, RPS_GAME) = << >>
        BY <1>4, <1>9
      <4> HIDE DEF a, x
      <4> QED BY <1>5, <1>6, <2>3, <2>4, <4>1
    <3> HIDE DEF a, x, y
    <3> QED BY <1>2, <1>3, <3>1, SeatAppended
  <2> QED BY <1>8, <2>5, <2>6
<1>10. CASE /\ rps.fd_client_player_one > 0
            /\ NewGame(games, done.games, RPSNode(rps, fd, uid), ttt,
                       [rps EXCEPT !.unique_game_id_player_one = 0,
                                   !.unique_game_id_player_two = 0,
                                   !.fd_client_player_one = 0, !.fd_client_player_two = 0])
  <2> DEFINE r == [rps EXCEPT !.unique_game_id_player_one = 0, !.unique_game_id_player_two = 0,
                              !.fd_client_player_one = 0, !.fd_client_player_two = 0]
             node == RPSNode(rps, fd, uid)
  <2>1. r \in RPSRecords /\ r.fd_client_player_one = 0
    <3>1. \A b, c \in Int, d, e \in Nat :
            [rps EXCEPT !.unique_game_id_player_one = b, !.unique_game_id_player_two = c,
                        !.fd_client_player_one = d, !.fd_client_player_two = e] \in RPSRecords
      BY <1>1 DEF RPSRecords
    <3>2. 0 \in Nat /\ 0 \in Int
      OBVIOUS
    <3>3. r \in RPSRecords
      BY <3>1, <3>2
    <3> QED BY <1>1, <3>3 DEF RPSRecords
  <2>2. NewGame(games, game_lobby', node, ttt, r)
    BY <1>10
  <2>3. node.game_type = RPS_GAME /\ SeatsOf(node) = << y, x >>
    BY DEF RPSNode, Node, NewRPSGame, SeatsOf
  <2> HIDE DEF r, node
  <2>4. InLobby(ttt, r, RPS_GAME) = << >>
    BY <2>1 DEF InLobby, SeatKept
  <2>5. ASSUME NEW kind \in Kinds
        PROVE  InList(game_lobby', kind)
                 = (a(kind) \o (IF node.game_type = kind THEN SeatsOf(node) ELSE << >>))
                     \o InLobby(ttt, r, kind)
    <3>1. WithNode(games, game_lobby', kind, node, ttt, r)
      BY <1>0, <1>1, <2>1, <2>2, <2>5, NewGameSeats
    <3> QED BY <3>1 DEF WithNode
  <2>6. Seats(TTT_GAME)' = Seats(TTT_GAME)
    <3>1. Seats(TTT_GAME)' = (a(TTT_GAME) \o << >>) \o InLobby(ttt, rps, TTT_GAME)
      <4>1. InList(game_lobby', TTT_GAME) = (a(TTT_GAME) \o << >>) \o InLobby(ttt, r, TTT_GAME)
        BY <2>3, <2>5 DEF Kinds
      <4> QED BY <1>6, <1>7, <2>1, <4>1
    <3>2. a(TTT_GAME) \o << >> = a(TTT_GAME)
      <4> HIDE DEF a
      <4> QED BY <1>2
    <3> QED BY <1>5, <3>1, <3>2
  <2>7. Seats(RPS_GAME)' = Append(Seats(RPS_GAME), x)
    <3>1. /\ Seats(RPS_GAME) = a(RPS_GAME) \o << y >>
          /\ Seats(RPS_GAME)' = (a(RPS_GAME) \o << y, x >>) \o << >>
      <4>1. rps.fd_client_player_one # 0
        BY <1>10
      <4>2. InList(game_lobby', RPS_GAME) = (a(RPS_GAME) \o << y, x >>) \o << >>
        BY <2>3, <2>4, <2>5 DEF Kinds
      <4> QED BY <1>4, <1>5, <1>6, <4>1, <4>2
    <3> DEFINE before == a(RPS_GAME)
    <3>2. before \in Seq(SeatRecords)
      BY <1>2
    <3>3. /\ Seats(RPS_GAME) = before \o << y >>
          /\ Seats(RPS_GAME)' = (before \o << y, x >>) \o << >>
      BY <3>1
    <3> HIDE DEF before, a, x, y
    <3>4. (before \o << y, x >>) \o << >> = Append(before \o << y >>, x)
      BY ONLY <1>3, <3>2, SeatAppended
    <3> QED BY ONLY <3>3, <3>4
  <2> QED BY <1>8, <2>6, <2>7
<1> QED BY <1>9, <1>10 DEF JoinedRPS

\* A request for a new game seats the client who asks, or asks for no kind there is.
LEMMA JoiningSeats ==
  ASSUME IInv, NEW fd \in Fds, NEW request \in Requests, NewConnection(fd, request)
  PROVE  Seated(fd)
<1> DEFINE uid == unique_game_id
           kind == received_data'.payload_second_byte
           done == HandleNewConnection(game_lobby, fd, uid, kind)
<1>0. /\ game_lobby \in Seq(Nodes) /\ Len(game_lobby) >= 1 /\ uid \in Int /\ fd \in Nat
  BY BoundsAssumption, FdsAreNats DEF IInv, ListFits
<1>1. game_lobby' = done.games
  BY DEF NewConnection
<1>2. CASE kind = TTT_GAME
  <2>1. done = JoinTTT(game_lobby, fd, uid)
    BY <1>2 DEF HandleNewConnection
  <2> HIDE DEF done
  <2>2. JoinedTTT(game_lobby, game_lobby[1].TTTGame, fd, uid, done)
    BY <1>0, <2>1, JoinTTTResult
  <2> QED BY <1>0, <1>1, <2>2, JoiningTTTSeats
<1>3. CASE kind = RPS_GAME
  <2>1. done = JoinRPS(game_lobby, fd, uid)
    BY <1>3 DEF HandleNewConnection
  <2> HIDE DEF done
  <2>2. JoinedRPS(game_lobby, game_lobby[1].RPSGame, fd, uid, done)
    BY <1>0, <2>1, JoinRPSResult
  <2> QED BY <1>0, <1>1, <2>2, JoiningRPSSeats
<1>4. CASE kind # TTT_GAME /\ kind # RPS_GAME
  <2>1. done = Lobbied(game_lobby, << >>)
    BY <1>4 DEF HandleNewConnection
  <2>2. game_lobby' = game_lobby
    BY <1>1, <2>1 DEF Lobbied
  <2> QED BY <2>2, SeatsAreInList DEF Seated
<1> QED BY <1>2, <1>3, <1>4

\* The same kind of game with the same clients under the same ids.
SamePlayersIn(node, old) ==
  /\ node.game_type = old.game_type
  /\ node.TTTGame.client_x = old.TTTGame.client_x
  /\ node.TTTGame.client_o = old.TTTGame.client_o
  /\ node.TTTGame.client_x_uid = old.TTTGame.client_x_uid
  /\ node.TTTGame.client_o_uid = old.TTTGame.client_o_uid
  /\ node.RPSGame.fd_client_player_one = old.RPSGame.fd_client_player_one
  /\ node.RPSGame.fd_client_player_two = old.RPSGame.fd_client_player_two
  /\ node.RPSGame.unique_game_id_player_one = old.RPSGame.unique_game_id_player_one
  /\ node.RPSGame.unique_game_id_player_two = old.RPSGame.unique_game_id_player_two

\* A play disturbs no seat.
LEMMA PlayingSeats ==
  ASSUME IInv, NEW fd \in Fds, NEW request \in Requests,
         PlayTTT(fd, request) \/ PlayRPS(fd, request)
  PROVE  \A kind \in Kinds : Seats(kind)' = Seats(kind)
<1>0. /\ game_lobby \in Seq(Nodes) /\ 1 \in 1..Len(game_lobby)
      /\ \A i \in Games(game_lobby) : i \in 1..Len(game_lobby)
  BY BoundsAssumption DEF IInv, ListFits, Games
<1>1. ASSUME NEW place \in 1..Len(game_lobby), NEW node, NewNode(game_lobby, game_lobby', place, node),
             SamePlayersIn(node, game_lobby[place]), NEW kind \in Kinds
      PROVE  Seats(kind)' = Seats(kind)
  <2>1. \A i \in 1..Len(game_lobby) : game_lobby'[i] = IF i = place THEN node ELSE game_lobby[i]
    BY <1>1 DEF NewNode
  <2> DEFINE old == game_lobby[place]
  <2>2. SeatsOf(node) = SeatsOf(old) /\ node.game_type = old.game_type
    BY <1>1 DEF SeatsOf, SamePlayersIn
  <2>3. InGames(game_lobby', kind) = InGames(game_lobby, kind)
    <3>1. \A i \in 1..Len(game_lobby) :
            /\ game_lobby'[i].game_type = kind <=> game_lobby[i].game_type = kind
            /\ game_lobby[i].game_type = kind => SeatsOf(game_lobby'[i]) = SeatsOf(game_lobby[i])
      BY <1>1, <2>1, <2>2
    <3>2. Len(game_lobby') = Len(game_lobby)
      BY <1>1 DEF NewNode
    <3> QED BY <3>1, <3>2, SeatsKept
  <2>4. InLobby(game_lobby'[1].TTTGame, game_lobby'[1].RPSGame, kind)
          = InLobby(game_lobby[1].TTTGame, game_lobby[1].RPSGame, kind)
    BY <1>0, <1>1, <2>1 DEF InLobby, SeatKept, SamePlayersIn
  <2> QED BY <1>1, <2>3, <2>4, SeatsAreInList DEF InList
<1>2. CASE PlayTTT(fd, request)
  <2>1. PICK e, turn, node :
          /\ e \in TTTRecords
          /\ Addressed \in Games(game_lobby)
          /\ e = [game_lobby[Addressed].TTTGame EXCEPT
                    !.received_move = received_data'.payload_first_byte]
          /\ Sound(e)
          /\ turn = Mainaroo(e)
          /\ node = [game_lobby[Addressed] EXCEPT !.TTTGame = turn.env]
          /\ NewNode(game_lobby, game_lobby', Addressed, node)
    BY <1>2, PlayTTTStep
  <2>2. /\ Addressed \in 1..Len(game_lobby) /\ game_lobby[Addressed] \in Nodes
        /\ game_lobby[Addressed].TTTGame \in TTTRecords
    BY <1>0, <2>1, NodeTypes
  <2>3. SameGame(e, turn.env)
    BY <2>1, MainarooGame
  <2>4. /\ turn.env.client_x = game_lobby[Addressed].TTTGame.client_x
        /\ turn.env.client_o = game_lobby[Addressed].TTTGame.client_o
        /\ turn.env.client_x_uid = game_lobby[Addressed].TTTGame.client_x_uid
        /\ turn.env.client_o_uid = game_lobby[Addressed].TTTGame.client_o_uid
    BY <2>1, <2>2, <2>3 DEF SameGame, TTTRecords
  <2>5. /\ node.game_type = game_lobby[Addressed].game_type /\ node.TTTGame = turn.env
        /\ node.RPSGame = game_lobby[Addressed].RPSGame
    BY <2>1, <2>2 DEF Nodes
  <2>6. SamePlayersIn(node, game_lobby[Addressed])
    BY <2>4, <2>5 DEF SamePlayersIn
  <2> QED BY ONLY <1>1, <2>1, <2>2, <2>6
<1>3. CASE PlayRPS(fd, request)
  <2>1. PICK e, turn, node :
          /\ e \in RPSRecords
          /\ Addressed \in 1..Len(game_lobby)
          /\ e = [game_lobby[Addressed].RPSGame EXCEPT
                    !.fd_current_client = fd,
                    !.move_received = received_data'.payload_first_byte]
          /\ TurnOf(e, turn.env, turn.out)
          /\ node = [game_lobby[Addressed] EXCEPT !.RPSGame = turn.env]
          /\ NewNode(game_lobby, game_lobby', Addressed, node)
    BY <1>3, PlayRPSStep
  <2>2. game_lobby[Addressed] \in Nodes /\ game_lobby[Addressed].RPSGame \in RPSRecords
    BY <1>0, <2>1, NodeTypes
  <2> DEFINE old == game_lobby[Addressed].RPSGame
  <2>3. /\ turn.env.fd_client_player_one = old.fd_client_player_one
        /\ turn.env.fd_client_player_two = old.fd_client_player_two
        /\ turn.env.unique_game_id_player_one = old.unique_game_id_player_one
        /\ turn.env.unique_game_id_player_two = old.unique_game_id_player_two
    BY <2>1, <2>2 DEF TurnOf, SamePlayers, RPSRecords
  <2>4. /\ node.game_type = game_lobby[Addressed].game_type /\ node.RPSGame = turn.env
        /\ node.TTTGame = game_lobby[Addressed].TTTGame
    BY <2>1, <2>2 DEF Nodes
  <2>5. SamePlayersIn(node, game_lobby[Addressed])
    BY <2>3, <2>4 DEF SamePlayersIn
  <2> QED BY ONLY <1>1, <2>1, <2>2, <2>5
<1> QED BY <1>2, <1>3

\* At the start nobody is seated.
LEMMA NobodySeated ==
  ASSUME Init
  PROVE  \A kind \in Kinds : Seats(kind) = << >>
<1>1. PICK one \in Unset, two \in Unset, play_one \in Unset, play_two \in Unset :
        game_lobby = InitLobbies(one, two, play_one, play_two)
  BY DEF Init
<1> DEFINE rps == [EmptyRPSLobby EXCEPT !.client_one_play = play_one,
                                        !.client_two_play = play_two]
           head == Node(0, one, two, EmptyTTTLobby, rps)
<1>2. game_lobby = << head >>
  BY <1>1 DEF InitLobbies
<1>3. /\ head.game_type = 0 /\ head.TTTGame.client_x = 0 /\ head.RPSGame.fd_client_player_one = 0
  BY DEF Node, EmptyTTTLobby, NewTTTGame, EmptyRPSLobby, NewRPSGame
<1> HIDE DEF head
<1>4. Len(game_lobby) = 1 /\ game_lobby[1] = head
  BY <1>2
<1>5. ASSUME NEW kind \in Kinds PROVE Seats(kind) = << >>
  <2> DEFINE s == InGames(game_lobby, kind)
  <2>1. Len(s) = 1 /\ s[1] = << >> /\ Len(s) \in Nat /\ Len(s) # 0
    <3>1. s = << << >> >>
      BY <1>3, <1>4, <1>5 DEF Kinds, InGames
    <3> QED BY <3>1
  <2> HIDE DEF s
  <2>2. PICK f : Flattens(f, Len(s), s) /\ SeqExt!FlattenSeq(s) = f[Len(s)]
    BY <2>1, FlattenIs
  <2>3. SeqExt!FlattenSeq(s) = << >>
    BY <2>1, <2>2 DEF Flattens
  <2>4. InLobby(game_lobby[1].TTTGame, game_lobby[1].RPSGame, kind) = << >>
    BY <1>3, <1>4 DEF InLobby, SeatKept
  <2>5. Seats(kind) = SeqExt!FlattenSeq(s) \o InLobby(game_lobby[1].TTTGame, game_lobby[1].RPSGame, kind)
    BY <1>5, SeatsAreInList DEF InList, s
  <2> QED BY <2>3, <2>4, <2>5
<1> QED BY <1>5

\* Clients are paired in the order in which they ask, and no play, departure or descriptor
\* used again disturbs a seat that was taken (handle_new_connection and the lobbies at the
\* head of the list): the server implements Matchmaking.
THEOREM SeatsInOrder == Spec => SeatsInOrderOfArrival
<1> DEFINE seats == [game_type \in {TTT_GAME, RPS_GAME} |-> Seats(game_type)]
<1>1. Init => Lobbies!Init
  <2> SUFFICES ASSUME Init PROVE Lobbies!Init
    OBVIOUS
  <2>1. \A kind \in Kinds : Seats(kind) = << >>
    BY NobodySeated
  <2>2. unique_game_id = 3
    BY DEF Init
  <2> QED BY <2>1, <2>2 DEF Lobbies!Init, Kinds
<1>2. ASSUME \A kind \in Kinds : Seats(kind)' = Seats(kind) PROVE seats' = seats
  BY <1>2 DEF Kinds
<1>3. ASSUME game_lobby' = game_lobby PROVE seats' = seats
  BY <1>2, <1>3, SeatsAreInList
<1>4. ASSUME NEW fd \in Fds, Seated(fd), unique_game_id' = unique_game_id
      PROVE  Lobbies!Next \/ (unique_game_id' = unique_game_id /\ seats' = seats)
  <2>1. CASE \A kind \in Kinds : Seats(kind)' = Seats(kind)
    BY <1>2, <1>4, <2>1
  <2>2. ASSUME NEW asked \in Kinds,
               Seats(asked)' = Append(Seats(asked), << fd, unique_game_id >>),
               \A kind \in Kinds \ {asked} : Seats(kind)' = Seats(kind)
        PROVE  Lobbies!Next
    <3>1. seats' = [seats EXCEPT ![asked] = Append(@, << fd, unique_game_id >>)]
      BY <2>2 DEF Kinds
    <3>2. Lobbies!TakeSeat(fd, asked)
      BY <1>4, <3>1 DEF Lobbies!TakeSeat
    <3> QED BY <1>4, <2>2, <3>2 DEF Lobbies!Next, Kinds
  <2> QED BY <1>4, <2>1, <2>2 DEF Seated
<1>5. IInv /\ [Next]_vars
        => Lobbies!Next \/ (unique_game_id' = unique_game_id /\ seats' = seats)
  <2> SUFFICES ASSUME IInv, [Next]_vars
               PROVE  Lobbies!Next \/ (unique_game_id' = unique_game_id /\ seats' = seats)
    OBVIOUS
  <2>1. CASE UNCHANGED vars
    BY <1>3, <2>1 DEF vars
  <2>2. CASE Unasked
    <3>1. seats' = seats
      BY <1>3, <2>2, UnaskedIsQuiet
    <3>2. unique_game_id' \in {unique_game_id, unique_game_id + 1}
      BY <2>2 DEF Unasked, AcceptFails, Accept, Close, Disconnect, EmptyDatagram, ClientLeaves
    <3> QED BY <3>1, <3>2 DEF Lobbies!Next, Lobbies!Issue
  <2>3. ASSUME NEW fd \in Fds, NEW request \in Requests, Request(fd, request)
        PROVE  Lobbies!Next \/ (unique_game_id' = unique_game_id /\ seats' = seats)
    <3>1. CASE NewConnection(fd, request)
      <4>1. unique_game_id' = unique_game_id
        BY <3>1 DEF NewConnection
      <4> QED BY <1>4, <2>3, <3>1, <4>1, JoiningSeats
    <3>2. CASE PlayTTT(fd, request) \/ PlayRPS(fd, request)
      <4>1. unique_game_id' = unique_game_id
        BY <3>2 DEF PlayTTT, PlayRPS
      <4> QED BY <1>2, <2>3, <3>2, <4>1, PlayingSeats
    <3>3. CASE UnknownGame(fd, request) \/ PlayTTTOutOfTurn(fd, request)
      BY <1>3, <3>3 DEF UnknownGame, PlayTTTOutOfTurn
    <3> QED BY <2>3, <3>1, <3>2, <3>3 DEF Request
  <2> QED BY <2>1, <2>2, <2>3, Steps
<1>6. IInv /\ [Next]_vars => [Lobbies!Next]_<< unique_game_id, seats >>
  BY <1>5
<1> QED BY <1>1, <1>6, Invariance, PTL DEF Spec, SeatsInOrderOfArrival, Lobbies!Spec
=============================================================================
