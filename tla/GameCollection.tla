--------------------------- MODULE GameCollection ---------------------------
(***************************************************************************)
(* The list of games (GameCollection_LinkedList.c), as a sequence of       *)
(* nodes.  The first node is the head: its two environments are the        *)
(* lobbies, in which the first client who asks for a game waits for the    *)
(* second.  The others are games, the oldest first; the program removes    *)
(* none of them.                                                           *)
(***************************************************************************)
EXTENDS TTT_FSM, RPS_FSM

Node(game_type, one, two, ttt, rps) ==
  [game_type |-> game_type, uid_client_one |-> one, uid_client_two |-> two,
   TTTGame |-> ttt, RPSGame |-> rps]

\* The lobbies, with nobody in them.
EmptyTTTLobby == NewTTTGame(0, 2, 0, 2)
EmptyRPSLobby == NewRPSGame(0, 0, 0, 0)

Lobby(game_lobby) == game_lobby[1]

Games(game_lobby) == 2..Len(game_lobby)

\* init_lobbies.  It does not set the head's own ids, nor the plays of its
\* RPSGame: one, two, play_one and play_two are what they happen to hold.
InitLobbies(one, two, play_one, play_two) ==
  << Node(0, one, two, EmptyTTTLobby,
          [EmptyRPSLobby EXCEPT !.client_one_play = play_one,
                                !.client_two_play = play_two]) >>

\* insert_new_ttt_game, insert_new_rps_game: at the end of the list.  The
\* environment of the other game is never looked at.
InsertNewTTTGame(game_lobby, env) ==
  Append(game_lobby, Node(TTT_GAME, env.client_x_uid, env.client_o_uid, env, EmptyRPSLobby))

InsertNewRPSGame(game_lobby, env) ==
  Append(game_lobby, Node(RPS_GAME, env.unique_game_id_player_one,
                          env.unique_game_id_player_two, EmptyTTTLobby, env))

\* reset_ttt_lobby, reset_rps_lobby.
ResetTTTLobby(game_lobby) ==
  [game_lobby EXCEPT ![1].TTTGame.client_x_uid = 2, ![1].TTTGame.client_o_uid = 2,
                     ![1].TTTGame.client_x = 0, ![1].TTTGame.client_o = 0]

ResetRPSLobby(game_lobby) ==
  [game_lobby EXCEPT ![1].RPSGame.unique_game_id_player_one = 0,
                     ![1].RPSGame.unique_game_id_player_two = 0,
                     ![1].RPSGame.fd_client_player_one = 0,
                     ![1].RPSGame.fd_client_player_two = 0]

IsEitherUid(node, uid) == node.uid_client_one = uid \/ node.uid_client_two = uid

IsBothUids(node, uid) == node.uid_client_one = uid /\ node.uid_client_two = uid

\* What return_link_by_uid returns for "no such game", and for the others the
\* index of the node.
NoLink == 0

\* Variant of ReturnLinkByUid: the last node is returned unexamined.
LinkUnexamined(game_lobby, uid) ==
  LET both == {i \in 1..Len(game_lobby) : IsBothUids(game_lobby[i], uid)}
  IN  IF both = {} THEN Len(game_lobby)
      ELSE CHOOSE i \in both : \A j \in both : i <= j

\* return_link_by_uid: the walk stops at the first node both of whose ids are
\* the wanted one, or at the last node, which will do if either of its ids is.
ReturnLinkByUid(game_lobby, uid) ==
  LET both == {i \in 1..Len(game_lobby) : IsBothUids(game_lobby[i], uid)}
      last == Len(game_lobby)
  IN  IF both # {} THEN CHOOSE i \in both : \A j \in both : i <= j
      ELSE IF IsEitherUid(game_lobby[last], uid) THEN last
      ELSE NoLink
=============================================================================
