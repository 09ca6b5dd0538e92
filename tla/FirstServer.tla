---------------------------- MODULE FirstServer ----------------------------
(***************************************************************************)
(* The handlers of the first server (server.c): one game of tic-tac-toe    *)
(* over two connections, with the accept calls and the blocking reads in   *)
(* the table of the engine.  The handlers are functions of the environment *)
(* record, and return a Result as those of TTT_FSM do.  A connection is    *)
(* named by a number; a message is one byte, sent by a call of its own.    *)
(***************************************************************************)
EXTENDS Fsm

Board == INSTANCE TTT_FSM

WELCOME == 1
INVITE == 4
INVALID == 5
ACCEPTED == 6
WIN == 7
LOSE == 8
TIE == 9

OFFSET == 48
LOWER_0 == 47
UPPER_8 == 57

X == 88
O == 79
BLANK_SPACE == 45

Cells == 0..8

BlankBoard == [c \in Cells |-> BLANK_SPACE]

ACCEPT_PLAYER_X == 1
ACCEPT_PLAYER_O == 2
READY == 3
WAIT == 4
VALIDATE == 5
END == 6
GAMEOVER == 7
ERROR == 8

FirstTable ==
  << Row(FSM_INIT, ACCEPT_PLAYER_X, "server_on"),
     Row(ACCEPT_PLAYER_X, ERROR, "terminate"),
     Row(ACCEPT_PLAYER_X, ACCEPT_PLAYER_O, "connect_player_o"),
     Row(ACCEPT_PLAYER_O, READY, "send_assignment"),
     Row(READY, WAIT, "waiting_for_client"),
     Row(WAIT, FSM_EXIT, "terminate"),
     Row(WAIT, VALIDATE, "validate_input"),
     Row(WAIT, WAIT, "waiting_for_client"),
     Row(VALIDATE, WAIT, "send_response_to_client"),
     Row(VALIDATE, READY, "waiting_for_client"),
     Row(VALIDATE, GAMEOVER, "game_over"),
     Row(GAMEOVER, FSM_EXIT, "terminate"),
     Row(GAMEOVER, READY, "send_assignment"),
     Row(WAIT, ACCEPT_PLAYER_O, "connect_player_o") >>

-----------------------------------------------------------------------------

Byte(c, byte) == [to |-> c, byte |-> byte]

\* The environment before the first player is accepted.  The program leaves all of
\* it but play_count unset, and writes each field before it reads it.
NewEnv ==
  [current_player |-> X, fd_current_player |-> 0, fd_client_X |-> 0, fd_client_O |-> 0,
   response_type |-> INVALID, game_board |-> BlankBoard, play_count |-> 0, one_byte |-> 0]

\* server_on, when it has accepted this connection.
ServerOn(env, c) ==
  Result([env EXCEPT !.fd_client_X = c, !.fd_current_player = c, !.current_player = X],
         << >>, ACCEPT_PLAYER_O)

ConnectPlayerO(env, c) == Result([env EXCEPT !.fd_client_O = c], << >>, READY)

SendAssignment(env) ==
  Result([env EXCEPT !.game_board = BlankBoard],
         << Byte(env.fd_client_X, WELCOME), Byte(env.fd_client_X, X),
            Byte(env.fd_client_O, WELCOME), Byte(env.fd_client_O, O) >>, WAIT)

\* Variant of PlayerLost: O's connection is not made X's.
PlayerLostKeepingX(env) ==
  IF env.fd_current_player = env.fd_client_X
    THEN [env EXCEPT !.fd_current_player = env.fd_client_O]
    ELSE [env EXCEPT !.fd_current_player = env.fd_client_X]

\* The player whose turn it is has left: the other one is X from now on, and has
\* the turn; current_player stays.
PlayerLost(env) ==
  IF env.fd_current_player = env.fd_client_X
    THEN [env EXCEPT !.fd_current_player = env.fd_client_O, !.fd_client_X = env.fd_client_O]
    ELSE [env EXCEPT !.fd_current_player = env.fd_client_X]

\* waiting_for_client blocks with one_byte cleared ...
Entered(handler, env) ==
  IF handler = "waiting_for_client" THEN [env EXCEPT !.one_byte = 0] ELSE env

\* ... until read returns a byte, or none (0) at end of file.
WaitingForClient(env, byte) ==
  IF byte = 0 THEN Result(PlayerLost(env), << >>, ACCEPT_PLAYER_O)
  ELSE Result([env EXCEPT !.one_byte = byte], << >>, VALIDATE)

IsDigit(byte) == LOWER_0 < byte /\ byte < UPPER_8

\* check_board: the square of the received byte is marked if it is free.
CheckBoard(env) ==
  LET position == env.one_byte - OFFSET
  IN  IF env.game_board[position] = BLANK_SPACE
        THEN [env EXCEPT !.game_board[position] = env.current_player,
                         !.response_type = ACCEPTED]
        ELSE [env EXCEPT !.response_type = INVALID]

\* Variant of IsTie: the count has no limit.
IsTieNever(env) == FALSE

IsTie(env) == env.play_count = 9

\* check_win, whose three line checks are those of v3_TTT_FSM.c.
CheckWin(env) ==
  Result(env, << >>, IF Board!HasLine(env.game_board) \/ IsTie(env) THEN GAMEOVER ELSE WAIT)

\* The winner check_win leaves for game_over, which runs next.
Winner(env) ==
  IF Board!HasLine(env.game_board) THEN Board!WinnerOf(env.game_board, BLANK_SPACE)
  ELSE BLANK_SPACE

\* The win is looked for even if the square was taken.
ValidateInput(env) ==
  IF IsDigit(env.one_byte) THEN CheckWin(CheckBoard(env))
  ELSE Result([env EXCEPT !.response_type = INVALID], << >>, WAIT)

\* A player who sits on neither seat keeps the turn.
SwitchPlayers(env) ==
  LET counted == [env EXCEPT !.play_count = @ + 1]
  IN  IF env.fd_current_player = env.fd_client_X
        THEN [counted EXCEPT !.fd_current_player = env.fd_client_O, !.current_player = O]
      ELSE IF env.fd_current_player = env.fd_client_O
        THEN [counted EXCEPT !.fd_current_player = env.fd_client_X, !.current_player = X]
      ELSE counted

Invitation(env) ==
  << Byte(env.fd_current_player, INVITE) >>
    \o [n \in 1..9 |-> Byte(env.fd_current_player, env.game_board[n - 1])]

\* Variant of SendResponse: the board is sent as it was before the move.
SendResponseUnmarked(env) ==
  LET next == SwitchPlayers(env)
      old  == [next EXCEPT !.game_board[env.one_byte - OFFSET] = BLANK_SPACE]
  IN  IF env.response_type = ACCEPTED
        THEN Result(next, << Byte(env.fd_current_player, ACCEPTED) >> \o Invitation(old), WAIT)
        ELSE Result(env, << Byte(env.fd_current_player, INVALID) >>, WAIT)

SendResponse(env) ==
  LET next == SwitchPlayers(env)
  IN  IF env.response_type = ACCEPTED
        THEN Result(next, << Byte(env.fd_current_player, ACCEPTED) >> \o Invitation(next), WAIT)
        ELSE Result(env, << Byte(env.fd_current_player, INVALID) >>, WAIT)

\* game_over: the results; the turn stays where it is.  (Each goes to a connection of
\* its own, so their order does not matter.)
GameOver(env) ==
  LET results(x, o) == << Byte(env.fd_client_X, x), Byte(env.fd_client_O, o) >>
  IN  Result(env,
             CASE Winner(env) = X -> results(WIN, LOSE)
               [] Winner(env) = O -> results(LOSE, WIN)
               [] OTHER -> results(TIE, TIE),
             READY)
=============================================================================
