------------------------------- MODULE V2_FSM -------------------------------
(***************************************************************************)
(* One turn of tic-tac-toe as the second and third servers play it         *)
(* (v2_FSM.c).  Lines, ties and the switch of players are the same text as *)
(* in server.c, and FirstServer defines them.                              *)
(***************************************************************************)
EXTENDS Fsm

First == INSTANCE FirstServer

X == First!X
O == First!O

WAIT == 1
VALIDATE == 2
TURNOVER == 3
GAMEOVER == 4

\* Variant of TurnTable: the row of game_over is missing.
TurnTableWithoutGameOver ==
  << Row(FSM_INIT, VALIDATE, "validate_input"),
     Row(VALIDATE, WAIT, "invalid_move"),
     Row(VALIDATE, TURNOVER, "accepted_move"),
     Row(WAIT, VALIDATE, "validate_input"),
     Row(TURNOVER, FSM_EXIT, "terminate"),
     Row(GAMEOVER, FSM_EXIT, "terminate") >>

TurnTable ==
  << Row(FSM_INIT, VALIDATE, "validate_input"),
     Row(VALIDATE, WAIT, "invalid_move"),
     Row(VALIDATE, GAMEOVER, "game_over"),
     Row(VALIDATE, TURNOVER, "accepted_move"),
     Row(WAIT, VALIDATE, "validate_input"),
     Row(TURNOVER, FSM_EXIT, "terminate"),
     Row(GAMEOVER, FSM_EXIT, "terminate") >>

Msg(fd, code, arg) == [to |-> fd, code |-> code, arg |-> arg]

\* check_board, for the byte received.
CheckBoard(env) ==
  LET position == env.byte_input - First!OFFSET
  IN  IF env.game_board[position] = First!BLANK_SPACE
        THEN [env EXCEPT !.game_board[position] = env.current_player,
                         !.response_type = "ACCEPTED"]
        ELSE [env EXCEPT !.response_type = "INVALID"]

CheckWin(env) == First!CheckWin(env).ret = First!GAMEOVER

Winner(env) == First!Winner(env)

SwitchPlayers(env) == First!SwitchPlayers(env)

\* A square that is taken ends the turn like one that is free.
ValidateInput(env) ==
  LET marked == CheckBoard(env)
  IN  IF First!IsDigit(env.byte_input)
        THEN Result(marked, << >>, IF CheckWin(marked) THEN GAMEOVER ELSE TURNOVER)
        ELSE Result([env EXCEPT !.response_type = "INVALID"],
                    << Msg(env.fd_current_player, "INVALID", 0),
                       Msg(env.fd_current_player, "GAME_ID", env.game_ID) >>, WAIT)

AcceptedMove(env) ==
  LET next == SwitchPlayers(env)
  IN  Result(next,
             << Msg(env.fd_current_player, env.response_type, 0),
                Msg(next.fd_current_player, "GAME_ID", env.game_ID),
                Msg(next.fd_current_player, "INVITE", 0),
                Msg(next.fd_current_player, "BOARD", 0) >>, FSM_EXIT)

GameOver(env) ==
  LET results(x, o) == << Msg(env.fd_client_X, x, 0), Msg(env.fd_client_O, o, 0) >>
      winner == Winner(env)
  IN  Result([env EXCEPT !.game_over = TRUE],
             CASE winner = X -> results("WIN", "LOSE")
               [] winner = O -> results("LOSE", "WIN")
               [] OTHER -> results("TIE", "TIE"),
             FSM_EXIT)

\* mainaroo, and whether the engine found its row.  After validate_input it has at most
\* one handler more to run, and none if the move is refused, for WAIT has the value of
\* FSM_EXIT.
Mainaroo(env) ==
  LET validated  == ValidateInput(env)
      next       == FsmTransition(TurnTable, VALIDATE, validated.ret)
      turn(done) == [env |-> done.env, out |-> validated.out \o done.out, off_table |-> FALSE]
  IN  CASE validated.ret = FSM_EXIT -> turn(Result(validated.env, << >>, FSM_EXIT))
        [] validated.ret # FSM_EXIT /\ next = "accepted_move" -> turn(AcceptedMove(validated.env))
        [] validated.ret # FSM_EXIT /\ next = "game_over" -> turn(GameOver(validated.env))
        [] OTHER -> [turn(validated) EXCEPT !.off_table = TRUE]
=============================================================================
