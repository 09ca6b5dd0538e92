------------------------------ MODULE TTT_FSM ------------------------------
(***************************************************************************)
(* The handlers of a tic-tac-toe turn (v3_TTT_FSM.c), as functions of the  *)
(* game's environment record.  A square holds BLANK_SPACE or the socket    *)
(* descriptor of the client who marked it.  Each handler returns the       *)
(* environment it leaves, the messages it sends, in order, and the id of   *)
(* the state it asks the engine to enter.                                  *)
(***************************************************************************)
EXTENDS Protocol, Fsm

Cells == 0..8

\* The state ids.  They start at 0, so WAIT has the value of FSM_EXIT.
INIT == 0
WAIT == 1
VALIDATE == 2
TURNOVER == 3
GAMEOVER == 4
ERROR == 5

\* Variants of TTTTable: the row of a state the turn ends in is missing.
TTTTableWithoutTurnover ==
  << Row(FSM_INIT, VALIDATE, "validate_input"), Row(VALIDATE, GAMEOVER, "game_over") >>
TTTTableWithoutGameOver ==
  << Row(FSM_INIT, VALIDATE, "validate_input"), Row(VALIDATE, TURNOVER, "accepted_move") >>

TTTTable == << Row(FSM_INIT, VALIDATE, "validate_input"),
               Row(VALIDATE, WAIT, "invalid_move"),
               Row(VALIDATE, GAMEOVER, "game_over"),
               Row(VALIDATE, TURNOVER, "accepted_move"),
               Row(WAIT, VALIDATE, "validate_input"),
               Row(TURNOVER, FSM_EXIT, "terminate"),
               Row(GAMEOVER, FSM_EXIT, "terminate") >>

\* Variant of NewTTTGame: the client who completes the pair moves first.
NewTTTGameOFirst(x, x_uid, o, o_uid) ==
  [client_x |-> x, client_x_uid |-> x_uid, client_o |-> o, client_o_uid |-> o_uid,
   fd_current_player |-> o, game_board |-> [c \in Cells |-> BLANK_SPACE],
   play_count |-> 0, game_over |-> FALSE, received_move |-> 0, winner |-> 0]

\* The environment of a new game.  The program leaves received_move and winner
\* unset; both are written before they are first read.
NewTTTGame(x, x_uid, o, o_uid) ==
  [client_x |-> x, client_x_uid |-> x_uid, client_o |-> o, client_o_uid |-> o_uid,
   fd_current_player |-> x, game_board |-> [c \in Cells |-> BLANK_SPACE],
   play_count |-> 0, game_over |-> FALSE, received_move |-> 0, winner |-> 0]

-----------------------------------------------------------------------------
(* The board.                                                              *)

\* Squares i, j and k carry the same mark.
Full(board, i, j, k) ==
  board[i] = board[j] /\ board[k] = board[j] /\ board[i] # BLANK_SPACE

FullRow(board, r) == Full(board, r, r + 1, r + 2)
FullCol(board, c) == Full(board, c, c + 3, c + 6)
FullDiagonal(board) == Full(board, 0, 4, 8)
FullAntiDiagonal(board) == Full(board, 2, 4, 6)

HasLine(board) ==
  \/ \E r \in {0, 3, 6} : FullRow(board, r)
  \/ \E c \in {0, 1, 2} : FullCol(board, c)
  \/ FullDiagonal(board)
  \/ FullAntiDiagonal(board)

\* Each check overwrites winner when it finds a line, and all three run: the
\* last one that finds a line decides.  The anti-diagonal stores the mark of
\* square 0.
CheckRows(board, winner) ==
  IF \E r \in {0, 3, 6} : FullRow(board, r)
    THEN LET first == CHOOSE r \in {0, 3, 6} :
                        /\ FullRow(board, r)
                        /\ \A q \in {0, 3, 6} : q < r => ~FullRow(board, q)
         IN  Int8(board[first])
    ELSE winner

\* Variant of CheckCols: the winner is read one square too far.
CheckColsOffByOne(board, winner) ==
  IF \E c \in {0, 1, 2} : FullCol(board, c)
    THEN Int8(board[1 + CHOOSE c \in {0, 1, 2} : FullCol(board, c)])
    ELSE winner

CheckCols(board, winner) ==
  IF \E c \in {0, 1, 2} : FullCol(board, c)
    THEN LET first == CHOOSE c \in {0, 1, 2} :
                        /\ FullCol(board, c)
                        /\ \A q \in {0, 1, 2} : q < c => ~FullCol(board, q)
         IN  Int8(board[first])
    ELSE winner

CheckDiagonals(board, winner) ==
  IF FullDiagonal(board) \/ FullAntiDiagonal(board) THEN Int8(board[0]) ELSE winner

WinnerOf(board, winner) ==
  CheckDiagonals(board, CheckCols(board, CheckRows(board, winner)))

-----------------------------------------------------------------------------
(* What the handlers send.                                                 *)

SendAccepted(env) == << Msg(env.fd_current_player, "ACCEPTED", 0) >>

SendDecline(env) == << Msg(env.fd_current_player, "INVALID_ACTION", 0) >>

SendUpdate(env) == << Msg(env.fd_current_player, "MOVE_MADE", env.received_move) >>

\* Variant of SendWinLoss: O's victory is reported as X's defeat to both.
SendLossToBoth(env) ==
  SendAccepted(env) \o
  IF env.client_x = env.winner
    THEN << Msg(env.client_x, "WIN", env.received_move),
            Msg(env.client_o, "LOSS", env.received_move) >>
    ELSE << Msg(env.client_x, "LOSS", env.received_move),
            Msg(env.client_o, "LOSS", env.received_move) >>

\* send_win_loss_game: a winner who is neither client is told nothing, and
\* neither is anybody else.
SendWinLoss(env) ==
  LET results(x, o) == SendAccepted(env) \o << Msg(env.client_x, x, env.received_move),
                                              Msg(env.client_o, o, env.received_move) >>
  IN  IF env.client_x = env.winner THEN results("WIN", "LOSS")
      ELSE IF env.client_o = env.winner THEN results("LOSS", "WIN")
      ELSE << >>

SendTie(env) == SendAccepted(env) \o << Msg(env.client_x, "TIE", env.received_move),
                                       Msg(env.client_o, "TIE", env.received_move) >>

-----------------------------------------------------------------------------
(* The handlers.                                                           *)

\* Variant of IsPlayable: the square need not be empty.
IsOnBoard(env) == env.received_move \in Cells

\* check_board: may the received move be made?
IsPlayable(env) ==
  /\ env.received_move \in Cells
  /\ env.game_board[env.received_move] = BLANK_SPACE

Mark(env) == [env EXCEPT !.game_board[env.received_move] = env.fd_current_player]

\* Variant of CheckWin: a tie is expected one move late, as in server.c.
CheckWinTieAtNine(env) ==
  LET won == [env EXCEPT !.winner = WinnerOf(env.game_board, env.winner)]
  IN  IF HasLine(env.game_board) THEN Result(won, SendWinLoss(won), GAMEOVER)
      ELSE IF env.play_count = 9 THEN Result(env, SendTie(env), GAMEOVER)
      ELSE Result(env, << >>, TURNOVER)

\* check_win, on the board with the move made.
CheckWin(env) ==
  LET won == [env EXCEPT !.winner = WinnerOf(env.game_board, env.winner)]
  IN  IF HasLine(env.game_board) THEN Result(won, SendWinLoss(won), GAMEOVER)
      ELSE IF env.play_count = 8 THEN Result(env, SendTie(env), GAMEOVER)
      ELSE Result(env, << >>, TURNOVER)

ValidateInput(env) ==
  IF IsPlayable(env) THEN CheckWin(Mark(env)) ELSE Result(env, SendDecline(env), WAIT)

InvalidMove(env) == Result(env, SendDecline(env), VALIDATE)

OtherPlayer(env) ==
  IF env.fd_current_player = env.client_x THEN env.client_o
  ELSE IF env.fd_current_player = env.client_o THEN env.client_x
  ELSE env.fd_current_player

\* Variant of SwitchPlayers: play_count is not advanced.
SwitchWithoutCounting(env) == [env EXCEPT !.fd_current_player = OtherPlayer(env)]

SwitchPlayers(env) == [env EXCEPT !.play_count = @ + 1,
                                  !.fd_current_player = OtherPlayer(env)]

\* Variant of AcceptedMove: the players are switched before the move is answered.
AcceptAfterSwitch(env) ==
  LET next == SwitchPlayers(env)
  IN  Result(next, SendAccepted(next) \o SendUpdate(next), FSM_EXIT)

AcceptedMove(env) ==
  LET next == SwitchPlayers(env)
  IN  Result(next, SendAccepted(env) \o SendUpdate(next), FSM_EXIT)

\* Variant of GameOver: the flag is not set.
GameOverUnset(env) == Result(env, << >>, FSM_EXIT)

GameOver(env) == Result([env EXCEPT !.game_over = TRUE], << >>, FSM_EXIT)

\* The handlers of the table that return (terminate exits the process).
Handlers == {"validate_input", "invalid_move", "accepted_move", "game_over"}

Perform(handler, env) ==
  CASE handler = "validate_input" -> ValidateInput(env)
    [] handler = "invalid_move"   -> InvalidMove(env)
    [] handler = "accepted_move"  -> AcceptedMove(env)
    [] handler = "game_over"      -> GameOver(env)

-----------------------------------------------------------------------------
(* The whole turn.                                                         *)

\* Variant of Mainaroo: what validate_input sent is forgotten.
MainarooLosingResults(env) ==
  LET first == ValidateInput(env)
      then  == Perform(FsmTransition(TTTTable, VALIDATE, first.ret), first.env)
  IN  IF first.ret = FSM_EXIT THEN first ELSE then

\* mainaroo, as its caller sees it.  The engine enters VALIDATE, and then the
\* state validate_input asks for, unless that has the value of FSM_EXIT.
\* TicTacToe runs the same handlers one by one.
Mainaroo(env) ==
  LET first == ValidateInput(env)
      then  == Perform(FsmTransition(TTTTable, VALIDATE, first.ret), first.env)
  IN  IF first.ret = FSM_EXIT THEN first
      ELSE Result(then.env, first.out \o then.out, then.ret)
=============================================================================
