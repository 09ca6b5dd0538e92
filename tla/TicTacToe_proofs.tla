-------------------------- MODULE TicTacToe_proofs --------------------------
(***************************************************************************)
(* Proofs about TicTacToe, for any set of descriptors, ids and move bytes: *)
(* its types, that the engine always finds its row, that no line is        *)
(* overlooked and that marks are final; then how the turns alternate, who  *)
(* is answered and told what, and that a game between ordinary players is  *)
(* one of NoughtsAndCrosses.                                               *)
(***************************************************************************)
EXTENDS TicTacToe, TTT_FSM_proofs

USE DEF FSM_INIT, FSM_EXIT, WAIT, VALIDATE, TURNOVER, GAMEOVER, ERROR

-----------------------------------------------------------------------------
(* The handlers.                                                           *)

\* Descriptors are integers.
LEMMA FdsAreInts == \A fd \in Fds : fd \in Int
BY FdsAssumption

\* TTT_FSM_proofs is about the environments of this game too.
LEMMA EnvsAreRecords == \A e \in TTTEnvs : e \in TTTRecords
<1> SUFFICES ASSUME NEW e \in TTTEnvs PROVE e \in TTTRecords
  OBVIOUS
<1>1. /\ \A fd \in Fds : fd \in Nat
      /\ \A uid \in Uids : uid \in Int
      /\ BLANK_SPACE \in Nat
  BY FdsAssumption, UidsAssumption DEF BLANK_SPACE
<1>2. e.game_board \in [Cells -> Nat]
  <2>1. e.game_board \in [Cells -> Fds \cup {BLANK_SPACE}]
    BY DEF TTTEnvs
  <2> QED BY <1>1, <2>1
<1> QED BY <1>1, <1>2 DEF TTTEnvs, TTTRecords

\* A message to a client of the game is a message.
LEMMA MsgType ==
  ASSUME NEW fd \in Fds, NEW code \in Codes, NEW arg \in Int
  PROVE  << Msg(fd, code, arg) >> \in Seq(Messages)
BY FdsAssumption DEF Msg, Messages

\* What validate_input leaves.  Either the move is refused and nothing changes,
\* or the player in turn has marked one free square; a line is never met with
\* anything but the end of the game.
LEMMA ValidateInputResult ==
  ASSUME NEW e \in TTTEnvs
  PROVE  LET r == ValidateInput(e) IN
         /\ r.env \in TTTEnvs
         /\ r.out \in Seq(Messages)
         /\ r.ret \in {FSM_EXIT, TURNOVER, GAMEOVER}
         /\ r.env.game_over = e.game_over
         /\ r.ret = FSM_EXIT => r.env = e
         /\ r.ret = TURNOVER => ~HasLine(r.env.game_board)
         /\ \A c \in Cells : r.env.game_board[c] # e.game_board[c] =>
              c = e.received_move /\ e.game_board[c] = BLANK_SPACE
<1> DEFINE marked == Mark(e)
           won == [marked EXCEPT !.winner = WinnerOf(marked.game_board, marked.winner)]
<1>1. ASSUME NEW f \in TTTEnvs
      PROVE  /\ SendAccepted(f) \in Seq(Messages)
             /\ SendDecline(f) \in Seq(Messages)
             /\ SendTie(f) \in Seq(Messages)
             /\ SendWinLoss(f) \in Seq(Messages)
  <2>1. /\ f.client_x \in Int /\ f.client_o \in Int
        /\ f.fd_current_player \in Int /\ f.received_move \in Int
    <3>1. /\ f.client_x \in Fds /\ f.client_o \in Fds
          /\ f.fd_current_player \in Fds /\ f.received_move \in -128..127
      BY DEF TTTEnvs
    <3>2. f.received_move \in Int
      BY <3>1
    <3> QED BY <3>1, <3>2, FdsAreInts
  <2>2. ASSUME NEW code \in Codes, NEW arg \in Int, NEW fd \in Int
        PROVE  Msg(fd, code, arg) \in Messages
    BY DEF Msg, Messages
  <2>3. {"ACCEPTED", "INVALID_ACTION", "TIE", "WIN", "LOSS"} \subseteq Codes
    BY DEF Codes
  <2>4. SendAccepted(f) \in Seq(Messages) /\ SendDecline(f) \in Seq(Messages)
    BY <2>1, <2>2, <2>3 DEF SendAccepted, SendDecline
  <2>5. ASSUME NEW code1 \in Codes, NEW code2 \in Codes
        PROVE  << Msg(f.client_x, code1, f.received_move),
                  Msg(f.client_o, code2, f.received_move) >> \in Seq(Messages)
    BY <2>1, <2>2
  <2>6. SendTie(f) \in Seq(Messages)
    BY <2>3, <2>4, <2>5 DEF SendTie
  <2>7. SendWinLoss(f) \in Seq(Messages)
    BY <2>3, <2>4, <2>5 DEF SendWinLoss
  <2> QED BY <2>4, <2>6, <2>7
<1>2. CASE ~IsPlayable(e)
  BY <1>1, <1>2 DEF ValidateInput, Result
<1>3. CASE IsPlayable(e)
  <2>1. marked \in TTTEnvs
    BY <1>3 DEF Mark, IsPlayable, TTTEnvs
  <2>2. marked.game_over = e.game_over
    BY DEF Mark, TTTEnvs
  <2>3. \A c \in Cells : marked.game_board[c] # e.game_board[c] =>
          c = e.received_move /\ e.game_board[c] = BLANK_SPACE
    BY <1>3 DEF Mark, IsPlayable, TTTEnvs
  <2>4. WinnerOf(marked.game_board, marked.winner) \in -128..127
    <3>1. marked.game_board \in [Cells -> Nat] /\ marked.winner \in -128..127
      BY <2>1, EnvsAreRecords DEF TTTRecords
    <3> QED BY <3>1, WinnerFits
  <2> HIDE DEF marked
  <2>5. /\ won \in TTTEnvs
        /\ won.game_over = marked.game_over
        /\ won.game_board = marked.game_board
    BY <2>1, <2>4 DEF TTTEnvs
  <2>6. ValidateInput(e) = IF HasLine(marked.game_board)
                             THEN Result(won, SendWinLoss(won), GAMEOVER)
                           ELSE IF marked.play_count = 8
                             THEN Result(marked, SendTie(marked), GAMEOVER)
                           ELSE Result(marked, << >>, TURNOVER)
    BY <1>3 DEF ValidateInput, CheckWin, marked
  <2> HIDE DEF won
  <2>7. << >> \in Seq(Messages)
    OBVIOUS
  <2> QED BY <1>1, <2>1, <2>2, <2>3, <2>5, <2>6, <2>7 DEF Result
<1> QED BY <1>2, <1>3

\* What accepted_move leaves: the same board, and the turn with a player.
LEMMA AcceptedMoveResult ==
  ASSUME NEW e \in TTTEnvs
  PROVE  LET r == AcceptedMove(e) IN
         /\ r.env \in TTTEnvs
         /\ r.out \in Seq(Messages)
         /\ r.ret = FSM_EXIT
         /\ r.env.game_board = e.game_board
         /\ r.env.game_over = e.game_over
<1> DEFINE next == SwitchPlayers(e)
<1>1. OtherPlayer(e) \in Fds
  BY DEF OtherPlayer, TTTEnvs
<1>2. /\ next \in TTTEnvs
      /\ next.game_board = e.game_board
      /\ next.game_over = e.game_over
  <2>1. next = [e EXCEPT !.play_count = e.play_count + 1,
                         !.fd_current_player = OtherPlayer(e)]
    BY DEF SwitchPlayers
  <2>2. e.play_count \in Nat
    BY DEF TTTEnvs
  <2>3. e.play_count + 1 \in Nat
    BY <2>2
  <2> HIDE DEF next
  <2>4. \A n \in Nat, fd \in Fds :
          [e EXCEPT !.play_count = n, !.fd_current_player = fd] \in TTTEnvs
    BY DEF TTTEnvs
  <2>5. next \in TTTEnvs
    BY <1>1, <2>1, <2>3, <2>4
  <2>6. next.game_board = e.game_board /\ next.game_over = e.game_over
    BY <2>1 DEF TTTEnvs
  <2> QED BY <2>5, <2>6
<1> HIDE DEF next
<1>3. ASSUME NEW f \in TTTEnvs
      PROVE  SendAccepted(f) \in Seq(Messages) /\ SendUpdate(f) \in Seq(Messages)
  <2>1. f.fd_current_player \in Fds /\ f.received_move \in Int
    BY DEF TTTEnvs
  <2>2. "ACCEPTED" \in Codes /\ "MOVE_MADE" \in Codes
    BY DEF Codes
  <2> QED BY <2>1, <2>2, MsgType DEF SendAccepted, SendUpdate
<1>4. AcceptedMove(e) = Result(next, SendAccepted(e) \o SendUpdate(next), FSM_EXIT)
  BY DEF AcceptedMove, next
<1>5. SendAccepted(e) \o SendUpdate(next) \in Seq(Messages)
  BY <1>2, <1>3
<1> QED BY <1>2, <1>4, <1>5 DEF Result

-----------------------------------------------------------------------------
(* The inductive invariant: besides the types, where the engine can be, and *)
(* that a line on the board has ended the game or is about to.              *)

\* The server is in select, or the engine is about to dispatch one of the three
\* pairs of ids its table has a row for.
AtDispatch ==
  /\ pc \in {"select", "run"}
  /\ pc = "run" => << from_id, to_id >> \in { << FSM_INIT, VALIDATE >>,
                                            << VALIDATE, TURNOVER >>,
                                            << VALIDATE, GAMEOVER >> }

\* A line on the board has ended the game, or validate_input has just found it.
LineEndsGame ==
  HasLine(env.game_board) => env.game_over \/ (pc = "run" /\ to_id = GAMEOVER)

IInv == TypeOK /\ AtDispatch /\ LineEndsGame

\* A blank board has no line.
LEMMA BlankBoard == ~HasLine([c \in Cells |-> BLANK_SPACE])
BY DEF HasLine, FullRow, FullCol, FullDiagonal, FullAntiDiagonal, Full, Cells

\* The invariant holds of a new game.
LEMMA InitIInv == Init => IInv
<1> SUFFICES ASSUME Init PROVE IInv
  OBVIOUS
<1>1. PICK x \in Fds, o \in Fds, xu \in Uids, ou \in Uids : env = NewTTTGame(x, xu, o, ou)
  BY DEF Init
<1>2. env \in TTTEnvs
  BY <1>1 DEF NewTTTGame, TTTEnvs
<1>3. env.game_board = [c \in Cells |-> BLANK_SPACE]
  BY <1>1 DEF NewTTTGame
<1>4. from_id = FSM_INIT /\ to_id = FSM_EXIT /\ pc = "select" /\ out = << >>
  BY DEF Init
<1>5. TypeOK
  BY <1>2, <1>4 DEF TypeOK, StateIds
<1>6. AtDispatch
  BY <1>4 DEF AtDispatch
<1>7. LineEndsGame
  BY <1>3, BlankBoard DEF LineEndsGame
<1> QED BY <1>5, <1>6, <1>7 DEF IInv

\* A step of the engine that enters VALIDATE runs validate_input.
LEMMA ValidateStep ==
  ASSUME FsmStep, from_id = FSM_INIT, to_id = VALIDATE
  PROVE  /\ env' = ValidateInput(env).env
         /\ out' = out \o ValidateInput(env).out
         /\ from_id' = VALIDATE
         /\ to_id' = ValidateInput(env).ret
         /\ pc' = IF ValidateInput(env).ret = FSM_EXIT THEN "select" ELSE "run"
<1>1. FsmTransition(TTTTable, from_id, to_id) = "validate_input"
  BY RowsFound
<1>2. Perform("validate_input", env) = ValidateInput(env)
  BY DEF Perform
<1> QED BY <1>1, <1>2 DEF FsmStep, Handlers

\* One that enters TURNOVER runs accepted_move.
LEMMA AcceptedStep ==
  ASSUME FsmStep, from_id = VALIDATE, to_id = TURNOVER
  PROVE  /\ env' = AcceptedMove(env).env
         /\ out' = out \o AcceptedMove(env).out
         /\ from_id' = TURNOVER
         /\ to_id' = AcceptedMove(env).ret
         /\ pc' = IF AcceptedMove(env).ret = FSM_EXIT THEN "select" ELSE "run"
<1>1. FsmTransition(TTTTable, from_id, to_id) = "accepted_move"
  BY RowsFound
<1>2. Perform("accepted_move", env) = AcceptedMove(env)
  BY DEF Perform
<1> QED BY <1>1, <1>2 DEF FsmStep, Handlers

\* One that enters GAMEOVER runs game_over.
LEMMA GameOverStep ==
  ASSUME FsmStep, from_id = VALIDATE, to_id = GAMEOVER
  PROVE  /\ env' = GameOver(env).env
         /\ out' = out \o GameOver(env).out
         /\ from_id' = GAMEOVER
         /\ to_id' = GameOver(env).ret
         /\ pc' = IF GameOver(env).ret = FSM_EXIT THEN "select" ELSE "run"
<1>1. FsmTransition(TTTTable, from_id, to_id) = "game_over"
  BY RowsFound
<1>2. Perform("game_over", env) = GameOver(env)
  BY DEF Perform
<1> QED BY <1>1, <1>2 DEF FsmStep, Handlers

\* Every step of the specification keeps the invariant.
LEMMA NextIInv == IInv /\ [Next]_vars => IInv'
<1> SUFFICES ASSUME IInv, [Next]_vars PROVE IInv'
  OBVIOUS
<1>0. TypeOK /\ AtDispatch /\ LineEndsGame /\ env \in TTTEnvs /\ out \in Seq(Messages)
  BY DEF IInv, TypeOK
<1>1. ASSUME NEW move \in Moves, PlayInTurn(move) PROVE IInv'
  <2>1. move \in -128..127
    BY MovesAssumption
  <2>2. env' = [env EXCEPT !.received_move = move] /\ from_id' = FSM_INIT /\ to_id' = VALIDATE
        /\ pc = "select" /\ pc' = "run" /\ out' = << >>
    BY <1>1 DEF PlayInTurn
  <2>3. env' \in TTTEnvs /\ env'.game_board = env.game_board /\ env'.game_over = env.game_over
    BY <1>0, <2>1, <2>2 DEF TTTEnvs
  <2>4. out' \in Seq(Messages)
    BY <2>2
  <2>5. TypeOK'
    BY <2>2, <2>3, <2>4 DEF TypeOK, StateIds
  <2>6. AtDispatch'
    BY <2>2 DEF AtDispatch
  <2>7. LineEndsGame'
    BY <1>0, <2>2, <2>3 DEF LineEndsGame
  <2> QED BY <2>5, <2>6, <2>7 DEF IInv
<1>2. ASSUME NEW fd \in Fds, PlayOutOfTurn(fd) PROVE IInv'
  <2>1. UNCHANGED << env, from_id, to_id, pc >>
    BY <1>2 DEF PlayOutOfTurn
  <2>2. "OUT_OF_TURN" \in Codes
    BY DEF Codes
  <2>3. out' \in Seq(Messages)
    BY <1>2, <2>2, MsgType DEF PlayOutOfTurn
  <2> QED BY <1>0, <2>1, <2>3 DEF IInv, TypeOK, AtDispatch, LineEndsGame
<1>3. ASSUME FsmStep PROVE IInv'
  <2>0. pc = "run"
    BY <1>3 DEF FsmStep
  <2>1. CASE from_id = FSM_INIT /\ to_id = VALIDATE
    <3> DEFINE done == ValidateInput(env)
    <3>1. /\ env' = done.env /\ out' = out \o done.out
          /\ from_id' = VALIDATE /\ to_id' = done.ret
          /\ pc' = IF done.ret = FSM_EXIT THEN "select" ELSE "run"
      BY <1>3, <2>1, ValidateStep
    <3>2. /\ done.env \in TTTEnvs
          /\ done.out \in Seq(Messages)
          /\ done.ret \in {FSM_EXIT, TURNOVER, GAMEOVER}
          /\ done.env.game_over = env.game_over
          /\ done.ret = FSM_EXIT => done.env = env
          /\ done.ret = TURNOVER => ~HasLine(done.env.game_board)
      BY <1>0, ValidateInputResult
    <3> HIDE DEF done
    <3>3. out' \in Seq(Messages)
      BY <1>0, <3>1, <3>2
    <3>4. TypeOK'
      BY <3>1, <3>2, <3>3 DEF TypeOK, StateIds
    <3>5. AtDispatch'
      BY <3>1, <3>2 DEF AtDispatch
    <3>6. LineEndsGame'
      <4>1. CASE done.ret = FSM_EXIT
        BY <1>0, <2>1, <3>1, <3>2, <4>1 DEF LineEndsGame
      <4>2. CASE done.ret = TURNOVER
        BY <3>1, <3>2, <4>2 DEF LineEndsGame
      <4>3. CASE done.ret = GAMEOVER
        BY <3>1, <4>3 DEF LineEndsGame
      <4> QED BY <3>2, <4>1, <4>2, <4>3
    <3> QED BY <3>4, <3>5, <3>6 DEF IInv
  <2>2. CASE from_id = VALIDATE /\ to_id = TURNOVER
    <3> DEFINE done == AcceptedMove(env)
    <3>1. /\ env' = done.env /\ out' = out \o done.out
          /\ from_id' = TURNOVER /\ to_id' = done.ret
          /\ pc' = IF done.ret = FSM_EXIT THEN "select" ELSE "run"
      BY <1>3, <2>2, AcceptedStep
    <3>2. /\ done.env \in TTTEnvs
          /\ done.out \in Seq(Messages)
          /\ done.ret = FSM_EXIT
          /\ done.env.game_board = env.game_board
          /\ done.env.game_over = env.game_over
      BY <1>0, AcceptedMoveResult
    <3> HIDE DEF done
    <3>3. out' \in Seq(Messages)
      BY <1>0, <3>1, <3>2
    <3>4. TypeOK'
      BY <3>1, <3>2, <3>3 DEF TypeOK, StateIds
    <3>5. AtDispatch'
      BY <3>1, <3>2 DEF AtDispatch
    <3>6. LineEndsGame'
      BY <1>0, <2>2, <3>1, <3>2 DEF LineEndsGame
    <3> QED BY <3>4, <3>5, <3>6 DEF IInv
  <2>3. CASE from_id = VALIDATE /\ to_id = GAMEOVER
    <3> DEFINE done == GameOver(env)
    <3>1. /\ env' = done.env /\ out' = out \o done.out
          /\ from_id' = GAMEOVER /\ to_id' = done.ret
          /\ pc' = IF done.ret = FSM_EXIT THEN "select" ELSE "run"
      BY <1>3, <2>3, GameOverStep
    <3>2. done.env = [env EXCEPT !.game_over = TRUE] /\ done.out = << >> /\ done.ret = FSM_EXIT
      BY DEF GameOver, Result
    <3> HIDE DEF done
    <3>3. env' \in TTTEnvs /\ env'.game_over
      BY <1>0, <3>1, <3>2 DEF TTTEnvs
    <3>4. out' \in Seq(Messages)
      BY <1>0, <3>1, <3>2
    <3>5. TypeOK'
      BY <3>1, <3>2, <3>3, <3>4 DEF TypeOK, StateIds
    <3>6. AtDispatch'
      BY <3>1, <3>2 DEF AtDispatch
    <3>7. LineEndsGame'
      BY <3>3 DEF LineEndsGame
    <3> QED BY <3>5, <3>6, <3>7 DEF IInv
  <2> QED BY <1>0, <2>0, <2>1, <2>2, <2>3 DEF AtDispatch
<1>4. CASE UNCHANGED vars
  BY <1>0, <1>4 DEF vars, IInv, TypeOK, AtDispatch, LineEndsGame
<1> QED BY <1>1, <1>2, <1>3, <1>4 DEF Next

\* The invariant holds throughout.
THEOREM Invariance == Spec => []IInv
<1> QED BY InitIInv, NextIInv, PTL DEF Spec

-----------------------------------------------------------------------------
(* What follows from it.                                                   *)

\* Every variable keeps its type; the winner stored is always an int8_t.
THEOREM TypeCorrect == Spec => []TypeOK
<1>1. IInv => TypeOK
  BY DEF IInv
<1> QED BY <1>1, Invariance, PTL

\* The scan of the table never runs past its end, and no turn ends the process.
THEOREM EngineOnTable == Spec => []EngineStaysOnTable
<1>1. IInv => EngineStaysOnTable
  BY DEF IInv, AtDispatch, EngineStaysOnTable
<1> QED BY <1>1, Invariance, PTL

\* Between turns, a board with a line belongs to a game that is flagged over,
\* whatever the descriptors of the players.
THEOREM LinesEndGames == Spec => []NoLineOverlooked
<1>1. IInv => NoLineOverlooked
  BY DEF IInv, LineEndsGame, NoLineOverlooked
<1> QED BY <1>1, Invariance, PTL

\* Marks stay, and a step makes at most one.
LEMMA MarksKept ==
  IInv /\ [Next]_vars =>
    [\A c, d \in Cells : env'.game_board[c] # env.game_board[c] =>
       /\ env.game_board[c] = BLANK_SPACE
       /\ env'.game_board[d] # env.game_board[d] => d = c]_vars
<1> DEFINE Kept == \A c, d \in Cells : env'.game_board[c] # env.game_board[c] =>
                     /\ env.game_board[c] = BLANK_SPACE
                     /\ env'.game_board[d] # env.game_board[d] => d = c
<1> SUFFICES ASSUME IInv, Next PROVE Kept
  OBVIOUS
<1>0. env \in TTTEnvs /\ AtDispatch
  BY DEF IInv, TypeOK
<1>1. ASSUME NEW move \in Moves, PlayInTurn(move) PROVE Kept
  <2>1. env'.game_board = env.game_board
    BY <1>0, <1>1 DEF PlayInTurn, TTTEnvs
  <2> QED BY <2>1
<1>2. ASSUME NEW fd \in Fds, PlayOutOfTurn(fd) PROVE Kept
  <2>1. env' = env
    BY <1>2 DEF PlayOutOfTurn
  <2> QED BY <2>1
<1>3. ASSUME FsmStep PROVE Kept
  <2>0. pc = "run"
    BY <1>3 DEF FsmStep
  <2>1. CASE from_id = FSM_INIT /\ to_id = VALIDATE
    <3>1. env' = ValidateInput(env).env
      BY <1>3, <2>1, ValidateStep
    <3>2. \A c \in Cells : env'.game_board[c] # env.game_board[c] =>
            c = env.received_move /\ env.game_board[c] = BLANK_SPACE
      BY <1>0, <3>1, ValidateInputResult
    <3> QED BY <3>2
  <2>2. CASE from_id = VALIDATE /\ to_id = TURNOVER
    <3>1. env'.game_board = env.game_board
      BY <1>0, <1>3, <2>2, AcceptedStep, AcceptedMoveResult
    <3> QED BY <3>1
  <2>3. CASE from_id = VALIDATE /\ to_id = GAMEOVER
    <3>1. env' = GameOver(env).env
      BY <1>3, <2>3, GameOverStep
    <3>2. env'.game_board = env.game_board
      BY <1>0, <3>1 DEF GameOver, Result, TTTEnvs
    <3> QED BY <3>2
  <2> QED BY <1>0, <2>0, <2>1, <2>2, <2>3 DEF AtDispatch
<1> QED BY <1>1, <1>2, <1>3 DEF Next

\* No request, in turn or not, ever changes a square that was marked, or marks
\* two squares at once.
THEOREM MarksFinal == Spec => MarksAreFinal
<1> QED BY Invariance, MarksKept, PTL DEF Spec, MarksAreFinal

-----------------------------------------------------------------------------
(* Whole games.                                                            *)

\* The engine says nothing before validate_input has run, nor when that has only
\* passed the turn.
SilentBefore == pc = "run" /\ to_id # GAMEOVER => out = << >>

\* At the end of a game the mover has been answered, once.
AnsweredAtEnd == Pending(GAMEOVER) => AnswersMover(env, out)

\* A game is flagged over, or is about to be, only when it is decided; before that
\* the marks count the turns.
TurnsCount ==
  Ordinary(env) =>
    IF env.game_over \/ Pending(GAMEOVER) THEN Decided(env.game_board)
    ELSE Counts(env, IF Pending(TURNOVER) THEN 1 ELSE 0)

\* The move that decides a game owns whatever lines there are.
DecidedByMover == Pending(GAMEOVER) /\ ~env.game_over => LinesAreMovers(env, out)

GameInv ==
  /\ IInv
  /\ SilentBefore
  /\ Theirs(env)
  /\ AnsweredAtEnd
  /\ ResultsFit(env, out)
  /\ TurnsCount
  /\ DecidedByMover

\* It holds of a new game: no square is marked and X is to move.
LEMMA InitGameInv == Init => GameInv
<1> SUFFICES ASSUME Init PROVE GameInv
  OBVIOUS
<1>1. PICK x \in Fds, o \in Fds, xu \in Uids, ou \in Uids : env = NewTTTGame(x, xu, o, ou)
  BY DEF Init
<1>2. /\ env.client_x = x /\ env.client_o = o /\ env.fd_current_player = x
      /\ env.game_board = [c \in Cells |-> BLANK_SPACE]
      /\ env.play_count = 0 /\ env.game_over = FALSE
  BY <1>1 DEF NewTTTGame
<1>3. pc = "select" /\ out = << >>
  BY DEF Init
<1>4. Theirs(env)
  BY <1>2 DEF Theirs
<1>5. ResultsFit(env, out)
  BY <1>3, NoResultFits, SilenceTold
<1>6. ASSUME Ordinary(env) PROVE Counts(env, 0)
  <2>1. Marks(env.game_board, x) = {} /\ Marks(env.game_board, o) = {}
    BY <1>2, <1>6 DEF Marks, Ordinary
  <2> QED BY <1>2, <2>1, FS_EmptySet DEF Counts
<1> QED BY <1>2, <1>3, <1>4, <1>5, <1>6, InitIInv
        DEF GameInv, SilentBefore, AnsweredAtEnd, TurnsCount, DecidedByMover, Pending

\* What a step of the engine does, in terms of where it is.
LEMMA EngineStep ==
  ASSUME GameInv, FsmStep
  PROVE  /\ pc = "run"
         /\ \/ /\ from_id = FSM_INIT /\ to_id = VALIDATE /\ out = << >>
               /\ env' = ValidateInput(env).env /\ out' = ValidateInput(env).out
               /\ from_id' = VALIDATE /\ to_id' = ValidateInput(env).ret
               /\ pc' = IF ValidateInput(env).ret = FSM_EXIT THEN "select" ELSE "run"
            \/ /\ from_id = VALIDATE /\ to_id = TURNOVER /\ out = << >>
               /\ env' = SwitchPlayers(env)
               /\ out' = SendAccepted(env) \o SendUpdate(SwitchPlayers(env))
               /\ from_id' = TURNOVER /\ to_id' = FSM_EXIT /\ pc' = "select"
            \/ /\ from_id = VALIDATE /\ to_id = GAMEOVER
               /\ env' = [env EXCEPT !.game_over = TRUE]
               /\ out' = out
               /\ from_id' = GAMEOVER /\ to_id' = FSM_EXIT /\ pc' = "select"
<1>0. /\ pc = "run" /\ AtDispatch /\ SilentBefore
      /\ env \in TTTEnvs /\ env \in TTTRecords /\ out \in Seq(Messages)
  BY EnvsAreRecords DEF GameInv, IInv, TypeOK, FsmStep
<1>1. CASE from_id = FSM_INIT /\ to_id = VALIDATE
  <2>1. out = << >>
    BY <1>0, <1>1 DEF SilentBefore
  <2>2. /\ env' = ValidateInput(env).env
        /\ out' = out \o ValidateInput(env).out
        /\ from_id' = VALIDATE
        /\ to_id' = ValidateInput(env).ret
        /\ pc' = IF ValidateInput(env).ret = FSM_EXIT THEN "select" ELSE "run"
    BY <1>1, ValidateStep
  <2>3. ValidateInput(env).out \in Seq(Messages)
    BY <1>0, ValidateInputResult
  <2>4. out' = ValidateInput(env).out
    BY <2>1, <2>2, <2>3
  <2> QED BY <1>0, <1>1, <2>1, <2>2, <2>4
<1>2. CASE from_id = VALIDATE /\ to_id = TURNOVER
  <2>1. out = << >>
    BY <1>0, <1>2 DEF SilentBefore
  <2> DEFINE msgs == SendAccepted(env) \o SendUpdate(SwitchPlayers(env))
  <2>2. AcceptedMove(env) = Result(SwitchPlayers(env), msgs, FSM_EXIT)
    BY DEF AcceptedMove
  <2>3. msgs \in Seq(Messages)
    BY <1>0, SwitchResult, TurnoverTold
  <2> HIDE DEF msgs
  <2>4. /\ env' = SwitchPlayers(env)
        /\ out' = out \o msgs
        /\ from_id' = TURNOVER
        /\ to_id' = FSM_EXIT
        /\ pc' = "select"
    BY <1>2, <2>2, AcceptedStep DEF Result
  <2>5. out' = msgs
    BY <2>1, <2>3, <2>4
  <2> QED BY <1>0, <1>2, <2>1, <2>4, <2>5 DEF msgs
<1>3. CASE from_id = VALIDATE /\ to_id = GAMEOVER
  <2>1. /\ GameOver(env).env = [env EXCEPT !.game_over = TRUE]
        /\ GameOver(env).out = << >>
        /\ GameOver(env).ret = FSM_EXIT
    BY DEF GameOver, Result
  <2>2. /\ env' = [env EXCEPT !.game_over = TRUE]
        /\ out' = out \o << >>
        /\ from_id' = GAMEOVER
        /\ to_id' = FSM_EXIT
        /\ pc' = "select"
    BY <1>3, <2>1, GameOverStep
  <2>3. out' = out
    BY <1>0, <2>2
  <2> QED BY <1>0, <1>3, <2>2, <2>3
<1> QED BY <1>0, <1>1, <1>2, <1>3 DEF AtDispatch

\* Every step of the specification keeps the invariant.
LEMMA NextGameInv == GameInv /\ [Next]_vars => GameInv'
<1> SUFFICES ASSUME GameInv, [Next]_vars PROVE GameInv'
  OBVIOUS
<1>0. /\ IInv' /\ env \in TTTEnvs /\ env \in TTTRecords /\ Theirs(env) /\ LineEndsGame
      /\ SilentBefore /\ AnsweredAtEnd /\ ResultsFit(env, out) /\ TurnsCount /\ DecidedByMover
  BY NextIInv, EnvsAreRecords DEF GameInv, IInv, TypeOK
<1>1. ASSUME NEW move \in Moves, PlayInTurn(move) PROVE GameInv'
  <2>1. /\ env' = [env EXCEPT !.received_move = move] /\ from_id' = FSM_INIT /\ to_id' = VALIDATE
        /\ pc = "select" /\ pc' = "run" /\ out' = << >>
    BY <1>1 DEF PlayInTurn
  <2>2. /\ env'.client_x = env.client_x /\ env'.client_o = env.client_o
        /\ env'.fd_current_player = env.fd_current_player
        /\ env'.game_board = env.game_board /\ env'.play_count = env.play_count
        /\ env'.game_over = env.game_over
    BY <1>0, <2>1 DEF TTTEnvs
  <2>3. Theirs(env')
    BY <1>0, <2>2 DEF Theirs
  <2>4. ResultsFit(env', out')
    BY <2>1, NoResultFits, SilenceTold
  <2>5. ~Pending(GAMEOVER) /\ ~Pending(TURNOVER) /\ ~Pending(GAMEOVER)' /\ ~Pending(TURNOVER)'
    BY <2>1 DEF Pending
  <2>6. TurnsCount'
    BY <1>0, <2>2, <2>5 DEF TurnsCount, Ordinary, Counts
  <2> QED BY <1>0, <2>1, <2>3, <2>4, <2>5, <2>6
          DEF GameInv, SilentBefore, AnsweredAtEnd, DecidedByMover
<1>2. ASSUME NEW fd \in Fds, PlayOutOfTurn(fd) PROVE GameInv'
  <2>1. /\ UNCHANGED << env, from_id, to_id, pc >> /\ pc = "select"
        /\ out' = << Msg(fd, "OUT_OF_TURN", 0) >>
    BY <1>2 DEF PlayOutOfTurn
  <2>2. Msg(fd, "OUT_OF_TURN", 0) \in Messages /\ Msg(fd, "OUT_OF_TURN", 0).code = "OUT_OF_TURN"
    BY FdsAreInts DEF Msg, Messages, Codes
  <2>3. \A code \in {"WIN", "LOSS", "TIE"} : ToldBy(out', code) = {}
    BY <2>1, <2>2, OneMessage
  <2>4. ResultsFit(env', out')
    BY <2>3, NoResultFits
  <2>5. ~Pending(GAMEOVER) /\ ~Pending(TURNOVER) /\ ~Pending(GAMEOVER)' /\ ~Pending(TURNOVER)'
    BY <2>1 DEF Pending
  <2>6. TurnsCount'
    BY <1>0, <2>1, <2>5 DEF TurnsCount
  <2> QED BY <1>0, <2>1, <2>4, <2>5, <2>6
          DEF GameInv, SilentBefore, AnsweredAtEnd, DecidedByMover
<1>3. ASSUME FsmStep PROVE GameInv'
  <2>1. ASSUME pc = "run", from_id = FSM_INIT, to_id = VALIDATE, out = << >>,
               NEW done, done = ValidateInput(env),
               env' = done.env, out' = done.out,
               to_id' = done.ret, pc' = IF done.ret = FSM_EXIT THEN "select" ELSE "run"
        PROVE  GameInv'
    <3>1. /\ SameGame(env, done.env)
          /\ done.env.game_over = env.game_over
          /\ Theirs(done.env)
          /\ ResultsFit(done.env, done.out)
          /\ done.ret \in {FSM_EXIT, GAMEOVER, TURNOVER}
          /\ done.ret # TURNOVER => AnswersMover(done.env, done.out)
          /\ done.ret = TURNOVER => done.out = << >>
          /\ done.ret = GAMEOVER /\ ~HasLine(env.game_board) => LinesAreMovers(done.env, done.out)
          /\ done.ret = FSM_EXIT => done.env = env
      BY <1>0, <2>1, ValidateGame
    <3>2. SilentBefore'
      BY <2>1, <3>1 DEF SilentBefore
    <3>3. AnsweredAtEnd'
      BY <2>1, <3>1 DEF AnsweredAtEnd, Pending
    <3>4. ~Pending(GAMEOVER) /\ ~Pending(TURNOVER)
      BY <2>1 DEF Pending
    <3>5. TurnsCount'
      <4> SUFFICES ASSUME Ordinary(env')
                   PROVE  IF env'.game_over \/ Pending(GAMEOVER)' THEN Decided(env'.game_board)
                          ELSE Counts(env', IF Pending(TURNOVER)' THEN 1 ELSE 0)
        BY DEF TurnsCount
      <4>1. Ordinary(env)
        BY <2>1, <3>1 DEF Ordinary, SameGame
      <4>2. IF env.game_over THEN Decided(env.game_board) ELSE Counts(env, 0)
        BY <1>0, <3>4, <4>1 DEF TurnsCount
      <4>3. CASE done.ret = FSM_EXIT
        <5>1. env' = env /\ ~Pending(GAMEOVER)' /\ ~Pending(TURNOVER)'
          BY <2>1, <3>1, <4>3 DEF Pending
        <5> QED BY <4>2, <5>1
      <4>4. CASE done.ret = TURNOVER
        <5>1. ~Pending(GAMEOVER)' /\ Pending(TURNOVER)'
          BY <2>1, <4>4 DEF Pending
        <5>2. ~env.game_over /\ Counts(done.env, 1)
          BY <1>0, <2>1, <4>1, <4>2, <4>4, ValidateCounts
        <5> QED BY <2>1, <3>1, <5>1, <5>2
      <4>5. CASE done.ret = GAMEOVER
        <5>1. Pending(GAMEOVER)'
          BY <2>1, <4>5 DEF Pending
        <5>2. Decided(done.env.game_board)
          BY <1>0, <2>1, <4>1, <4>2, <4>5, ValidateCounts
        <5> QED BY <2>1, <5>1, <5>2
      <4> QED BY <3>1, <4>3, <4>4, <4>5
    <3>6. DecidedByMover'
      <4>1. ~env.game_over => ~HasLine(env.game_board)
        BY <1>0, <2>1 DEF LineEndsGame
      <4> QED BY <2>1, <3>1, <4>1 DEF DecidedByMover, Pending
    <3> QED BY <1>0, <2>1, <3>1, <3>2, <3>3, <3>5, <3>6 DEF GameInv
  <2>2. ASSUME pc = "run", from_id = VALIDATE, to_id = TURNOVER,
               env' = SwitchPlayers(env),
               out' = SendAccepted(env) \o SendUpdate(SwitchPlayers(env)),
               pc' = "select"
        PROVE  GameInv'
    <3>1. /\ env' \in TTTRecords
          /\ SameGame(env, env')
          /\ env'.fd_current_player = OtherPlayer(env)
          /\ env'.game_board = env.game_board
          /\ env'.game_over = env.game_over
      BY <1>0, <2>2, SwitchResult
    <3>2. Theirs(env')
      BY <1>0, <3>1 DEF Theirs, OtherPlayer, SameGame
    <3>3. ResultsFit(env', out')
      BY <1>0, <2>2, <3>1, TurnoverTold, NoResultFits
    <3>4. ~Pending(GAMEOVER) /\ Pending(TURNOVER) /\ ~Pending(GAMEOVER)' /\ ~Pending(TURNOVER)'
      BY <2>2 DEF Pending
    <3>5. TurnsCount'
      <4> SUFFICES ASSUME Ordinary(env')
                   PROVE  IF env'.game_over THEN Decided(env'.game_board) ELSE Counts(env', 0)
        BY <3>4 DEF TurnsCount
      <4>1. Ordinary(env)
        BY <3>1 DEF Ordinary, SameGame
      <4>2. IF env.game_over THEN Decided(env.game_board) ELSE Counts(env, 1)
        BY <1>0, <3>4, <4>1 DEF TurnsCount
      <4> QED BY <1>0, <2>2, <3>1, <4>1, <4>2, SwitchCounts
    <3> QED BY <1>0, <2>2, <3>2, <3>3, <3>4, <3>5
            DEF GameInv, SilentBefore, AnsweredAtEnd, DecidedByMover
  <2>3. ASSUME pc = "run", from_id = VALIDATE, to_id = GAMEOVER,
               env' = [env EXCEPT !.game_over = TRUE], out' = out, pc' = "select"
        PROVE  GameInv'
    <3>1. /\ SameGame(env, env')
          /\ env'.fd_current_player = env.fd_current_player
          /\ env'.game_board = env.game_board
          /\ env'.game_over = TRUE
      BY <1>0, <2>3 DEF TTTEnvs, SameGame
    <3>2. Theirs(env')
      BY <1>0, <3>1 DEF Theirs, SameGame
    <3>3. ResultsFit(env', out')
      BY <1>0, <2>3, <3>1 DEF ResultsFit, SameGame, Ordinary
    <3>4. Pending(GAMEOVER) /\ ~Pending(GAMEOVER)'
      BY <2>3 DEF Pending
    <3>5. TurnsCount'
      BY <1>0, <3>1, <3>4 DEF TurnsCount, Ordinary, SameGame
    <3> QED BY <1>0, <2>3, <3>2, <3>3, <3>4, <3>5
            DEF GameInv, SilentBefore, AnsweredAtEnd, DecidedByMover
  <2> QED BY <1>3, <2>1, <2>2, <2>3, EngineStep
<1>4. CASE UNCHANGED vars
  BY <1>0, <1>4 DEF vars, GameInv, SilentBefore, AnsweredAtEnd, TurnsCount, DecidedByMover, Pending
<1> QED BY <1>1, <1>2, <1>3, <1>4 DEF Next

\* The invariant holds throughout.
THEOREM GameInvariance == Spec => []GameInv
<1> QED BY InitGameInv, NextGameInv, PTL DEF Spec

-----------------------------------------------------------------------------
(* What follows from it.                                                   *)

\* Between turns of a game that is not over, whatever bad or untimely requests came
\* in between, the marks of the two players say whose turn it is.
THEOREM TurnsAlternating == Spec => []TurnsAlternate
<1>1. GameInv => TurnsAlternate
  <2> SUFFICES ASSUME GameInv, OrdinaryPlayers, pc = "select", ~env.game_over
               PROVE  LET x == Cardinality(MarksOf(env.client_x))
                          o == Cardinality(MarksOf(env.client_o))
                      IN  /\ env.play_count = x + o
                          /\ x = IF env.fd_current_player = env.client_x THEN o ELSE o + 1
    BY DEF TurnsAlternate
  <2>1. Counts(env, 0)
    BY DEF GameInv, TurnsCount, Pending, Ordinary, OrdinaryPlayers
  <2>2. /\ MarksOf(env.client_x) = Marks(env.game_board, env.client_x)
        /\ MarksOf(env.client_o) = Marks(env.game_board, env.client_o)
    BY DEF MarksOf, Marks
  <2>3. /\ Cardinality(Marks(env.game_board, env.client_x)) \in Nat
        /\ Cardinality(Marks(env.game_board, env.client_o)) \in Nat
    <3>1. /\ env.client_x # env.client_o
          /\ env.client_x # BLANK_SPACE /\ env.client_o # BLANK_SPACE
          /\ \A c \in Cells : env.game_board[c] \in {env.client_x, env.client_o, BLANK_SPACE}
      BY DEF GameInv, Theirs, OrdinaryPlayers
    <3> QED BY <3>1, NineMarks
  <2>4. env.play_count \in Nat
    BY DEF GameInv, IInv, TypeOK, TTTEnvs
  <2> QED BY <2>1, <2>2, <2>3, <2>4 DEF Counts
<1> QED BY <1>1, GameInvariance, PTL

\* The results that one request produces agree with one another and with the board.
THEOREM ResultsAgreeing == Spec => []ResultsAgree
<1>1. GameInv => ResultsAgree
  BY DEF GameInv, ResultsFit, ResultsAgree, Ordinary, OrdinaryPlayers, Told, ToldBy, Players,
         OwnsLine, HoldsLine
<1> QED BY <1>1, GameInvariance, PTL

\* A run of the engine answers its mover once and nobody else.
THEOREM MoverAnswered == Spec => MoverIsAnsweredOnce
<1>1. GameInv /\ [Next]_vars => [pc = "run" /\ pc' = "select" => AnswersMover(env, out')]_vars
  <2> SUFFICES ASSUME GameInv, Next, pc = "run", pc' = "select" PROVE AnswersMover(env, out')
    OBVIOUS
  <2>0. env \in TTTEnvs /\ env \in TTTRecords /\ Theirs(env) /\ AnsweredAtEnd
    BY EnvsAreRecords DEF GameInv, IInv, TypeOK
  <2>1. FsmStep
    BY DEF Next, PlayInTurn, PlayOutOfTurn
  <2>2. CASE /\ env' = ValidateInput(env).env /\ out' = ValidateInput(env).out
             /\ pc' = IF ValidateInput(env).ret = FSM_EXIT THEN "select" ELSE "run"
    <3>1. ValidateInput(env).ret = FSM_EXIT
      BY <2>2
    <3> QED BY <2>0, <2>2, <3>1, ValidateGame
  <2>3. CASE out' = SendAccepted(env) \o SendUpdate(SwitchPlayers(env))
    BY <2>0, <2>3, SwitchResult, TurnoverTold
  <2>4. CASE to_id = GAMEOVER /\ out' = out
    BY <2>0, <2>4 DEF AnsweredAtEnd, Pending
  <2> QED BY <2>1, <2>2, <2>3, <2>4, EngineStep
<1> QED BY <1>1, GameInvariance, PTL
        DEF Spec, MoverIsAnsweredOnce, AnswersMover, Players, Replies, AnswersIn

\* Whoever completes a row, a column or the main diagonal, with a descriptor that winner
\* can hold, is told of the win, whatever the other descriptor is.
THEOREM NarrowOwnerTold == Spec => NarrowLineOwnerIsTold
<1> DEFINE OwnersTold ==
             EndsGame /\ env.client_x # env.client_o /\ ~FullAntiDiagonal(env.game_board) =>
               \A fd \in Players \cap 0..127 : HoldsLine(fd) => fd \in Told("WIN")'
<1>1. GameInv /\ [Next]_vars => [OwnersTold]_vars
  <2> SUFFICES ASSUME GameInv, Next, EndsGame, ~FullAntiDiagonal(env.game_board),
                      NEW fd \in Players \cap 0..127, HoldsLine(fd)
               PROVE  fd \in Told("WIN")'
    OBVIOUS
  <2>0. env \in TTTEnvs /\ env \in TTTRecords /\ Theirs(env) /\ DecidedByMover
    BY EnvsAreRecords DEF GameInv, IInv, TypeOK
  <2>1. FsmStep
    BY DEF Next, PlayInTurn, PlayOutOfTurn, EndsGame
  <2>2. Pending(GAMEOVER) /\ out' = out
    <3>1. env'.game_over # env.game_over
      BY DEF EndsGame
    <3>2. ValidateInput(env).env.game_over = env.game_over
      BY <2>0, ValidateInputResult
    <3>3. SwitchPlayers(env).game_over = env.game_over
      BY <2>0, SwitchResult
    <3> QED BY <2>1, <3>1, <3>2, <3>3, EngineStep DEF Pending
  <2>3. LinesAreMovers(env, out)
    BY <2>2 DEF GameInv, DecidedByMover, EndsGame
  <2>4. OwnsLine(env.game_board, fd) /\ HasLine(env.game_board)
    BY DEF OwnsLine, HoldsLine, HasLine
  <2>5. fd = env.fd_current_player /\ env.winner = fd
    <3>1. fd = env.fd_current_player /\ env.winner = Int8(fd)
      BY <2>3, <2>4 DEF LinesAreMovers
    <3> QED BY <3>1, Int8Same
  <2>6. fd \in ToldBy(out, "WIN")
    BY <2>3, <2>4, <2>5 DEF LinesAreMovers, Players
  <2> QED BY <2>2, <2>6 DEF Told, ToldBy
<1> QED BY <1>1, GameInvariance, PTL DEF Spec, NarrowLineOwnerIsTold

\* Handler by handler, the engine computes the turn that Mainaroo states at one stroke,
\* and that GameServer takes it to be.
THEOREM EngineIsMainaroo == Spec => EngineComputesMainaroo
<1>1. GameInv /\ [Next]_vars => [pc = "run" => Completion' = Completion]_vars
  <2> SUFFICES ASSUME GameInv, Next, pc = "run" PROVE Completion' = Completion
    OBVIOUS
  <2>0. env \in TTTEnvs /\ env \in TTTRecords /\ out \in Seq(Messages)
    BY EnvsAreRecords DEF GameInv, IInv, TypeOK
  <2>1. FsmStep
    BY DEF Next, PlayInTurn, PlayOutOfTurn
  <2>2. /\ Perform("accepted_move", env) = AcceptedMove(env)
        /\ Perform("game_over", env) = GameOver(env)
    BY DEF Perform
  <2>3. ASSUME from_id = FSM_INIT, out = << >>,
               NEW first, first = ValidateInput(env),
               env' = first.env, out' = first.out,
               from_id' = VALIDATE, to_id' = first.ret,
               pc' = IF first.ret = FSM_EXIT THEN "select" ELSE "run"
        PROVE  Completion' = Completion
    <3>1. /\ first.env \in TTTEnvs /\ first.out \in Seq(Messages)
          /\ first.ret \in {FSM_EXIT, TURNOVER, GAMEOVER}
      BY <2>0, <2>3, ValidateInputResult
    <3> DEFINE then == Perform(FsmTransition(TTTTable, VALIDATE, first.ret), first.env)
    <3>2. Mainaroo(env) = IF first.ret = FSM_EXIT THEN first
                          ELSE Result(then.env, first.out \o then.out, then.ret)
      BY <2>3 DEF Mainaroo
    <3>3. Completion = << Mainaroo(env).env, out \o Mainaroo(env).out >>
      BY <2>3 DEF Completion
    <3>4. CASE first.ret = FSM_EXIT
      <4>1. Completion' = << first.env, first.out >>
        BY <2>3, <3>4 DEF Completion
      <4>2. Completion = << first.env, out \o first.out >>
        BY <3>2, <3>3, <3>4
      <4>3. out \o first.out = first.out
        BY <2>3, <3>1
      <4> QED BY <4>1, <4>2, <4>3
    <3>5. CASE first.ret # FSM_EXIT
      <4>0. then = Perform(FsmTransition(TTTTable, from_id', to_id'), env')
        BY <2>3
      <4>1. first.ret = TURNOVER => then = AcceptedMove(first.env)
        BY RowsFound DEF Perform
      <4>2. first.ret = GAMEOVER => then = GameOver(first.env)
        BY RowsFound DEF Perform
      <4> HIDE DEF then
      <4>3. then.out \in Seq(Messages)
        <5>1. GameOver(first.env).out = << >> /\ << >> \in Seq(Messages)
          BY DEF GameOver, Result
        <5> QED BY <3>1, <3>5, <4>1, <4>2, <5>1, AcceptedMoveResult
      <4>5. Completion' = << then.env, first.out \o then.out >>
        <5>1. pc' = "run" /\ from_id' # FSM_INIT
          BY <2>3, <3>5
        <5>2. Completion' = << then.env, out' \o then.out >>
          BY ONLY <4>0, <5>1 DEF Completion
        <5> QED BY <2>3, <5>2
      <4>6. Completion = << then.env, out \o (first.out \o then.out) >>
        <5>1. Mainaroo(env) = Result(then.env, first.out \o then.out, then.ret)
          BY <3>2, <3>5
        <5> DEFINE said == first.out \o then.out
        <5> HIDE DEF said
        <5>2. Mainaroo(env) = Result(then.env, said, then.ret)
          BY <5>1 DEF said
        <5>3. Mainaroo(env).env = then.env /\ Mainaroo(env).out = said
          BY ONLY <5>2, ResultFields
        <5>4. Completion = << then.env, out \o said >>
          BY <3>3, <5>3
        <5> QED BY <5>4 DEF said
      <4>4. out \o (first.out \o then.out) = first.out \o then.out
        BY <2>3, <3>1, <4>3
      <4> QED BY <4>4, <4>5, <4>6
    <3> QED BY <3>4, <3>5
  <2>4. ASSUME from_id = VALIDATE, to_id = TURNOVER, out = << >>,
               env' = SwitchPlayers(env),
               out' = SendAccepted(env) \o SendUpdate(SwitchPlayers(env)), pc' = "select"
        PROVE  Completion' = Completion
    <3> DEFINE msgs == SendAccepted(env) \o SendUpdate(SwitchPlayers(env))
    <3>1. AcceptedMove(env).env = SwitchPlayers(env) /\ AcceptedMove(env).out = msgs
      BY DEF AcceptedMove, Result
    <3>2. msgs \in Seq(Messages)
      BY <2>0, SwitchResult, TurnoverTold
    <3>3. FsmTransition(TTTTable, from_id, to_id) = "accepted_move"
      BY <2>4, RowsFound
    <3> HIDE DEF msgs
    <3>4. Completion = << SwitchPlayers(env), out \o msgs >>
      BY <2>2, <2>4, <3>1, <3>3 DEF Completion
    <3>5. out \o msgs = msgs
      BY <2>4, <3>2
    <3>6. Completion' = << SwitchPlayers(env), msgs >>
      BY <2>4 DEF Completion, msgs
    <3> QED BY <3>4, <3>5, <3>6
  <2>5. ASSUME from_id = VALIDATE, to_id = GAMEOVER,
               env' = [env EXCEPT !.game_over = TRUE], out' = out, pc' = "select"
        PROVE  Completion' = Completion
    <3>1. GameOver(env).env = env' /\ GameOver(env).out = << >>
      BY <2>5 DEF GameOver, Result
    <3>2. FsmTransition(TTTTable, from_id, to_id) = "game_over"
      BY <2>5, RowsFound
    <3>3. Completion = << GameOver(env).env, out \o GameOver(env).out >>
      BY <2>2, <2>5, <3>2 DEF Completion
    <3>4. out \o << >> = out
      BY <2>0
    <3>5. Completion' = << env', out' >>
      BY <2>5 DEF Completion
    <3> QED BY <2>5, <3>1, <3>3, <3>4, <3>5
  <2> QED BY <2>1, <2>3, <2>4, <2>5, EngineStep
<1> QED BY <1>1, GameInvariance, PTL DEF Spec, EngineComputesMainaroo

-----------------------------------------------------------------------------
(* Refinement of NoughtsAndCrosses.                                        *)

\* The state of NoughtsAndCrosses that a state of the server stands for.
SquaresShown == Shown(env)
TurnShown == Side(env, IF Pending(TURNOVER) THEN OtherPlayer(env) ELSE env.fd_current_player)
OverShown == env.game_over \/ Pending(GAMEOVER)

\* Every step of the server is a move of the game or changes nothing in it.
LEMMA StepShown ==
  ASSUME GameInv, Ordinary(env), [Next]_vars
  PROVE  /\ Ordinary(env')
         /\ \/ \E c \in Cells :
                 /\ SquaresShown[c] = "free"
                 /\ SquaresShown' = [SquaresShown EXCEPT ![c] = TurnShown]
                 /\ IF IsDecided(SquaresShown')
                      THEN OverShown' /\ TurnShown' = TurnShown
                      ELSE (OverShown' <=> OverShown) /\ TurnShown' = Abstract!Opponent(TurnShown)
            \/ /\ SquaresShown' = SquaresShown
               /\ TurnShown' = TurnShown
               /\ OverShown' <=> OverShown
<1>0. env \in TTTEnvs /\ env \in TTTRecords /\ Theirs(env) /\ TurnsCount
  BY EnvsAreRecords DEF GameInv, IInv, TypeOK
<1> DEFINE Same == /\ Ordinary(env')
                   /\ SquaresShown' = SquaresShown
                   /\ TurnShown' = TurnShown
                   /\ OverShown' <=> OverShown
<1>1. ASSUME NEW move \in Moves, PlayInTurn(move) PROVE Same
  <2>1. env' = [env EXCEPT !.received_move = move] /\ pc = "select" /\ to_id' = VALIDATE
    BY <1>1 DEF PlayInTurn
  <2>2. /\ env'.client_x = env.client_x /\ env'.client_o = env.client_o
        /\ env'.fd_current_player = env.fd_current_player
        /\ env'.game_board = env.game_board /\ env'.game_over = env.game_over
    BY <1>0, <2>1 DEF TTTEnvs
  <2> QED BY <2>1, <2>2 DEF Ordinary, SquaresShown, TurnShown, OverShown, Pending, Shown, Side
<1>2. ASSUME NEW fd \in Fds, PlayOutOfTurn(fd) PROVE Same
  BY <1>2 DEF PlayOutOfTurn, SquaresShown, TurnShown, OverShown, Pending
<1>3. ASSUME FsmStep, ~(from_id = FSM_INIT /\ to_id = VALIDATE) PROVE Same
  <2>1. ASSUME pc = "run", to_id = TURNOVER, env' = SwitchPlayers(env), pc' = "select"
        PROVE  Same
    <3>1. /\ SameGame(env, env')
          /\ env'.fd_current_player = OtherPlayer(env)
          /\ env'.game_board = env.game_board
          /\ env'.game_over = env.game_over
      BY <1>0, <2>1, SwitchResult
    <3> QED BY <2>1, <3>1
            DEF SameGame, Ordinary, SquaresShown, TurnShown, OverShown, Pending, Shown, Side
  <2>2. ASSUME pc = "run", to_id = GAMEOVER, env' = [env EXCEPT !.game_over = TRUE],
               pc' = "select"
        PROVE  Same
    <3>1. /\ SameGame(env, env')
          /\ env'.fd_current_player = env.fd_current_player
          /\ env'.game_board = env.game_board
          /\ env'.game_over = TRUE
      BY <1>0, <2>2 DEF TTTEnvs, SameGame
    <3> QED BY <2>2, <3>1
            DEF SameGame, Ordinary, SquaresShown, TurnShown, OverShown, Pending, Shown, Side
  <2> HIDE DEF Same
  <2> QED BY <1>3, <2>1, <2>2, EngineStep
<1>4. ASSUME FsmStep, from_id = FSM_INIT, to_id = VALIDATE
      PROVE  \/ Same
             \/ /\ Ordinary(env')
                /\ \E c \in Cells :
                     /\ SquaresShown[c] = "free"
                     /\ SquaresShown' = [SquaresShown EXCEPT ![c] = TurnShown]
                     /\ IF IsDecided(SquaresShown')
                          THEN OverShown' /\ TurnShown' = TurnShown
                          ELSE /\ OverShown' <=> OverShown
                               /\ TurnShown' = Abstract!Opponent(TurnShown)
  <2> DEFINE done == ValidateInput(env)
  <2>1. /\ pc = "run" /\ env' = done.env /\ to_id' = done.ret
        /\ pc' = IF done.ret = FSM_EXIT THEN "select" ELSE "run"
    BY <1>4, EngineStep
  <2>2. /\ SameGame(env, done.env)
        /\ done.env.game_over = env.game_over
        /\ done.env.fd_current_player = env.fd_current_player
        /\ done.ret \in {FSM_EXIT, GAMEOVER, TURNOVER}
        /\ done.ret = FSM_EXIT => done.env = env
    BY <1>0, ValidateGame
  <2>3. ~Pending(GAMEOVER) /\ ~Pending(TURNOVER)
    BY <1>4 DEF Pending
  <2>4. TurnShown = Side(env, env.fd_current_player) /\ (OverShown <=> env.game_over)
    BY <2>3 DEF TurnShown, OverShown
  <2>5. CASE done.ret = FSM_EXIT
    <3>1. env' = env /\ ~Pending(GAMEOVER)' /\ ~Pending(TURNOVER)'
      BY <2>1, <2>2, <2>5 DEF Pending
    <3>2. Same
      BY <2>3, <3>1 DEF SquaresShown, TurnShown, OverShown
    <3> QED BY <3>2
  <2>6. CASE done.ret # FSM_EXIT
    <3>1. IF env.game_over THEN Decided(env.game_board) ELSE Counts(env, 0)
      BY <1>0, <2>3 DEF TurnsCount
    <3>2. /\ env.received_move \in Cells
          /\ SquaresShown[env.received_move] = "free"
          /\ SquaresShown' = [SquaresShown EXCEPT ![env.received_move] = TurnShown]
          /\ IsDecided(SquaresShown') <=> done.ret = GAMEOVER
      BY <1>0, <2>1, <2>4, <2>6, <3>1, PlayableIsPlay DEF SquaresShown
    <3>3. Ordinary(env')
      BY <2>1, <2>2 DEF Ordinary, SameGame
    <3>4. CASE done.ret = GAMEOVER
      <4>1. Pending(GAMEOVER)' /\ ~Pending(TURNOVER)'
        BY <2>1, <3>4 DEF Pending
      <4>2. OverShown' /\ TurnShown' = TurnShown
        BY <2>1, <2>2, <2>4, <4>1 DEF OverShown, TurnShown, Side, SameGame
      <4> QED BY <3>2, <3>3, <3>4, <4>2
    <3>5. CASE done.ret = TURNOVER
      <4>1. ~Pending(GAMEOVER)' /\ Pending(TURNOVER)'
        BY <2>1, <3>5 DEF Pending
      <4>2. (OverShown' <=> OverShown) /\ TurnShown' = Abstract!Opponent(TurnShown)
        <5>1. OverShown' <=> OverShown
          BY <2>1, <2>2, <2>4, <4>1 DEF OverShown
        <5>2. TurnShown' = Side(env', OtherPlayer(env'))
          BY <4>1 DEF TurnShown
        <5>3. Side(env', OtherPlayer(env')) = Abstract!Opponent(Side(env, env.fd_current_player))
          BY <1>0, <2>1, <2>2 DEF Side, OtherPlayer, Abstract!Opponent, SameGame, Theirs, Ordinary
        <5> QED BY <2>4, <5>1, <5>2, <5>3
      <4>3. ~IsDecided(SquaresShown')
        BY <3>2, <3>5
      <4> QED BY <3>2, <3>3, <4>2, <4>3
    <3> QED BY <2>2, <2>6, <3>4, <3>5
  <2> QED BY <2>5, <2>6
<1>5. CASE UNCHANGED vars
  BY <1>5 DEF vars, SquaresShown, TurnShown, OverShown, Pending
<1> QED BY <1>1, <1>2, <1>3, <1>4, <1>5 DEF Next

\* A game between ordinary players is a game of noughts and crosses: nobody plays out
\* of turn or on a marked square, and it is over exactly when it is decided.
THEOREM IsNoughtsAndCrosses == OrdinarySpec => PlaysNoughtsAndCrosses
<1>1. Init /\ OrdinaryPlayers => Abstract!Init
  <2> SUFFICES ASSUME Init PROVE Abstract!Init
    OBVIOUS
  <2>1. PICK x \in Fds, o \in Fds, xu \in Uids, ou \in Uids : env = NewTTTGame(x, xu, o, ou)
    BY DEF Init
  <2>2. /\ env.client_x = x /\ env.fd_current_player = x /\ env.game_over = FALSE
        /\ env.game_board = [c \in Cells |-> BLANK_SPACE] /\ pc = "select"
    BY <2>1 DEF NewTTTGame, Init
  <2> QED BY <2>2 DEF Abstract!Init, Abstract!Squares, Cells, Pending, Player
<1>2. GameInv /\ OrdinaryPlayers /\ [Next]_vars => OrdinaryPlayers'
  BY StepShown DEF OrdinaryPlayers, Ordinary
<1>3. GameInv /\ OrdinaryPlayers /\ [Next]_vars => [Abstract!Next]_(Abstract!vars)
  <2> SUFFICES ASSUME GameInv, OrdinaryPlayers, [Next]_vars
               PROVE  [Abstract!Next]_(Abstract!vars)
    OBVIOUS
  <2>1. Ordinary(env)
    BY DEF OrdinaryPlayers, Ordinary
  <2>2. ASSUME NEW c \in Cells,
               SquaresShown[c] = "free",
               SquaresShown' = [SquaresShown EXCEPT ![c] = TurnShown],
               IF IsDecided(SquaresShown')
                 THEN OverShown' /\ TurnShown' = TurnShown
                 ELSE (OverShown' <=> OverShown) /\ TurnShown' = Abstract!Opponent(TurnShown)
        PROVE  Abstract!Next
    <3>0. Abstract!Decided(SquaresShown') <=> IsDecided(SquaresShown')
      BY DEF Abstract!Decided, Abstract!Lines, Abstract!Players, Abstract!Squares,
             IsDecided, LineSets, Cells
    <3>1. Abstract!Play(c)
      BY <2>2, <3>0 DEF Abstract!Play, SquaresShown, Shown, Side, Player, TurnShown, OverShown
    <3>2. c \in Abstract!Squares
      BY DEF Cells, Abstract!Squares
    <3> QED BY <3>1, <3>2 DEF Abstract!Next
  <2>3. ASSUME SquaresShown' = SquaresShown, TurnShown' = TurnShown, OverShown' <=> OverShown
        PROVE  UNCHANGED Abstract!vars
    BY <2>3 DEF Abstract!vars, SquaresShown, Shown, Side, Player, TurnShown, OverShown
  <2> QED BY <2>1, <2>2, <2>3, StepShown
<1> QED BY <1>1, <1>2, <1>3, GameInvariance, PTL
        DEF OrdinarySpec, OrdinaryInit, Spec, PlaysNoughtsAndCrosses, Abstract!Spec
=============================================================================
