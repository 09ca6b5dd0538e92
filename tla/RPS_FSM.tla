------------------------------ MODULE RPS_FSM ------------------------------
(***************************************************************************)
(* The handlers of a rock-paper-scissors turn (RPS_FSM.c), as functions of *)
(* the game's environment record.  A play of 0 has not been made.  A       *)
(* handler returns the set of results it may have: two of them can reach   *)
(* their closing brace without a return statement, and then the caller     *)
(* reads whatever the build left in the return register.                   *)
(***************************************************************************)
EXTENDS Protocol, Fsm

\* The state ids.  They start at 0, so RPS_WAIT has the value of FSM_EXIT.
RPS_INIT == 0
RPS_WAIT == 1
RPS_VALIDATE == 2
RPS_TURNOVER == 3
RPS_GAMEOVER == 4
RPS_ERROR == 5

\* What a missing return statement returns: any int.  FSM_IGNORE and RPS_ERROR
\* stand for all those that are no state of the table.
UndefinedReturn == FSM_IGNORE..RPS_ERROR

\* Variant of RPSTable: the row of the end of the game is missing.
RPSTableWithoutGameOver ==
  << Row(FSM_INIT, RPS_VALIDATE, "validate_RPS_input"),
     Row(RPS_VALIDATE, RPS_TURNOVER, "accepted_RPS_move") >>

RPSTable == << Row(FSM_INIT, RPS_VALIDATE, "validate_RPS_input"),
               Row(RPS_VALIDATE, RPS_WAIT, "invalid_RPS_move"),
               Row(RPS_VALIDATE, RPS_GAMEOVER, "game_RPS_over"),
               Row(RPS_VALIDATE, RPS_TURNOVER, "accepted_RPS_move"),
               Row(RPS_WAIT, RPS_VALIDATE, "validate_RPS_input"),
               Row(RPS_TURNOVER, FSM_EXIT, "RPS_terminate"),
               Row(RPS_GAMEOVER, FSM_EXIT, "RPS_terminate") >>

\* The environment of a new game.  The program leaves fd_current_client,
\* move_received and winner unset; all three are written before they are read.
NewRPSGame(one, one_uid, two, two_uid) ==
  [fd_client_player_one |-> one, unique_game_id_player_one |-> one_uid,
   fd_client_player_two |-> two, unique_game_id_player_two |-> two_uid,
   client_one_play |-> 0, client_two_play |-> 0,
   fd_current_client |-> one, move_received |-> 0, winner |-> 0]

-----------------------------------------------------------------------------
(* What the handlers send.                                                 *)

SendAcceptPlay(env) == << Msg(env.fd_current_client, "ACCEPTED", 0) >>

SendDeclinePlay(env) == << Msg(env.fd_current_client, "INVALID_ACTION", 0) >>

\* send_RPS_win_loss_game_codes: each player is told what the other played.
SendRPSWinLoss(env) ==
  IF env.fd_client_player_one = env.winner
    THEN SendAcceptPlay(env) \o
         << Msg(env.fd_client_player_one, "WIN", env.client_two_play),
            Msg(env.fd_client_player_two, "LOSS", env.client_one_play) >>
  ELSE IF env.fd_client_player_two = env.winner
    THEN SendAcceptPlay(env) \o
         << Msg(env.fd_client_player_one, "LOSS", env.client_two_play),
            Msg(env.fd_client_player_two, "WIN", env.client_one_play) >>
  ELSE << >>

SendRPSTie(env) ==
  SendAcceptPlay(env) \o << Msg(env.fd_client_player_one, "TIE", env.move_received),
                            Msg(env.fd_client_player_two, "TIE", env.move_received) >>

-----------------------------------------------------------------------------
(* The handlers.                                                           *)

\* Variant of IsValidPlay: the upper bound is one too high.
IsValidPlayOrFour(env) == env.move_received \in ROCK..(SCISSORS + 1)

\* check_RPS_move_valid.
IsValidPlay(env) == env.move_received \in ROCK..SCISSORS

\* Variant of HasGone: only player one is held to a single play.
PlayerOneHasGone(env) ==
  env.fd_current_client = env.fd_client_player_one /\ env.client_one_play # 0

\* check_player_gone: has the current client played already?  Somebody who is
\* neither player has not.
HasGone(env) ==
  IF env.fd_current_client = env.fd_client_player_one THEN env.client_one_play # 0
  ELSE env.fd_current_client = env.fd_client_player_two /\ env.client_two_play # 0

\* check_player_gone, when the answer is no: the play is recorded.
RecordPlay(env) ==
  IF env.fd_current_client = env.fd_client_player_one
    THEN [env EXCEPT !.client_one_play = env.move_received]
  ELSE IF env.fd_current_client = env.fd_client_player_two
    THEN [env EXCEPT !.client_two_play = env.move_received]
  ELSE env

\* The % of C: the remainder has the sign of the dividend.
CRemainder(a, b) == IF a >= 0 THEN a % b ELSE -((-a) % b)

\* Variants of Standing: the difference is not made positive first; the players
\* are swapped.
StandingSigned(env) == CRemainder(env.client_one_play - env.client_two_play, 3)
StandingReversed(env) == CRemainder(3 + env.client_two_play - env.client_one_play, 3)

\* 0 for a tie, 1 when player one has won, 2 when player two has.
Standing(env) == CRemainder(3 + env.client_one_play - env.client_two_play, 3)

\* check_RPS_game_over.
CheckRPSGameOver(env) ==
  LET won(fd) == [env EXCEPT !.winner = fd]
      ending(e, out) == Result(e, out, RPS_GAMEOVER)
  IN  IF env.client_one_play > 0 /\ env.client_two_play > 0
        THEN CASE Standing(env) = 0 -> ending(env, SendRPSTie(env))
               [] Standing(env) = 1 -> LET e == won(env.fd_client_player_one)
                                       IN  ending(e, SendRPSWinLoss(e))
               [] Standing(env) = 2 -> LET e == won(env.fd_client_player_two)
                                       IN  ending(e, SendRPSWinLoss(e))
               [] OTHER -> ending(env, << >>)
        ELSE Result(env, << >>, RPS_TURNOVER)

ValidateRPSInput(env) ==
  IF ~IsValidPlay(env) THEN {Result(env, << >>, ret) : ret \in UndefinedReturn}
  ELSE IF HasGone(env) THEN {Result(env, << >>, RPS_WAIT)}
  ELSE {CheckRPSGameOver(RecordPlay(env))}

InvalidRPSMove(env) == {Result(env, SendDeclinePlay(env), ret) : ret \in UndefinedReturn}

AcceptedRPSMove(env) == {Result(env, SendAcceptPlay(env), FSM_EXIT)}

GameRPSOver(env) == {Result(env, << >>, FSM_EXIT)}

RPSHandlers ==
  {"validate_RPS_input", "invalid_RPS_move", "accepted_RPS_move", "game_RPS_over"}

RPSPerform(handler, env) ==
  CASE handler = "validate_RPS_input" -> ValidateRPSInput(env)
    [] handler = "invalid_RPS_move"   -> InvalidRPSMove(env)
    [] handler = "accepted_RPS_move"  -> AcceptedRPSMove(env)
    [] handler = "game_RPS_over"      -> GameRPSOver(env)

-----------------------------------------------------------------------------
(* The whole turn.                                                         *)

\* How a scan past the end of the table ends: it meets an FSM_IGNORE by chance,
\* and the engine gives up, or the process dies of what it reads.
OffTableOutcomes == {"select", "crashed"}

Outcome(env, out, ending) == [env |-> env, out |-> out, ending |-> ending]

\* Variant of Mainzees: what validate_RPS_input sent is forgotten.
MainzeesLosingResults(env) ==
  UNION { LET handler == FsmTransition(RPSTable, RPS_VALIDATE, first.ret)
          IN  IF first.ret = FSM_EXIT THEN {Outcome(first.env, first.out, "select")}
              ELSE IF handler \in RPSHandlers
                THEN {Outcome(then.env, then.out, "select") :
                        then \in RPSPerform(handler, first.env)}
              ELSE {Outcome(first.env, first.out, ending) : ending \in OffTableOutcomes}
        : first \in ValidateRPSInput(env) }

\* mainzees, as its caller sees it: the possible outcomes of the turn.  Its
\* second state, if any, ends the turn or has no row.
Mainzees(env) ==
  UNION { LET handler == FsmTransition(RPSTable, RPS_VALIDATE, first.ret)
          IN  IF first.ret = FSM_EXIT THEN {Outcome(first.env, first.out, "select")}
              ELSE IF handler \in RPSHandlers
                THEN {Outcome(then.env, first.out \o then.out, "select") :
                        then \in RPSPerform(handler, first.env)}
              ELSE {Outcome(first.env, first.out, ending) : ending \in OffTableOutcomes}
        : first \in ValidateRPSInput(env) }
=============================================================================
