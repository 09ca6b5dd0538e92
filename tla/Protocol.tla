------------------------------ MODULE Protocol ------------------------------
(***************************************************************************)
(* The vocabulary every part of the server shares (shared.h): the game     *)
(* types, the value of an empty square, and the messages a client can be   *)
(* sent.  A message is the descriptor it is sent to, the meaning of its    *)
(* status and context bytes, and the one payload byte that carries         *)
(* information (0 where the message has none).                             *)
(***************************************************************************)
EXTENDS Integers

BLANK_SPACE == 45

TTT_GAME == 1
RPS_GAME == 2

X == 1
O == 2

ROCK == 1
PAPER == 2
SCISSORS == 3

\* Variant of Int8: winner declared as an int.
Int8AsInt(v) == v

\* What a C int becomes when it is stored in an int8_t.
Int8(v) == ((v + 128) % 256) - 128

Codes == { "NEW_GAME",        \* SUCCESS, CONFIRMATION: the client's game id
           "START_GAME",      \* UPDATE, UPDATE_START_GAME: the client's mark
           "ACCEPTED",        \* SUCCESS, INFORMATION
           "MOVE_MADE",       \* UPDATE, UPDATE_MOVE_MADE: the square played
           "WIN",             \* UPDATE, UPDATE_END_OF_GAME, PL_WIN
           "LOSS",            \* UPDATE, UPDATE_END_OF_GAME, PL_LOSS
           "TIE",             \* UPDATE, UPDATE_END_OF_GAME, PL_TIE
           "INVALID_ACTION",  \* GAME_ERROR_INVALID_ACTION
           "OUT_OF_TURN" }    \* GAME_ERROR_ACTION_OUT_OF_TURN

Msg(fd, code, arg) == [to |-> fd, code |-> code, arg |-> arg]

Messages == [to : Int, code : Codes, arg : Int]
=============================================================================
