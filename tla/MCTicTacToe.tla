---------------------------- MODULE MCTicTacToe ----------------------------
(***************************************************************************)
(* Constants for checking TicTacToe.                                       *)
(***************************************************************************)
EXTENDS TicTacToe

\* The first descriptors a freshly started server hands out (0 to 2 are the
\* standard streams, 3 and 4 the server's own sockets).
TwoFds == {5, 6}

\* Descriptors whose value matters: 45 is BLANK_SPACE, 261 is 5 as an int8_t.
OddFds == {5, 45, 261}

GameUids == {5}

\* Every square, and one value on either side.
AllMoves == -1..9

\* The first row, the first column, the anti-diagonal, and no square.
SomeMoves == {0, 1, 2, 3, 4, 6, 9}
=============================================================================
