------------------------- MODULE NoughtsAndCrosses -------------------------
(***************************************************************************)
(* What the tic-tac-toe server promises of a game between two clients,     *)
(* with the engine, the descriptors and the messages left out.  The player *)
(* whose turn it is marks a free square; if that decides the game it is    *)
(* over, and otherwise the turn passes.  A game that is over is not closed:*)
(* the turn stays with the player who ended it, who may go on marking free *)
(* squares.                                                                *)
(***************************************************************************)
EXTENDS Integers

VARIABLES squares,  \* what each square holds
          turn,     \* the player to move
          over      \* has the game been decided?

Squares == 0..8
Players == {"x", "o"}

Opponent(p) == IF p = "x" THEN "o" ELSE "x"

Lines == { {0, 1, 2}, {3, 4, 5}, {6, 7, 8},
           {0, 3, 6}, {1, 4, 7}, {2, 5, 8},
           {0, 4, 8}, {2, 4, 6} }

Decided(marks) ==
  \/ \E line \in Lines, p \in Players : \A c \in line : marks[c] = p
  \/ \A c \in Squares : marks[c] # "free"

Init ==
  /\ squares = [c \in Squares |-> "free"]
  /\ turn = "x"
  /\ over = FALSE

Play(c) ==
  /\ squares[c] = "free"
  /\ squares' = [squares EXCEPT ![c] = turn]
  /\ IF Decided(squares')
       THEN over' = TRUE /\ turn' = turn
       ELSE over' = over /\ turn' = Opponent(turn)

Next == \E c \in Squares : Play(c)

vars == << squares, turn, over >>

Spec == Init /\ [][Next]_vars
=============================================================================
