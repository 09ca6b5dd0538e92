------------------------ MODULE MCRockPaperScissors ------------------------
(***************************************************************************)
(* Constants for checking RockPaperScissors.                               *)
(***************************************************************************)
EXTENDS RockPaperScissors

\* Two players and a client of another game, or a client and itself.
ThreeFds == {5, 6, 300}

GameUids == {5}

\* Every legal play, and values on either side.
AllPlays == -1..4
=============================================================================
