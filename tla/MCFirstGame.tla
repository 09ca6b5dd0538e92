---------------------------- MODULE MCFirstGame ----------------------------
(***************************************************************************)
(* Constants for checking FirstGame.                                       *)
(***************************************************************************)
EXTENDS FirstGame

Digits(ds) == {48 + d : d \in ds}

\* X can complete the first row; 97 is a letter.
SomeKeys == << Digits({0, 1, 2}), Digits({6, 7}) \cup {97}, Digits({6, 7}) >>

\* The second client receives whole boards, the others four squares.
SomePieces == << {4}, {9}, {4} >>

FirstTwo == {1, 2}
=============================================================================
