--------------------------- MODULE MCThirdServer ---------------------------
(***************************************************************************)
(* Constants for checking ThirdServer.                                     *)
(***************************************************************************)
EXTENDS ThirdServer

\* The first row, and a byte that is no square.
SomePlays == {48, 49, 50, 97}
=============================================================================
