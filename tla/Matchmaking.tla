---------------------------- MODULE Matchmaking ----------------------------
(***************************************************************************)
(* What the server promises of its lobbies, with sockets, lists and play   *)
(* left out.  Clients ask for a kind of game; they are seated in the order *)
(* in which they ask, each under the id that was issued last, and every    *)
(* two seats in a row are a game.  No seat is lost, changed, swapped or    *)
(* given twice.                                                            *)
(***************************************************************************)
EXTENDS Integers, Sequences

CONSTANTS Clients, Kinds

VARIABLES latest,  \* the id issued last
          seats    \* for each kind of game, the seats taken, oldest first

Init ==
  /\ latest = 3
  /\ seats = [kind \in Kinds |-> << >>]

\* Somebody connects, or tries to: a new id is issued.
Issue ==
  /\ latest' = latest + 1
  /\ UNCHANGED seats

\* A client, waiting or playing already perhaps, takes the next seat.
TakeSeat(client, kind) ==
  /\ seats' = [seats EXCEPT ![kind] = Append(@, << client, latest >>)]
  /\ UNCHANGED latest

Next == Issue \/ \E client \in Clients, kind \in Kinds : TakeSeat(client, kind)

Spec == Init /\ [][Next]_<< latest, seats >>
=============================================================================
