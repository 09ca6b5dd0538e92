---------------------------- MODULE MCGameServer ----------------------------
(***************************************************************************)
(* Constants for checking GameServer.                                      *)
(***************************************************************************)
EXTENDS GameServer

TwoFds == {5, 6}
FourFds == {5, 6, 7, 8}
NoFds == {}

\* The datagram socket, whose descriptor a client gets once it has been closed, and a
\* client.
UdpAndOne == {4, 5}
LastFd == {5}

\* What the words of a fresh malloc hold in the build on hand.
Zeroed == {0}

\* The id bytes a client has to send for the server to read this id.
ReadAs(uid) == << uid, 0, 0, 0 >>

Ask(kind) == [id |-> ReadAs(0), payload_length |-> 2, first |-> 0, second |-> kind]

PlayOf(uid, byte) == [id |-> ReadAs(uid), payload_length |-> 1, first |-> byte, second |-> 0]

\* Nothing follows the header.
Bare(uid) == [id |-> ReadAs(uid), payload_length |-> 0, first |-> 0, second |-> 0]

\* Games come and go, with little play.  4 is an illegal play of rock-paper-scissors.
JoinRequests == {Ask(1), Ask(2), PlayOf(4, 1), PlayOf(3, 4)}

\* Games of both kinds side by side.  Square 0 left out, 2, 4 and 6 are the
\* anti-diagonal; as plays of rock-paper-scissors 4 and 6 are illegal.
MixedRequests ==
  {Ask(1), Ask(2), PlayOf(4, 1)} \cup {PlayOf(3, byte) : byte \in {1, 2, 4, 6, 7}}

\* The players' requests, some with nothing after the header.
BareRequests == {Ask(1), PlayOf(4, 1), PlayOf(5, 2), Bare(4), Bare(5)}

\* New games only.
AskRequests == {Ask(1), Ask(2)}

\* A new game, and a move in it under the id as it was sent.
EchoRequests == {Ask(1), [PlayOf(4, 1) EXCEPT !.id = IdBytes(4)]}

\* What the next step can depend on when all requests have a payload.  The rest of
\* the state is overwritten before any action reads it: it is there for the
\* properties of the step that wrote it.
ReadableNode(node) ==
  << node.game_type, node.uid_client_one, node.uid_client_two,
     [node.TTTGame EXCEPT !.received_move = 0, !.winner = 0],
     [node.RPSGame EXCEPT !.fd_current_client = 0, !.move_received = 0, !.winner = 0] >>

ReadableNodes == [i \in DOMAIN game_lobby |-> ReadableNode(game_lobby[i])]

Readable == << peer, unique_game_id, ReadableNodes, status >>
=============================================================================
