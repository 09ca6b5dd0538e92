--------------------------- MODULE TerminalClient ---------------------------
(***************************************************************************)
(* The terminal client (client.py, and GameData of game_data.py, protocol  *)
(* version 1), as functions of a record:                                   *)
(*   phase     recv    waiting for a message                             *)
(*             prompt  waiting for its user to type a move                 *)
(*             gone    ended by its user, or by an exception               *)
(*   identity, board                                                       *)
(*   proposed  the move typed last, until it is accepted or another is asked *)
(*             for (which overwrites it before it is read)                 *)
(***************************************************************************)
EXTENDS FirstServer

Phases == {"recv", "prompt", "gone"}

\* proposed_play when it is None.
NoPlay == -1

NewClient == [phase |-> "recv", identity |-> 0, proposed |-> NoPlay,
              board |-> [n \in 1..9 |-> BLANK_SPACE]]

\* set_play.  The board may be shorter than nine squares: the IndexError is
\* swallowed.  Without a proposed play the TypeError ends the program.
SetPlay(client) ==
  LET square == client.proposed + 1
  IN  IF client.proposed = NoPlay THEN [client EXCEPT !.phase = "gone"]
      ELSE IF square \in DOMAIN client.board
        THEN [client EXCEPT !.board[square] = client.identity, !.proposed = NoPlay]
      ELSE [client EXCEPT !.proposed = NoPlay]

\* A message is its first byte and what its handler reads after it: one byte
\* of identity, or up to nine bytes of a board.
Extent(message) == CASE message = WELCOME -> 2 [] message = INVITE -> 10 [] OTHER -> 1

Prompted(client) == [client EXCEPT !.phase = "prompt", !.proposed = NoPlay]

\* process_welcome.  X is asked for its first move at once.
ProcessWelcome(client, identity) ==
  LET known == [client EXCEPT !.identity = identity]
  IN  IF identity = X THEN Prompted(known) ELSE known

\* Variant of Received: a refused move ends the turn.
ReceivedWithoutRetry(client, bytes) ==
  CASE Head(bytes) = WELCOME -> ProcessWelcome(client, bytes[2])
    [] Head(bytes) = INVITE -> Prompted([client EXCEPT !.board = Tail(bytes)])
    [] Head(bytes) = ACCEPTED -> SetPlay(client)
    [] OTHER -> client

\* One round of play_game's loop.  Results are only printed.
Received(client, bytes) ==
  CASE Head(bytes) = WELCOME -> ProcessWelcome(client, bytes[2])
    [] Head(bytes) = INVITE -> Prompted([client EXCEPT !.board = Tail(bytes)])
    [] Head(bytes) = INVALID -> Prompted(client)
    [] Head(bytes) = ACCEPTED -> SetPlay(client)
    [] OTHER -> client

\* Variant of Typed: the proposed play is not kept.
TypedUnkept(client, byte) ==
  IF byte \in 48..57 THEN [client EXCEPT !.phase = "recv"]
  ELSE [client EXCEPT !.phase = "gone"]

\* make_play.  The byte is sent; if it is no digit a ValueError ends the program.
Typed(client, byte) ==
  IF byte \in 48..57 THEN [client EXCEPT !.phase = "recv", !.proposed = byte - 48]
  ELSE [client EXCEPT !.phase = "gone"]
=============================================================================
