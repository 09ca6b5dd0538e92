# A verification of the tic-tac-toe / rock-paper-scissors servers

This directory models the game servers of this repository in TLA+, checks the
models with TLC on small instances, and proves what it can with TLAPS. Every
definition is translated from the code under `src/`. `PROJECT.json` says for each
of them which lines it stands for, and lists the runs, the mutants that show each
property can fail, the findings, the hazards and the theorems.

## 1. The system

`CMakeLists.txt` builds two programs: `server` (`v4_server.c` with `fsm.c`,
`v3_TTT_FSM.c`, `RPS_FSM.c` and `GameCollection_LinkedList.c`) and `client`
(`dc_udp_client.c`). Everything else is an earlier version that is no longer
built; much of it uses constants that `shared.h` has commented out, and the model
gives those their commented-out values.

| Component | State | Operations | Talks to | What is hard about it | What makes it correct |
|---|---|---|---|---|---|
| Server main loop (`v4_server.c`) | the descriptors it selects on, the loop's index, `unique_game_id`, one `received_data` buffer for all clients, `cfd` | `select`; accept; `read_data`; `handle_new_connection`; dispatch to a game; close | lobbies and games by call, clients by socket | requests of all games in any order; buffer, lobby and list are shared; the ready set is stale while it is scanned; clients leave, descriptors are reused; nothing is ever cleaned up | everybody is served; games do not disturb each other; clients are paired in order; every request is answered; ids name games |
| Datagram socket (`v4_server.c`, `dc_udp_client.c`) | one UDP socket | `recvfrom`; the client waits for a reply | main loop | a blocking call inside the loop, once per descriptor that is not ready; the socket is also read as if it were a client's, seated in games as one and closed as one, and its descriptor then goes to a client, from whom `recvfrom` goes on reading | one datagram costs no client its turn (it does) |
| Game list and lobbies (`GameCollection_LinkedList.c`) | a linked list; its head node is the two lobbies | `init_lobbies`, `insert_new_*_game`, `reset_*_lobby`, `return_link_by_uid` | called by the main loop | the walk stops on *both* ids, the test after it on *either* | a lookup returns a game of the wanted id, and finds those it can |
| Turn engine (`fsm.c`) | `from_id`, `to_id` | `fsm_run`, `fsm_transition` | calls the handlers of a table | no table has the sentinel row the scan stops at; a state id equals `FSM_EXIT` | every pair has a row; a run ends |
| Tic-tac-toe turn (`v3_TTT_FSM.c`) | `SingleTTTGameEnv`: players, board, count, flag, winner | `validate_input`, `check_win`, `accepted_move`, `game_over`, the sends | called by the main loop | squares hold descriptors, `winner` is an `int8_t`; answers straddle the switch of players; ending conditions | turns alternate; over exactly when decided; results go to both players and agree |
| Rock-paper-scissors turn (`RPS_FSM.c`) | `SingleRPSGameEnv`: players, plays, winner | `validate_RPS_input`, `check_player_gone`, `check_RPS_game_over`, the sends | called by the main loop | plays come from anybody in any order; functions without a `return`; C's `%` | results follow the rules; plays are final; legal plays cannot kill the server |
| Protocol (`shared.h`) | none | codes and records | all | widths | none of its own |
| First server (`server.c`) | one `GameEnvironment`; a table that contains `accept` | accept X, accept O, play, take in a new O or X when one leaves | two clients | blocks in `accept` and in `read`; who is X and whose turn it is change at different times | marks follow seats; the player whose turn it is has been asked |
| Terminal client (`client.py`, `game_data.py`) | board, identity, the proposed move | receive a message, prompt, send | first server | a byte stream without framing; partial `recv`; acceptance refers to what was proposed last | what it shows is the server's board |
| Third server (`v3_server.c`, `v2_FSM.c`, `game_collection_linked_list.c`) | a lobby and a list of games, `game_id` | accept and pair; two reads and a turn; play again; disconnect | many clients | walks that end in null pointers, an uninitialized result, a read that blocks, nodes that outlive their players | a client sits where it was told; the loop goes on |
| Second server (`v2_server.c`) | an array of ten games | | | | not modelled, see 8 |

The built server is one thread. `select` returns the ready descriptors, and for each of
them the loop either accepts a client, or reads one request and handles it to its
end, or, at end of file, closes the descriptor. There is no concurrency inside the
process. The concurrency is between clients: whose request comes next, and who
leaves when. Nothing is persisted, no message is retried and there are no timers.
The first server and its clients are three or more processes that block on each other.

## 2. Modules

| Module | Models | State and actions |
|---|---|---|
| `Protocol` | `shared.h` | message codes; `Int8`, what an `int` becomes in `winner` |
| `Fsm` | `fsm.h`, `fsm.c` | rows; `FsmTransition`, the scan; `OFF_TABLE` for a scan that runs past the array |
| `TTT_FSM` | `v3_TTT_FSM.c` | the handlers as functions from an environment to the environment, the messages and the id they return; `Mainaroo`, a whole turn |
| `TicTacToe` | a game under the loop | `env, from_id, to_id, pc, out`; `PlayInTurn`, `PlayOutOfTurn`, and `FsmStep`: one round of `fsm_run` |
| `NoughtsAndCrosses` | abstract: what a player knows of the game | implemented by `TicTacToe` and by each game of `GameServer` |
| `RPS_FSM` | `RPS_FSM.c` | the handlers, each returning a set of outcomes; `Mainzees`, a whole turn |
| `RockPaperScissors` | a game under the loop | as `TicTacToe`: `Play`, `FsmStep`, `FsmOffTable` |
| `GameCollection` | `GameCollection_LinkedList.c` | the list as a sequence of nodes; its operations as functions |
| `Sockets` | what the servers see of TCP | the states of a connection; when a message to a client who has left raises `SIGPIPE` |
| `GameServer` | `v4_server.c`, what requests do | `peer, unique_game_id, received_data, cfd, game_lobby, out, status`; `Accept`, `AcceptFails`, `NewConnection`, `UnknownGame`, `PlayTTT`, `PlayTTTOutOfTurn`, `PlayRPS`, `Disconnect`, `EmptyDatagram`, and the client's `ClientLeaves` |
| `Matchmaking` | abstract: seats given out in order | implemented by `GameServer` |
| `SelectLoop` | `v4_server.c`, the loop descriptor by descriptor | `rfds, ready_sockets, i, pc, ...`; `Select`, one action for each thing an iteration can do (`ReadRequest`, `ReadEmptyDatagram`, `TakeDatagram`, ...), and `Connect`, `Send`, `Leave` |
| `Connections` | abstract: what `GameServer` supposes of the loop | implemented by `SelectLoop` |
| `FirstServer` | `server.c` | its handlers as functions, as `TTT_FSM` |
| `TerminalClient` | `client.py`, `game_data.py` | a client's record; `Received` and `Typed`: what a message and a key do to it |
| `FirstGame` | the composition of the two | a stream of bytes in each direction; `AcceptX`, `AcceptO`, `ReadByte`, `ReadEnd`, `Runs` (the handlers that do not block); `Connect`, `Receive`, `Type`, `Leave` of each client |
| `V2_FSM` | `v2_FSM.c` | a turn of the third server; lines and ties are `FirstServer`'s, whose text it shares |
| `ThirdServer` | `v3_server.c`, `game_collection_linked_list.c` | `game_id, lobby, games, reading, ...`; `Accept`, `ReadGame`, `ReadPosition` (the two reads of a request), `HangUp`, `ClientLeaves` |
| `MCTicTacToe`, `MCRockPaperScissors`, `MCGameServer`, `MCFirstGame`, `MCThirdServer` | | values of the constants for TLC |
| `Engine_proofs` | | lemmas about the scan, about the first number of a set, and about flattening a sequence of sequences |
| `TTT_FSM_proofs` | | lemmas about the handlers of both games, for whatever descriptors |
| `TicTacToe_proofs`, `RockPaperScissors_proofs`, `SelectLoop_proofs`, `GameServer_proofs`, `ThirdServer_proofs`, `FirstGame_proofs` | | theorems about the module of that name, see 7 |

`TicTacToe` and `RockPaperScissors` run the engine handler by handler. `GameServer`
uses the same handlers through `Mainaroo` and `Mainzees`, which state a turn at one
stroke; that this is the same thing is checked (`EngineComputesMainaroo`,
`EngineComputesMainzees`). `GameServer` visits descriptors in any order, that of the datagram
socket among them (`udpfd`, whose `peer` is `"datagrams"` until an empty datagram closes it);
that the loop accepts on, reads from and closes descriptors in this way is checked
too (`ServesInSomeOrder`). A definition called a "variant of" another is a plausible
mistake in it, used to show that a property would notice; no specification uses one.

### How the code's peculiarities appear

The built server:

* `WAIT` and `RPS_WAIT` are 1, which is `FSM_EXIT`. So a refused move ends the turn
  in `fsm_run` before the `invalid_move` row is looked up. The model uses the same
  numbers, and the row is as unreachable there.
* `validate_RPS_input` falls off its end on an illegal play, and `fsm_run` uses the
  result. This is undefined behaviour: the model lets the result be any id
  (`UndefinedReturn`; the two values that are no state stand for all others), and a
  scan past the table either meets an `FSM_IGNORE` by chance or crashes the process.
* A square holds the descriptor of the client who marked it, and 45 (`-`) when it is
  free. `winner` is an `int8_t`. Both conversions are in the model.
* `check_rows | check_col | check_diag` has no order in C. The model uses left to right,
  which is what gcc does; the order matters only for a move that completes two lines
  at once, the anti-diagonal being the only one with a different winner.
* `read_data` keeps the first byte of the id and rewrites the payload bytes only for
  payloads of length 1 and 2. On a connection that was reset `recv` returns -1, which
  is not 0, so the stack buffer is taken for a request: any request of `Requests`.
* `init_lobbies` leaves the head's ids and plays as `malloc` returned them. They are the
  constant `Unset`; the configurations use `{0}`, what the build on hand gives.
* A message to a client who has left causes a reset, and one more a `SIGPIPE`, which
  kills the server. Whether the reset arrives between two messages of one turn is a choice.
* `close` and `FD_CLR` are all that happens when a client leaves. `accept` takes the
  lowest free descriptor, so the next client inherits the seats of the last.
* When the datagram socket is ready, every index that is *not* ready calls `recvfrom`, which blocks
  when no datagram is left, and index 4 reads one datagram as if it were a client's request. Its
  contents may be those of any request, so `GameServer` lets `udpfd` ask for games, be paired and
  play. What it is answered reaches nobody, as the socket is connected to nobody.
* An empty datagram makes `read_data` return 0, so the datagram socket is closed and never opened
  again (`ReadEmptyDatagram`, `EmptyDatagram`). The calls of `recvfrom` that are left in the pass fail
  at once (`TakeNothing`), and 4 is the lowest free descriptor: the next client gets it, with the seats
  that datagrams took. `udpfd` is still 4, so whenever that client has sent something the loop calls
  `recvfrom` on its connection, drops what comes, blocks for want of more, or reads its end of file.
* `accept` may return -1, and `FD_SET(-1)`, like `FD_SET` of a descriptor beyond the set,
  writes elsewhere in memory: the process may or may not survive it. The id is issued all the same
  (`AcceptFails`).

The first server and its client:

* X and O are seats, `current_player` is a mark and `fd_current_player` a descriptor, and they
  are not reset together: when O leaves, X is given the turn with O's mark; when a game ends the
  turn stays with whoever ended it.
* `play_count` is compared with 9 before it is incremented and survives a game: a full board is
  a tie one move late, and from then on every move that is no win is a tie.
* The anti-diagonal stores the mark of square 0, which on a free square is `BLANK_SPACE`: a tie.
* `one_byte` is cleared before the blocking read, so the turn after a client has left cannot
  see its last byte.
* `recv(9)` returns the part of the board that has arrived (`Pieces`). The bytes that are left are
  squares; `client.py` takes them for messages, knows none of them, and drops them.

The third server:

* `WAIT` is `FSM_EXIT` here too. A taken square is answered `INVALID` but ends the turn, and passes
  it. Nobody asks who it is that moves.
* A walk for an id that no node has follows a null pointer. `rematch` goes on until a node is the
  last *and* has the id. Both are `crashed` outcomes.
* The lobby's id is always 2, so `find_remaining_by_id` empties the lobby whenever somebody with an
  opponent leaves; the remaining player is told, and never seated again. With no opponent
  `remaining_fd` is uninitialized, and the lobby is emptied or not.
* The second byte of a request is read by a second `read`, which blocks; its result is not looked at.
* The id of a request is read into an `int8_t` (`AsByte`): a client who sends back an id above 127
  names another game, or none.
* Nodes are never deleted, so the descriptor of a client who left keeps its seats.

### What is abstracted

The byte layout of messages to clients is left out (except that of the id, and of the first
server's messages, which are bytes), as are
printing, the copies of the request kept in an environment, and ids in an
environment's common part, none of which is read. In `GameServer` the order in which one pass of the
loop visits ready descriptors is any order: a superset of the code's. `malloc` does not fail;
`select` fails only for a closed descriptor in its set, and `accept` only for lack of descriptors
(`SelectLoop`). `bind` and `listen` have succeeded before a model begins. Two requests that arrive in one
segment are one (`recv` drops the second): a request that is not read is one that was not sent, and so
is one that `recvfrom` has dropped. What a datagram or a request contains is chosen when it is read;
`SelectLoop` counts how many there are, and lets a datagram be empty or not.
`ThirdServer` keeps of the messages sent only which game a client was last welcomed to
(`told`) and how many went where, for `SIGPIPE`.

## 3. Properties and runs

One type invariant per specification; the others are aimed at the hazards listed in
`PROJECT.json`.

| Run | Question | Bounds |
|---|---|---|
| `ttt_game` | Do turns alternate (`TurnsAlternate`), do results agree and go to the right players (`ResultsAgree`), is the mover answered once (`MoverIsAnsweredOnce`), does a turn end (`TurnEnds`), is it noughts and crosses (`PlaysNoughtsAndCrosses`)? | players 5 and 6 (the first descriptors a fresh server hands out; either may be X), moves -1..9: every game there is |
| `ttt_any_fds` | What is left of this for any descriptors: types, table, no line overlooked, marks final, and who hears of a win when a descriptor does not fit in `winner` (`NarrowLineOwnerIsTold`) | 5, 45 (a free square) and 261 (5 as an `int8_t`), a client against itself included; the moves of the first row, first column and anti-diagonal, and one off the board |
| `rps_game` | Do results follow the rules and carry the other's play, do both learn the result in the turn of the second play, can a legal play kill the server? | three clients of whom two, or one twice, are players; every legal play, and illegal ones on either side |
| `server_lobbies` | Are clients seated in the order of arrival, games announced, lookups sound; of what does the server die (`DeathIsAccountedFor`)? | descriptor 4, the datagram socket's and then a client's, and 5, which can be lost and reused; no third, so that `accept` may fail; ids 3 to 5; two games; requests for both kinds, and two plays, one of them illegal in rock-paper-scissors |
| `server_games` | Is each of several games played as if alone, does anybody hear of another's game, what goes unanswered (`SilenceIsAccountedFor`)? | descriptors 4, the datagram socket's and then a client's, and 5; two games of any kind, ids 3 and 4, five squares |
| `select_loop` | Is every client served (`EverybodyIsServed`), what does a datagram cost (`PassSwallowsDatagrams`), when does the loop end the process (`DiesOnlyWhenFull`), is it the loop `GameServer` supposes (`ServesInSomeOrder`)? | a set of 7 descriptors: the streams, the two sockets and two clients, and a third client's descriptor beyond it; the datagram socket's may become a client's; one client waiting, one unread request each, two datagrams |
| `first_server` | Whose marks are made (`MarksFollowSeats`), what does a client show (`PromptShowsTheBoard`), what is `ACCEPTED` an answer to (`AcceptedWasProposed`), where does the game stop (`MoverIsAsked`)? | three clients, the third of whom replaces one of the first two, who may leave; X can complete a row, O types two squares and a letter; boards that arrive whole or as four squares; nobody types while more than two bytes are unread |
| `third_server` | Who sits where (`SeatedAsTold`), of what does the server die (`DeathIsAccountedFor`), is a departure noticed (`DeparturesAreNoticed`)? | three descriptors, one of which is lost and reused; ids 3 to 6; two games; three squares and a letter; the own id of a client, and 2, which is no game |
| `ttt_anti_diagonal`, `server_unique_ids`, `server_id_bytes`, `server_bare_request` | one finding each, section 5 | |

The eight passing runs have between some 20 000 and 780 000 distinct states and end within four minutes each, on two cores.

Why the bounds are enough. A turn of a game involves the mover and the other player,
and a third client matters only as one who is not a player (`rps_game`, which has
one). The server's shared state can be disturbed by a second game next to the
first, of the same kind or not, sharing ids or not; two games and two or three ids
give all of these cases. The loop treats all descriptors but `udpfd` alike, so two
show a client that is served while another's state changes, one beyond the set shows
what is different there, and `udpfd` itself is always among them. In the runs of the server
it is one of the two: as a client, it is like any other. That a read takes all that a client has sent,
which one unread request does not show, is in `Connections`, and proved for any number (section 7). The first server has two seats and a replacement
matters only as the newcomer, of which one is enough for each seat; a second game
follows the first on the same connections. In the third server two games make one
that is not the newest, and a descriptor is used again after each departure.
`MaxGameId`, `MaxGames`, `MaxWaiting`, `MaxPending`, `MaxDatagrams`, `MaxClients` and
`MaxUnread` stop what the programs do not limit: each is a guard of the action that would pass
it (accepting, connecting, sending, typing), never of what handles what has come in.
The wider sets of clients who may leave were tried for the third server outside these
configurations, which keep to runs of a minute or two.

Two runs use a `VIEW`. It leaves out what no later step reads: `out` and `cfd` (there
for the properties of the step that wrote them), the words of `received_data` that the next
request overwrites, and an environment's `received_move`, `winner`,
`fd_current_client` and `move_received`, which a turn writes before it reads them. Their
properties are of single states and single steps, and TLC evaluates those on every step
before it discards its result. Both send only requests
with a payload, so no payload byte survives either; stale ones are the subject of
`server_bare_request`, and of the theorems, which hold for any requests.

Deadlock checking is off where the process can die (`rps_*`, `server_*`, `select_loop`,
`third_server`) or where everybody can wait for everybody (`first_server`); it is on for
tic-tac-toe, which always accepts another request.

## 4. Fairness and liveness

* `WF_vars(FsmStep)` (`TicTacToe`, `RockPaperScissors`): the engine is a loop on the
  only thread and blocks nowhere, so a run in progress goes on. Nothing is assumed of
  clients. `TurnEnds` needs only this: the chain of handlers has no cycle.
* `WF_vars(Disconnect(fd))` (`GameServer`): a connection whose client has left stays ready
  and each round reads all ready descriptors. The findings are checked under `FairSpec`
  (`OrdinarySpec` for the games between ordinary players), so that no counterexample is that
  of a server that merely stops.
* `WF_vars(Server)` (`SelectLoop`): one thread, which goes on unless it is blocked in `select` or
  in a read; when it is blocked no action of it is enabled. That a descriptor's turn comes is
  not assumed: the index goes up one by one, and `EverybodyIsServed` shows what follows.
* `WF_vars(Server)` and `WF_vars(Receive(c))` (`FirstGame`): the server's process and those of
  the clients go on when they are not blocked. Users type, connect and leave, or not.
* `WF_reading(ReadReturns)` and `SF_vars(HangUp(fd))` (`ThirdServer`): a read at end of file returns;
  and, since every pass visits every ready descriptor and one at end of file stays ready, its turn
  comes again and again as long as the loop is not blocked for ever. A step there is one
  iteration, and other iterations come between, so the fairness is strong.

## 5. What the checks found

Four disagreements between the code and what it says of itself:

1. **The anti-diagonal's winner** (`v3_TTT_FSM.c:219`, run `ttt_anti_diagonal`): for the
   line 2-4-6 the code stores the mark of square 0. The owner of square 0 is told of
   a win, even if it is the loser; if the square is free nobody is told anything, the
   mover included, and the game is over.
2. **Ids are not unique** (`v4_server.c:72`, run `server_unique_ids`): the id is advanced by
   `accept` and used when a game is asked for, so four clients who connect first and ask
   later get two games under one id, and every request for either goes to the first.
3. **The id does not survive its own encoding** (`v4_server.c:199`, run `server_id_bytes`): it
   is sent highest byte first and read as its first byte, so a client that sends back the
   four bytes it was given asks for a new game. The runs of the server use clients that put
   the id in the first byte.
4. **A request without a payload is a move** (`v4_server.c:216`, run `server_bare_request`): it
   replays the byte an earlier request, perhaps another client's, left in the buffer.

Other weaknesses contradict nothing the repository says, and are stated as the exceptions of
properties that hold:

* `NarrowLineOwnerIsTold`: a winner whose descriptor is above 127 is not told.
* `SilenceIsAccountedFor`: every reason for which a request goes unanswered. An id that no lookup
  finds, an illegal or a repeated play of rock-paper-scissors, and a move on a board with a line whose
  mark is put down to neither player are among them.
* `LookupFindsOwnGames`: the games that can no longer be found are those whose players
  have different ids, once a later game exists. `NewGamesAreAnnounced` excepts the client
  paired with itself. `NoughtsAndCrosses` has a step for the player who goes on marking
  after the end (the flag `game_over` is never read).
* `EverybodyIsServed` excepts a loop blocked on `udpfd`, and `PassSwallowsDatagrams`
  counts what it takes to get through: one datagram for every descriptor that is not ready,
  about a thousand with the real `FD_SETSIZE`. A client who has been given that descriptor, after an
  empty datagram, pays as much for each pass that finds it ready. Only a pass that closes `udpfd`
  at its own turn is shorter.
* `SeatsInOrderOfArrival` counts whoever sends a datagram as the client `udpfd`, and
  `NewGamesAreAnnounced` has it told like one although nothing reaches it: a client may be paired with it
  and wait for moves that only a datagram can make.
* `DeathIsAccountedFor` (in `GameServer`): a message to a client who has left, or an illegal play.
* `MarksFollowSeats`: the first move after O has left is X's, with O's mark. `MoverIsAsked`: when
  O ends a game, the server awaits O, whose client awaits an invitation, and
  nothing moves again unless somebody leaves.
* `SeatedAsTold`: a client may be welcomed to a game it never joined, whose player had its descriptor.
  `DeathIsAccountedFor` (in `ThirdServer`): an id that names no game, and the end of any
  game but the newest, kill the server. `DeparturesAreNoticed`: unless it waits for a client's
  second byte.

## 6. Refinement

* `PlaysNoughtsAndCrosses` (`ttt_game`): under the mapping `Abstract` of `TicTacToe`, games
  between two ordinary players (different descriptors in 0..127 other than 45) are
  games of `NoughtsAndCrosses`: one free square a turn, the turn passes unless the game
  ends, which it does exactly on a line or a full board, and a line is the mover's. The turn is mapped
  forward to the moment `validate_input` has decided, where the board already shows the move.
* `EveryGamePlaysNoughtsAndCrosses` (`server_games`): the same of each tic-tac-toe game of the
  server, whatever happens to the others.
* `SeatsInOrderOfArrival` (`server_lobbies`): the list of games and the lobby of a
  kind, put one after the other, is a sequence of seats that only grows, by
  the requesting client under the id issued last. Plays, departures, reused descriptors
  and failing reads do not disturb it.
* `ServesInSomeOrder` (`select_loop`): the loop, with its stale ready set and its index, does what
  `Connections` allows: accept those who wait, on the lowest free descriptor; read only what
  has arrived, one datagram or all of a connection; close only on those who have left, or on an empty
  datagram. `Connections` has the steps of `GameServer` on `peer`, `udpfd`'s included, with what has arrived
  and without what requests mean. Two things of `GameServer` are not in it: an `accept` that fails, which
  changes no connection, and the reset that makes a peer `dead`, which only `SIGPIPE` depends on.

## 7. What is proved

The theorems hold for **every** value of the constants that satisfies the named assumptions of
the modules: any descriptors (naturals; for the servers, beyond the standard streams and the
listening socket: `GameServer`'s may include the datagram socket's or not), any ids, requests and bounds, any bytes as moves.

| Module | Theorem | Says |
|---|---|---|
| `TicTacToe_proofs` | `TypeCorrect`, `EngineOnTable`, `LinesEndGames`, `MarksFinal` | `TypeOK`, `EngineStaysOnTable`, `NoLineOverlooked`, `MarksAreFinal`: for the odd descriptors of `ttt_any_fds` too |
| | `TurnsAlternating`, `ResultsAgreeing`, `MoverAnswered`, `NarrowOwnerTold` | `TurnsAlternate`, `ResultsAgree`, `MoverIsAnsweredOnce`, `NarrowLineOwnerIsTold` |
| | `EngineIsMainaroo` | `EngineComputesMainaroo`: a turn of `GameServer` is a run of the engine |
| | `IsNoughtsAndCrosses` | the refinement `PlaysNoughtsAndCrosses`, of `OrdinarySpec` |
| `RockPaperScissors_proofs` | `TypeCorrect`, `LegalPlaysAreSafe`, `ResultsAreRight`, `PlaysFinal`, `CompletionAnnounces` | `TypeOK`, `OnlyIllegalPlaysCrash`, `ResultsFollowTheRules`, `PlaysAreFinal`, `SecondPlayAnnounces` |
| | `EngineIsMainzees` | `EngineComputesMainzees` |
| `SelectLoop_proofs` | `TypeCorrect`, `DeathMeansFull`, `PassesSwallow` | `TypeOK`, `DiesOnlyWhenFull`, `PassSwallowsDatagrams` |
| | `Refinement` | the refinement `ServesInSomeOrder` |
| `GameServer_proofs` | `TypeCorrect`, `LookupsRight`, `GamesIsolated`, `NewGamesAnnounced` | `TypeOK`, `LookupFindsOwnGames`, `GamesAreIsolated`, `NewGamesAreAnnounced` |
| | `TalkStays`, `DeathsAccountedFor`, `SilenceAccountedFor` | `TalkStaysInTheGame`, `DeathIsAccountedFor`, `SilenceIsAccountedFor`, if `NoStrayIds` |
| | `SeatsInOrder` | the refinement `SeatsInOrderOfArrival` |
| | `GamesPlay` | the refinement `EveryGamePlaysNoughtsAndCrosses`, of each of any number of games |
| `ThirdServer_proofs` | `TypeCorrect`, `ClientsAreSeatedAsTold`, `DeathsAccountedFor` | `TypeOK`, `SeatedAsTold`, `DeathIsAccountedFor` |
| `FirstGame_proofs` | `TypeCorrect`, `MarksAreOfTheSeat` | `TypeOK`, `MarksFollowSeats` |
| | `AcceptedMovesWereProposed`, `PromptsShowTheBoard` | `AcceptedWasProposed`, `PromptShowsTheBoard` |

Each of these modules has an `Invariance` theorem, `Spec => []IInv`, from which the others follow
(`FirstGame_proofs` has three, each resting on those before it).

**The inductive invariants**, and why they are needed:

* *Tic-tac-toe.* That the scan finds a row depends on which pairs of ids can occur when the engine is
  about to dispatch, and that a line ends the game on what `validate_input` has just asked for.
  `IInv` adds both (`AtDispatch`, `LineEndsGame`). The properties of ordinary games need the second
  invariant, `GameInv`: the marks of the two players number as many as `play_count` says and nobody
  else has any; the game has ended just when the board is decided, and by the mover; no result is out
  before `game_over` runs. It says nothing of the anti-diagonal, which is why
  `NarrowLineOwnerIsTold` and `ResultsAgree` make an exception of it.
* *Rock-paper-scissors.* An engine that is about to leave its table has just seen an illegal play;
  and what has been announced (`Announces`) is a function of the two plays recorded.
* *The loop.* Somebody waits until the turn of a listening socket that was ready (`QueueIsReady`). A
  ready `udpfd` stays open until its turn (`StaysOpenToItsTurn`), and the listening socket's comes before:
  so no client gets `udpfd` in the pass that closes it. Under a closed descriptor nothing is left
  to read (`ClosedIsRead`), so `recvfrom` on it takes nothing. What has been taken from `udpfd` is then
  one for every index below `i` that called for it (`TakenSoFar`), as long as it is open.
* *The server.* Every node after the head is a sound game of one kind, whose two ids were issued, the
  later node under the later id (`ListFits`): so the walk of `return_link_by_uid` ends where it
  should. The ids are 3 or more, 3 being issued to nobody, and taken for one by a datagram that comes first.
* *The third server.* Ids grow along the list (`IdsGrow`), so an id names one game, and the newest is the
  last. The client in the lobby has come since every game in which its descriptor sits (`LobbyIsNew`),
  so a rematch never welcomes it as one who still waits. A mover is a player (`MoversPlay`), so
  nobody else is sent anything.
* *The first server and its clients*, in three layers. `ServerInv` is the server's own: which handler
  runs after which id, who is seated, and `Marked`, `MarksFollowSeats` carried through the handlers between
  two reads. `ClientsInv` is about bytes. The positions at which messages start on their way to a client
  are a set (`Framed`), whatever the length of the stream, and of each of them the invariant says
  whether the client, when it gets there, has something proposed (`Answers`); an `ACCEPTED` comes only
  where it has, and the client whose turn it is has, or will have, when it has read everything (`Owed`). This holds
  also when somebody leaves and for moves typed ahead. `Turns` holds as long as nobody has left: while
  the server waits, one client is asked, has sent its move, or will be asked by the last message on its way,
  which carries the server's board (`Holds`); the others are idle, and everybody is while the server works.
  The exception is a game that O is to begin (`MoverIsAsked`), where X may be asked although the server
  reads O: the board is blank then.

**The lemmas** are what the handlers return and preserve (`TTT_FSM_proofs`), what the scan finds
(`FirstRow` and `NoRow` of `Engine_proofs`, and `RowsFound` for each table), what the walks of the
two lists find and leave (`LookupResult`; `ExecuteTurnResult`, `HandleDisconnectResult`), and what a list of
seats is made of: `FlattenSeq` of the community modules is recursive over its argument, and
`FlattenExists`, `FlattenAgrees` and `FlattenTyped` get what is needed of it by looking at the least
prefix for which it would fail.

**`NoStrayIds`** is the one hypothesis that is not an assumption of a module. It says that no byte
`malloc` may leave in the ids of the list's head is positive (0 is what the build on hand leaves,
and 0 in a request means a new game). It is needed: with `Unset = {5}` TLC finds a request for game 5
that is taken to be a play in the lobby, whose answer goes to a client of no game. The other
theorems about the server do without it.

**Only model-checked.** Liveness (`TurnEnds`, `EverybodyIsServed`, `MoverIsAsked`,
`DeparturesAreNoticed`) and anything that needs `ENABLED` is out of the prover's reach. The four
properties of the findings are false. Everything else that a passing run checks, invariants, action
properties and refinements, is proved. No module uses a `RECURSIVE` operator; `BytesTo` of `FirstGame` is a
recursive function, of which `BytesInARow` shows what the proofs need: messages for one client that stand
next to each other are its bytes. It gives the function, and looks at the least number of messages for which
another that satisfies the same equation would differ.

## 8. Not modelled, and why

* **The second server** (`v2_server.c`). It calls `prepare_server`, which no file defines, and
  indexes an array of ten games, none of them initialized, with a byte it has not checked; hardly a step
  of it has a defined outcome. Its turns are those of `V2_FSM`.
* **`v2_LinkedList_GameCollections.c`**: the text of `game_collection_linked_list.c` once more;
  nothing includes it.
* **Version 2 of the protocol in `client.py`**: its requests, the id of a game and a move, are near to
  what `v3_server.c` reads, but the records that server uses are no longer in `shared.h`, so
  the width of the ids it sends is not known and whether the two fit cannot be told. The third server
  is modelled without a client program.
* **`game_client.py` and `concept_client.py`**: they match no server in the repository.
* **`dc_udp_client.c`** but for its datagram (which `Send` stands for): it then waits for a reply whose `sendto` is
  commented out in the server.
* **Functions nobody calls**: `client_disconnect`, `handle_client_disconnect`, `reset_data`,
  `delete_link`, `return_link_by_cfd`; `delete` and `deinit` of the earlier list; the handlers of
  `server.c` that its table cannot reach.
* **Failing `malloc`, `socket`, `bind` and `listen`**, and what is printed. A failing `malloc` is listed
  as a hazard.

## 9. Plan

1. (done) the engine and a tic-tac-toe game; its abstract specification; the first theorems.
2. (done) rock-paper-scissors; the list; the server with its lobbies; the matchmaking specification.
3. (done) the select loop with the datagram socket, liveness of service, `Connections`; the first
   server with its clients; the third server with its list.
4. (done) proofs about `TicTacToe`, `RockPaperScissors`, `SelectLoop`, `GameServer`, `ThirdServer` and
   `FirstGame`: every safety property and every refinement that a passing run checks.
5. Left: an abstract specification of the third server's lobby and rematches, and one of the first
   server's game as long as nobody leaves, each with its refinement. Liveness stays with TLC.
