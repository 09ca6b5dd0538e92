------------------------- MODULE ThirdServer_proofs -------------------------
(***************************************************************************)
(* Proofs about ThirdServer, for any descriptors, ids, moves and bounds:   *)
(* its types, who sits where, and of what the server dies.                 *)
(***************************************************************************)
EXTENDS ThirdServer, Engine_proofs, SequenceTheorems

-----------------------------------------------------------------------------
(* A turn.                                                                 *)

\* Descriptors are numbers, and none is 0.
LEMMA FdsAreNats == \A fd \in Fds : fd \in Nat /\ fd # 0 /\ fd \in Int
BY FdsAssumption

\* What is sent to these clients, a welcome or not.
Quiet(fds) ==
  [to : fds, code : {"IDENTITY", "GAME_ID", "INVALID", "ACCEPTED", "INVITE", "BOARD", "WIN",
                     "LOSE", "TIE", "DISCONNECT"}, arg : Int]

Said(fds) == Quiet(fds) \cup [to : fds, code : {"WELCOME"}, arg : Int]

\* The environments of a game that has received a byte.
TurnEnvs ==
  [game_ID : 3..MaxGameId, fd_client_X : Fds, fd_client_O : Fds, fd_current_player : Fds,
   current_player : {X, O}, play_count : 0..9, game_over : BOOLEAN,
   response_type : {"ACCEPTED", "INVALID"}, byte_input : -128..127,
   game_board : [First!Cells -> {X, O, First!BLANK_SPACE}]]

\* The handlers that follow validate_input.
LEMMA RowsFound ==
  /\ FsmTransition(TurnTable, VALIDATE, GAMEOVER) = "game_over"
  /\ FsmTransition(TurnTable, VALIDATE, TURNOVER) = "accepted_move"
<1> USE DEF FSM_INIT, FSM_EXIT, WAIT, VALIDATE, TURNOVER, GAMEOVER
<1> DEFINE rows == TurnTable
<1>1. /\ Len(rows) = 7
      /\ rows[1] = Row(FSM_INIT, VALIDATE, "validate_input")
      /\ rows[2] = Row(VALIDATE, WAIT, "invalid_move")
      /\ rows[3] = Row(VALIDATE, GAMEOVER, "game_over")
      /\ rows[4] = Row(VALIDATE, TURNOVER, "accepted_move")
  BY DEF TurnTable
<1> HIDE DEF rows
<1>2. FsmTransition(rows, VALIDATE, GAMEOVER) = "game_over"
  <2>1. IsRow(rows[3], VALIDATE, GAMEOVER) /\ rows[3].perform = "game_over"
    BY <1>1 DEF IsRow, Row
  <2>2. \A j \in 1..(3 - 1) : ~IsRow(rows[j], VALIDATE, GAMEOVER)
    BY <1>1 DEF IsRow, Row
  <2>3. 3 \in 1..Len(rows) /\ Len(rows) \in Nat
    BY <1>1
  <2> QED BY <2>1, <2>2, <2>3, FirstRow
<1>3. FsmTransition(rows, VALIDATE, TURNOVER) = "accepted_move"
  <2>1. IsRow(rows[4], VALIDATE, TURNOVER) /\ rows[4].perform = "accepted_move"
    BY <1>1 DEF IsRow, Row
  <2>2. \A j \in 1..(4 - 1) : ~IsRow(rows[j], VALIDATE, TURNOVER)
    BY <1>1 DEF IsRow, Row
  <2>3. 4 \in 1..Len(rows) /\ Len(rows) \in Nat
    BY <1>1
  <2> QED BY <2>1, <2>2, <2>3, FirstRow
<1> QED BY <1>2, <1>3 DEF rows

\* The same game between the same clients, one of whom has the turn.
SameSeats(e, f) ==
  /\ f.game_ID = e.game_ID
  /\ f.fd_client_X = e.fd_client_X
  /\ f.fd_client_O = e.fd_client_O
  /\ f.fd_current_player \in {e.fd_current_player, e.fd_client_X, e.fd_client_O}

\* A square is marked or not.
LEMMA CheckBoardResult ==
  ASSUME NEW e \in TurnEnvs, First!IsDigit(e.byte_input)
  PROVE  /\ CheckBoard(e) \in TurnEnvs
         /\ CheckBoard(e).fd_current_player = e.fd_current_player
         /\ SameSeats(e, CheckBoard(e))
<1> DEFINE position == e.byte_input - First!OFFSET
<1>1. e.byte_input \in Int /\ position \in First!Cells
  BY DEF TurnEnvs, First!IsDigit, First!OFFSET, First!LOWER_0, First!UPPER_8, First!Cells
<1> HIDE DEF position
<1>2. CASE e.game_board[position] = First!BLANK_SPACE
  <2> DEFINE board == [e.game_board EXCEPT ![position] = e.current_player]
  <2>1. board \in [First!Cells -> {X, O, First!BLANK_SPACE}]
    BY <1>1 DEF TurnEnvs
  <2>2. CheckBoard(e) = [e EXCEPT !.game_board = board, !.response_type = "ACCEPTED"]
    BY <1>2 DEF CheckBoard, position, TurnEnvs
  <2> HIDE DEF board
  <2> QED BY <2>1, <2>2 DEF TurnEnvs, SameSeats
<1>3. CASE e.game_board[position] # First!BLANK_SPACE
  <2>1. CheckBoard(e) = [e EXCEPT !.response_type = "INVALID"]
    BY <1>3 DEF CheckBoard, position
  <2> QED BY <2>1 DEF TurnEnvs, SameSeats
<1> QED BY <1>2, <1>3

\* The turn passes, or stays with a player who is neither; a count of 9 has ended the game.
LEMMA SwitchResult ==
  ASSUME NEW e \in TurnEnvs, e.play_count # 9
  PROVE  SwitchPlayers(e) \in TurnEnvs /\ SameSeats(e, SwitchPlayers(e))
<1> DEFINE f == [e EXCEPT !.play_count = @ + 1]
<1>1. e.play_count + 1 \in 0..9
  BY DEF TurnEnvs
<1>2. f \in TurnEnvs /\ SameSeats(e, f) /\ f.fd_current_player = e.fd_current_player
      /\ f.fd_client_X = e.fd_client_X /\ f.fd_client_O = e.fd_client_O
  BY <1>1 DEF TurnEnvs, SameSeats
<1>3. SwitchPlayers(e) \in {[f EXCEPT !.fd_current_player = f.fd_client_O, !.current_player = O],
                            [f EXCEPT !.fd_current_player = f.fd_client_X, !.current_player = X],
                            f}
  BY <1>2 DEF SwitchPlayers, First!SwitchPlayers, X, O
<1> HIDE DEF f
<1>4. ASSUME NEW fd \in {f.fd_client_X, f.fd_client_O}, NEW mark \in {X, O}
      PROVE  LET g == [f EXCEPT !.fd_current_player = fd, !.current_player = mark]
             IN  g \in TurnEnvs /\ SameSeats(e, g)
  BY <1>2 DEF TurnEnvs, SameSeats
<1> QED BY <1>2, <1>3, <1>4

\* Messages of a handler are for the two players.
LEMMA FourSaid ==
  ASSUME NEW S, NEW a \in S, NEW b \in S, NEW c \in S, NEW d \in S
  PROVE  /\ << a, b >> \in Seq(S) /\ << a, b >> \o << >> \in Seq(S)
         /\ << >> \o << a, b >> \in Seq(S)
         /\ << >> \o << a, b, c, d >> \in Seq(S)
OBVIOUS

\* What a turn leaves: the same game between the same clients, one of whom has the turn;
\* messages to them, none of which is a welcome.  The engine finds its rows.
TurnOf(e, turn) ==
  /\ turn.env \in TurnEnvs
  /\ SameSeats(e, turn.env)
  /\ turn.out \in Seq(Quiet({e.fd_current_player, e.fd_client_X, e.fd_client_O}))
  /\ turn.off_table = FALSE

\* It is what mainaroo leaves.
LEMMA MainarooResult ==
  ASSUME NEW e \in TurnEnvs
  PROVE  TurnOf(e, Mainaroo(e))
<1> USE DEF WAIT, TURNOVER, GAMEOVER, FSM_EXIT, VALIDATE
<1> DEFINE fds == {e.fd_current_player, e.fd_client_X, e.fd_client_O}
           validated == ValidateInput(e)
           turn(done) == [env |-> done.env, out |-> validated.out \o done.out, off_table |-> FALSE]
<1>1. ASSUME NEW fd \in fds, NEW code \in {"GAME_ID", "INVALID", "ACCEPTED", "INVITE", "BOARD",
                                           "WIN", "LOSE", "TIE"}, NEW arg \in Int
      PROVE  Msg(fd, code, arg) \in Quiet(fds)
  BY DEF Msg, Quiet
<1>2. e.game_ID \in Int /\ 0 \in Int
  BY DEF TurnEnvs
<1>3. CASE ~First!IsDigit(e.byte_input)
  <2> DEFINE f == [e EXCEPT !.response_type = "INVALID"]
             said == << Msg(e.fd_current_player, "INVALID", 0),
                        Msg(e.fd_current_player, "GAME_ID", e.game_ID) >>
  <2>1. f \in TurnEnvs /\ SameSeats(e, f)
    BY DEF TurnEnvs, SameSeats
  <2>2. said \o << >> \in Seq(Quiet(fds))
    <3>1. /\ Msg(e.fd_current_player, "INVALID", 0) \in Quiet(fds)
          /\ Msg(e.fd_current_player, "GAME_ID", e.game_ID) \in Quiet(fds)
      BY <1>1, <1>2
    <3> HIDE DEF fds
    <3> QED BY <3>1, FourSaid
  <2>3. validated = Result(f, said, WAIT)
    BY <1>3 DEF ValidateInput
  <2> HIDE DEF f, said, fds
  <2>4. Mainaroo(e) = [env |-> f, out |-> said \o << >>, off_table |-> FALSE]
    BY <2>3 DEF Mainaroo, Result
  <2> QED BY <2>1, <2>2, <2>4 DEF TurnOf, fds
<1>4. CASE First!IsDigit(e.byte_input)
  <2> DEFINE f == CheckBoard(e)
  <2>1. f \in TurnEnvs /\ SameSeats(e, f) /\ f.fd_current_player = e.fd_current_player
    BY <1>4, CheckBoardResult
  <2>2. validated = Result(f, << >>, IF CheckWin(f) THEN GAMEOVER ELSE TURNOVER)
    BY <1>4 DEF ValidateInput
  <2>3. f.fd_client_X = e.fd_client_X /\ f.fd_client_O = e.fd_client_O /\ f.game_ID = e.game_ID
    BY <2>1 DEF SameSeats
  <2> HIDE DEF f, validated
  <2>4. CASE CheckWin(f)
    <3> DEFINE over == GameOver(f)
    <3>1. Mainaroo(e) = [env |-> over.env, out |-> << >> \o over.out, off_table |-> FALSE]
      BY <2>2, <2>4, RowsFound DEF Mainaroo, Result, validated
    <3>2. over.env = [f EXCEPT !.game_over = TRUE]
      BY DEF GameOver, Result
    <3>3. PICK x \in {"WIN", "LOSE", "TIE"}, o \in {"WIN", "LOSE", "TIE"} :
            over.out = << Msg(f.fd_client_X, x, 0), Msg(f.fd_client_O, o, 0) >>
      BY DEF GameOver, Result
    <3>4. Msg(f.fd_client_X, x, 0) \in Quiet(fds) /\ Msg(f.fd_client_O, o, 0) \in Quiet(fds)
      BY <1>1, <1>2, <2>3
    <3> HIDE DEF over, fds
    <3>5. << >> \o over.out \in Seq(Quiet(fds))
      BY <3>3, <3>4, FourSaid
    <3>6. over.env \in TurnEnvs /\ SameSeats(e, over.env)
      BY <2>1, <3>2 DEF TurnEnvs, SameSeats
    <3> QED BY <3>1, <3>5, <3>6 DEF TurnOf, fds
  <2>5. CASE ~CheckWin(f)
    <3> DEFINE next == SwitchPlayers(f)
               done == AcceptedMove(f)
    <3>1. f.play_count # 9
      BY <2>5 DEF CheckWin, First!CheckWin, First!Result, First!IsTie, First!GAMEOVER
    <3>2. next \in TurnEnvs /\ SameSeats(f, next)
      BY <2>1, <3>1, SwitchResult
    <3>3. /\ done.env = next
          /\ done.out = << Msg(f.fd_current_player, f.response_type, 0),
                           Msg(next.fd_current_player, "GAME_ID", f.game_ID),
                           Msg(next.fd_current_player, "INVITE", 0),
                           Msg(next.fd_current_player, "BOARD", 0) >>
      BY DEF AcceptedMove, Result
    <3>4. f.fd_current_player \in fds /\ next.fd_current_player \in fds
          /\ f.response_type \in {"ACCEPTED", "INVALID"}
      BY <2>1, <2>3, <3>2 DEF SameSeats, TurnEnvs
    <3>5. Mainaroo(e) = [env |-> done.env, out |-> << >> \o done.out, off_table |-> FALSE]
      BY <2>2, <2>5, RowsFound DEF Mainaroo, Result, validated
    <3> HIDE DEF next, done, fds
    <3>6. << >> \o done.out \in Seq(Quiet(fds))
      <4>1. /\ Msg(f.fd_current_player, f.response_type, 0) \in Quiet(fds)
            /\ Msg(next.fd_current_player, "GAME_ID", f.game_ID) \in Quiet(fds)
            /\ Msg(next.fd_current_player, "INVITE", 0) \in Quiet(fds)
            /\ Msg(next.fd_current_player, "BOARD", 0) \in Quiet(fds)
        BY <1>1, <1>2, <2>3, <3>4
      <4> QED BY <3>3, <4>1, FourSaid
    <3>7. SameSeats(e, next)
      BY <2>1, <3>2 DEF SameSeats
    <3> QED BY <3>2, <3>3, <3>5, <3>6, <3>7 DEF TurnOf, fds
  <2> QED BY <2>4, <2>5
<1> QED BY <1>3, <1>4

-----------------------------------------------------------------------------
(* Messages.                                                               *)

\* Messages without a welcome leave what clients know as it is.
LEMMA QuietTells ==
  ASSUME NEW fds, NEW msgs \in Seq(Quiet(fds)), NEW known \in [Fds -> {0} \cup 3..MaxGameId]
  PROVE  TellsOf(known, msgs) = known
<1>1. \A m \in 1..Len(msgs) : msgs[m].code # "WELCOME"
  <2>1. \A q \in Quiet(fds) : q.code # "WELCOME"
    BY DEF Quiet
  <2> QED BY <2>1
<1>2. \A fd : Welcomes(fd, msgs) = {}
  BY <1>1 DEF Welcomes, MessagesTo
<1> QED BY <1>2 DEF TellsOf

\* Six messages after others.
LEMMA SixMore ==
  ASSUME NEW S, NEW a \in Seq(S), NEW b \in Seq(S), Len(b) = 6
  PROVE  /\ a \o b \in Seq(S) /\ Len(a \o b) = Len(a) + 6 /\ Len(a) \in Nat
         /\ \A i \in 1..Len(a) : (a \o b)[i] = a[i]
         /\ \A i \in 1..6 : (a \o b)[Len(a) + i] = b[i]
<1>0. /\ a \o b \in Seq(S)
      /\ Len(a \o b) = Len(a) + Len(b)
      /\ \A i \in 1..Len(a) + Len(b) : (a \o b)[i] = IF i <= Len(a) THEN a[i] ELSE b[i - Len(a)]
  BY ONLY a \in Seq(S), b \in Seq(S), ConcatProperties
<1> PICK n \in Nat : n = Len(a)
  OBVIOUS
<1> DEFINE all == a \o b
<1>1. /\ all \in Seq(S) /\ Len(all) = n + 6
      /\ \A i \in 1..(n + 6) : all[i] = IF i <= n THEN a[i] ELSE b[i - n]
  <2>1. all \in Seq(S) /\ Len(all) = Len(a) + Len(b)
        /\ \A i \in 1..Len(a) + Len(b) : all[i] = IF i <= Len(a) THEN a[i] ELSE b[i - Len(a)]
    BY <1>0
  <2> HIDE DEF all
  <2> QED BY <2>1
<1> HIDE DEF all
<1>2. ASSUME NEW i \in 1..n PROVE all[i] = a[i]
  BY <1>1
<1>3. ASSUME NEW i \in 1..6 PROVE all[n + i] = b[i]
  <2>1. n + i \in 1..(n + 6) /\ ~(n + i <= n) /\ (n + i) - n = i
    OBVIOUS
  <2> QED BY <1>1, <2>1
<1> QED BY <1>1, <1>2, <1>3 DEF all

\* The two who are sent the data of a new game, perhaps after other messages, know it
\* from then on, and nobody else does.
LEMMA NewGameTells ==
  ASSUME NEW fds, NEW msgs \in Seq(Quiet(fds)), NEW known \in [Fds -> {0} \cup 3..MaxGameId],
         NEW env, NEW id \in Int, env.fd_client_X \in fds, env.fd_client_O \in fds
  PROVE  LET all == msgs \o SendNewGameData(env, id)
         IN  /\ all \in Seq(Said(fds))
             /\ TellsOf(known, all) =
                  [fd \in Fds |-> IF fd \in {env.fd_client_X, env.fd_client_O} THEN id ELSE known[fd]]
<1> DEFINE data == SendNewGameData(env, id)
           all == msgs \o data
           two == {env.fd_client_X, env.fd_client_O}
           n == Len(msgs)
<1>1. /\ Len(data) = 6
      /\ data[1] = Msg(env.fd_client_X, "WELCOME", id)
      /\ data[2] = Msg(env.fd_client_X, "IDENTITY", X)
      /\ data[3] = Msg(env.fd_client_X, "GAME_ID", id)
      /\ data[4] = Msg(env.fd_client_O, "WELCOME", id)
      /\ data[5] = Msg(env.fd_client_O, "IDENTITY", O)
      /\ data[6] = Msg(env.fd_client_O, "GAME_ID", id)
  BY DEF SendNewGameData
<1>2. X \in Int /\ O \in Int
  BY DEF X, O, First!X, First!O
<1>3. \A i \in 1..6 : data[i] \in Said(fds)
  BY <1>1, <1>2 DEF Said, Quiet, Msg
<1>4. \A i \in 1..n : msgs[i] \in Said(fds) /\ msgs[i].code # "WELCOME"
  <2>1. \A q \in Quiet(fds) : q \in Said(fds) /\ q.code # "WELCOME"
    BY DEF Said, Quiet
  <2> QED BY <2>1
<1>5. data \in Seq(Said(fds)) /\ msgs \in Seq(Said(fds))
  <2>1. data = [i \in 1..6 |-> data[i]]
    BY DEF SendNewGameData
  <2> HIDE DEF data
  <2> QED BY <1>3, <1>4, <2>1
<1> HIDE DEF data
<1>6. /\ all \in Seq(Said(fds)) /\ Len(all) = n + 6 /\ n \in Nat
      /\ \A i \in 1..n : all[i] = msgs[i]
      /\ \A i \in 1..6 : all[n + i] = data[i]
  BY <1>1, <1>5, SixMore
<1> HIDE DEF all, n
<1>7. \A i \in 1..Len(all) : all[i].code = "WELCOME" => i \in {n + 1, n + 4}
  <2> SUFFICES ASSUME NEW i \in 1..Len(all), all[i].code = "WELCOME" PROVE i \in {n + 1, n + 4}
    OBVIOUS
  <2>1. i \in 1..n \/ \E j \in 1..6 : i = n + j
    BY <1>6
  <2>2. i \notin 1..n
    BY <1>4, <1>6
  <2>3. PICK j \in 1..6 : i = n + j
    BY <2>1, <2>2
  <2>4. data[j].code = "WELCOME"
    BY <1>6, <2>3
  <2>5. j \in {1, 4}
    BY <1>1, <2>4 DEF Msg
  <2> QED BY <2>3, <2>5
<1>8. /\ n + 1 \in 1..Len(all) /\ n + 4 \in 1..Len(all)
      /\ all[n + 1] = Msg(env.fd_client_X, "WELCOME", id)
      /\ all[n + 4] = Msg(env.fd_client_O, "WELCOME", id)
  BY <1>1, <1>6
<1>9. ASSUME NEW fd \in Fds PROVE Welcomes(fd, all) = IF fd \in two THEN {id} ELSE {}
  <2>1. \A i \in MessagesTo(fd, all) : all[i].code = "WELCOME" => all[i].arg = id /\ fd \in two
    BY <1>7, <1>8 DEF MessagesTo, Msg
  <2>2. fd \in two => \E i \in MessagesTo(fd, all) : all[i].code = "WELCOME"
    BY <1>8 DEF MessagesTo, Msg
  <2>3. \A v : v \in Welcomes(fd, all) <=> v = id /\ fd \in two
    BY <2>1, <2>2 DEF Welcomes
  <2> QED BY <2>3
<1>10. (CHOOSE v \in {id} : TRUE) = id
  OBVIOUS
<1>11. TellsOf(known, all) = [fd \in Fds |-> IF fd \in two THEN id ELSE known[fd]]
  BY <1>9, <1>10 DEF TellsOf
<1> QED BY <1>6, <1>11 DEF all, data

-----------------------------------------------------------------------------
(* The inductive invariant.                                                *)

\* The ids of the games grow along the list, and the next id is beyond them.
IdsGrow ==
  /\ \A i \in DOMAIN games : games[i].game_ID < game_id
  /\ \A i, j \in DOMAIN games : i < j => games[i].game_ID < games[j].game_ID

\* The client in the lobby has come since all the games in which its descriptor sits.
LobbyIsNew ==
  \A fd \in Fds : fd = lobby.fd_client_X =>
    \A i \in GamesWith(fd) : games[i].game_ID < arrived[fd]

\* The turn is a player's.
MoversPlay == \A i \in DOMAIN games : games[i].fd_current_player \in PlayersOf(i)

IInv == TypeOK /\ IdsGrow /\ SeatedAsTold /\ LobbyIsNew /\ MoversPlay

-----------------------------------------------------------------------------
(* The list.                                                               *)

\* The same list but for the state of one game.
OneTurn(nodes, i, env) ==
  /\ nodes \in Seq(GameEnvs)
  /\ Len(nodes) = Len(games)
  /\ \A j \in DOMAIN games : nodes[j] = IF j = i THEN env ELSE games[j]

\* Setting one game's state gives such a list.
LEMMA OneTurnIs ==
  ASSUME games \in Seq(GameEnvs), NEW i \in DOMAIN games, NEW env \in GameEnvs
  PROVE  OneTurn([games EXCEPT ![i] = env], i, env)
BY DEF OneTurn

\* execute_turn finds no game of this id, or a turn of one is played; if it ends the
\* game, that is the newest and starts again, or the process is over.
TurnPlayed(id, left) ==
  \/ Named(id) = {} /\ left = Left(lobby, games, << >>, TRUE)
  \/ \E i, env, msgs :
       /\ i \in Named(id) /\ env \in GameEnvs
       /\ msgs \in Seq(Quiet(PlayersOf(i)))
       /\ SameSeats(games[i], env)
       /\ left.lobby = lobby
       /\ OneTurn(left.games, i, env)
       /\ \/ left.out = msgs /\ left.crashed = FALSE
          \/ left.out = msgs /\ left.crashed = TRUE /\ env.game_over /\ i < Len(games)
          \/ /\ i = Len(games) /\ left.crashed = FALSE
             /\ left.out = msgs \o SendNewGameData(env, env.game_ID)

\* That is what execute_turn and main leave, whatever byte was read.
LEMMA ExecuteTurnResult ==
  ASSUME IInv, NEW id, NEW requested \in -128..127
  PROVE  TurnPlayed(id, ExecuteTurn(id, requested))
<1>1. CASE Named(id) = {}
  BY <1>1 DEF ExecuteTurn, TurnPlayed
<1>2. CASE Named(id) # {}
  <2> DEFINE i == CHOOSE n \in Named(id) : \A m \in Named(id) : n <= m
  <2>1. i \in Named(id)
    <3>1. Named(id) \subseteq Nat
      BY DEF IInv, TypeOK, Named
    <3>2. \E n \in Named(id) : \A m \in Named(id) : n <= m
      BY <1>2, <3>1, SmallestOne
    <3> QED BY <3>2
  <2> DEFINE e == [games[i] EXCEPT !.byte_input = requested]
             turn == Mainaroo(e)
             env == Settled(turn.env)
             nodes == [games EXCEPT ![i] = env]
             left == ExecuteTurn(id, requested)
  <2>2. left = IF turn.env.game_over THEN Rematch(i, nodes, turn.out)
               ELSE Left(lobby, nodes, turn.out, turn.off_table)
    BY <1>2 DEF ExecuteTurn
  <2> HIDE DEF i, left
  <2> SUFFICES TurnPlayed(id, left)
    BY DEF left
  <2>3. i \in DOMAIN games /\ games[i] \in GameEnvs /\ games \in Seq(GameEnvs) /\ i \in 1..Len(games)
        /\ games[i].fd_current_player \in PlayersOf(i)
    BY <2>1 DEF IInv, TypeOK, MoversPlay, Named
  <2>4. e \in TurnEnvs
    BY <2>3 DEF GameEnvs, TurnEnvs
  <2>5. /\ e.game_ID = games[i].game_ID /\ e.fd_client_X = games[i].fd_client_X
        /\ e.fd_client_O = games[i].fd_client_O
        /\ e.fd_current_player = games[i].fd_current_player
    BY <2>3 DEF GameEnvs
  <2> HIDE DEF e
  <2>6. TurnOf(e, turn)
    BY <2>4, MainarooResult
  <2> HIDE DEF turn
  <2>7. turn.env \in TurnEnvs /\ SameSeats(games[i], turn.env) /\ turn.off_table = FALSE
        /\ turn.out \in Seq(Quiet(PlayersOf(i)))
    <3>1. {e.fd_current_player, e.fd_client_X, e.fd_client_O} = PlayersOf(i)
      BY <2>3, <2>5 DEF PlayersOf
    <3> QED BY <2>5, <2>6, <3>1 DEF TurnOf, SameSeats
  <2>8. env \in GameEnvs /\ SameSeats(games[i], env) /\ env.game_over = turn.env.game_over
    BY <2>7 DEF Settled, GameEnvs, TurnEnvs, SameSeats
  <2> DEFINE Fits(f, msgs) ==
               \/ left.out = msgs /\ left.crashed = FALSE
               \/ left.out = msgs /\ left.crashed = TRUE /\ f.game_over /\ i < Len(games)
               \/ /\ i = Len(games) /\ left.crashed = FALSE
                  /\ left.out = msgs \o SendNewGameData(f, f.game_ID)
  <2>a. ASSUME NEW f \in GameEnvs, SameSeats(games[i], f), left.lobby = lobby,
               OneTurn(left.games, i, f), Fits(f, turn.out)
        PROVE  TurnPlayed(id, left)
    <3> DEFINE msgs == turn.out
    <3>1. /\ i \in Named(id) /\ f \in GameEnvs /\ msgs \in Seq(Quiet(PlayersOf(i)))
          /\ SameSeats(games[i], f) /\ left.lobby = lobby /\ OneTurn(left.games, i, f) /\ Fits(f, msgs)
      BY <2>1, <2>7, <2>a
    <3> HIDE DEF msgs
    <3> QED BY ONLY <3>1 DEF TurnPlayed
  <2>9. CASE ~turn.env.game_over
    <3>1. OneTurn(nodes, i, env)
      BY <2>3, <2>8, OneTurnIs
    <3>2. left = Left(lobby, nodes, turn.out, turn.off_table)
      BY <2>2, <2>9
    <3> HIDE DEF env, nodes
    <3>3. left.lobby = lobby /\ left.games = nodes /\ left.out = turn.out /\ left.crashed = FALSE
      BY <2>7, <3>2 DEF Left
    <3>4. Fits(env, turn.out)
      BY <3>3
    <3> HIDE DEF Fits
    <3> QED BY <2>8, <3>1, <3>3, <3>4, <2>a
  <2>10. CASE turn.env.game_over /\ i # Len(games)
    <3>1. OneTurn(nodes, i, env)
      BY <2>3, <2>8, OneTurnIs
    <3>2. left = Left(lobby, nodes, turn.out, TRUE)
      <4>1. i # Len(nodes)
        BY <2>10, <3>1 DEF OneTurn
      <4> QED BY <2>2, <2>10, <4>1 DEF Rematch
    <3>3. i < Len(games)
      BY <2>3, <2>10
    <3> HIDE DEF env, nodes
    <3>4. left.lobby = lobby /\ left.games = nodes /\ left.out = turn.out /\ left.crashed = TRUE
      BY <3>2 DEF Left
    <3>5. Fits(env, turn.out)
      BY <2>8, <2>10, <3>3, <3>4
    <3> HIDE DEF Fits
    <3> QED BY <2>8, <3>1, <3>4, <3>5, <2>a
  <2>11. CASE turn.env.game_over /\ i = Len(games)
    <3> DEFINE again == [env EXCEPT !.game_over = FALSE, !.game_board = First!BlankBoard]
    <3>1. again \in GameEnvs /\ SameSeats(games[i], again)
          /\ again.game_ID = env.game_ID /\ again.fd_client_X = env.fd_client_X
          /\ again.fd_client_O = env.fd_client_O
      <4>1. First!BlankBoard \in [First!Cells -> {X, O, First!BLANK_SPACE}]
        BY DEF First!BlankBoard
      <4> HIDE DEF env
      <4> QED BY <2>8, <4>1 DEF GameEnvs, SameSeats
    <3>2. OneTurn([games EXCEPT ![i] = again], i, again)
      BY <2>3, <3>1, OneTurnIs
    <3>3. nodes[i] = env /\ Len(nodes) = Len(games)
      BY <2>3
    <3>4. [nodes EXCEPT ![i].game_over = FALSE, ![i].game_board = First!BlankBoard]
            = [games EXCEPT ![i] = again]
      <4> HIDE DEF env
      <4> QED BY <2>3, <2>8 DEF GameEnvs
    <3>5. SendNewGameData(nodes[i], nodes[i].game_ID) = SendNewGameData(again, again.game_ID)
      BY <3>1, <3>3 DEF SendNewGameData
    <3>6. left = Left(lobby, [games EXCEPT ![i] = again],
                      turn.out \o SendNewGameData(again, again.game_ID), FALSE)
      BY <2>2, <2>11, <3>3, <3>4, <3>5 DEF Rematch
    <3> HIDE DEF env, nodes, again
    <3>7. /\ left.lobby = lobby /\ left.games = [games EXCEPT ![i] = again]
          /\ left.out = turn.out \o SendNewGameData(again, again.game_ID) /\ left.crashed = FALSE
      BY <3>6 DEF Left
    <3>8. Fits(again, turn.out)
      BY <2>11, <3>7
    <3> HIDE DEF Fits
    <3> QED BY <3>1, <3>2, <3>7, <3>8, <2>a
  <2> QED BY <2>9, <2>10, <2>11
<1> QED BY <1>1, <1>2

\* Those who share a game with a client.
Partners(fd) == UNION {PlayersOf(i) : i \in GamesWith(fd)}

\* FlattenSeq of sequences over a set is a sequence over that set.
LEMMA FlattenIn ==
  ASSUME NEW T, NEW s \in Seq(Seq(T))
  PROVE  SeqExt!FlattenSeq(s) \in Seq(T)
<1> PICK n \in Nat : n = Len(s)
  OBVIOUS
<1>1. CASE n = 0
  <2>1. s = << >> /\ Len(s) = 0
    BY ONLY <1>1, n = Len(s), s \in Seq(Seq(T)), EmptySeq
  <2> QED BY <2>1 DEF SeqExt!FlattenSeq
<1>2. CASE n # 0
  <2> DEFINE f == CHOOSE g : Flattens(g, n, s)
  <2>1. Flattens(f, n, s)
    BY FlattenExists
  <2>2. SeqExt!FlattenSeq(s) = f[n]
    BY <1>2 DEF SeqExt!FlattenSeq, Flattens
  <2> HIDE DEF f
  <2>3. \A i \in 1..n : s[i] \in Seq(T)
    OBVIOUS
  <2>4. \A i \in 1..n : f[i] \in Seq(T)
    BY <2>1, <2>3, FlattenTyped
  <2> QED BY <1>2, <2>2, <2>4
<1> QED BY <1>1, <1>2

\* Only those who share a game with a client are told that it has left.
LEMMA RemainingResult ==
  ASSUME IInv, NEW fd
  PROVE  Remaining(fd) \in Seq(Partners(fd))
<1> DEFINE both(i) == (IF games[i].fd_client_O = fd THEN << games[i].fd_client_X >> ELSE << >>)
                        \o IF games[i].fd_client_X = fd THEN << games[i].fd_client_O >> ELSE << >>
           s == [i \in DOMAIN games |-> both(i)]
           T == Partners(fd)
<1>1. PICK n \in Nat : DOMAIN games = 1..n
  BY DEF IInv, TypeOK
<1>2. ASSUME NEW i \in DOMAIN games PROVE both(i) \in Seq(T)
  <2>1. /\ games[i].fd_client_O = fd => games[i].fd_client_X \in T
        /\ games[i].fd_client_X = fd => games[i].fd_client_O \in T
    BY DEF Partners, GamesWith, PlayersOf
  <2> HIDE DEF T
  <2>2. /\ (IF games[i].fd_client_O = fd THEN << games[i].fd_client_X >> ELSE << >>) \in Seq(T)
        /\ (IF games[i].fd_client_X = fd THEN << games[i].fd_client_O >> ELSE << >>) \in Seq(T)
    BY <2>1
  <2> QED BY <2>2
<1> HIDE DEF both, T
<1>3. s \in Seq(Seq(T))
  BY <1>1, <1>2
<1>4. SeqExt!FlattenSeq(s) \in Seq(T)
  BY <1>3, FlattenIn
<1> QED BY <1>4 DEF Remaining, both, T

\* A departure leaves the games as they are, and the lobby as it is or empty.
LEMMA HandleDisconnectResult ==
  ASSUME IInv, NEW fd, NEW left \in HandleDisconnect(fd)
  PROVE  /\ left.lobby \in {lobby, EmptyLobby}
         /\ left.games = games
         /\ left.crashed = FALSE
         /\ left.out \in Seq(Quiet(Partners(fd)))
<1> DEFINE remaining == Remaining(fd)
           told_of == [n \in DOMAIN remaining |-> Msg(remaining[n], "DISCONNECT", 0)]
           T == Partners(fd)
<1>1. told_of \in Seq(Quiet(T))
  <2>1. remaining \in Seq(T)
    BY RemainingResult
  <2>2. \A p \in T : Msg(p, "DISCONNECT", 0) \in Quiet(T)
    BY DEF Msg, Quiet
  <2> HIDE DEF remaining, T
  <2> QED BY <2>1, <2>2
<1>2. lobby.game_id = 2
  BY DEF IInv, TypeOK
<1>3. left \in {Left(lobby, games, told_of, FALSE), Left(EmptyLobby, games, told_of, FALSE)}
  <2> HIDE DEF told_of
  <2> QED BY <1>2 DEF HandleDisconnect, told_of
<1> HIDE DEF told_of, T
<1> QED BY <1>1, <1>3 DEF Left, T

-----------------------------------------------------------------------------
(* The invariant is inductive.                                             *)

\* Games whose players stay the same keep their ids, their seats and their movers.
LEMMA SeatsStay ==
  ASSUME IInv, games' \in Seq(GameEnvs), Len(games') = Len(games),
         \A i \in DOMAIN games : SameSeats(games[i], games'[i])
  PROVE  /\ DOMAIN games' = DOMAIN games
         /\ \A i \in DOMAIN games : PlayersOf(i)' = PlayersOf(i) /\ games'[i].game_ID = games[i].game_ID
         /\ \A fd : GamesWith(fd)' = GamesWith(fd)
         /\ MoversPlay'
         /\ game_id' = game_id => IdsGrow'
<1>1. DOMAIN games' = DOMAIN games
  BY DEF IInv, TypeOK
<1>2. \A i \in DOMAIN games : PlayersOf(i)' = PlayersOf(i) /\ games'[i].game_ID = games[i].game_ID
  BY DEF SameSeats, PlayersOf
<1>3. \A fd : GamesWith(fd)' = GamesWith(fd)
  BY <1>1, <1>2 DEF GamesWith
<1>4. MoversPlay'
  BY <1>1, <1>2 DEF MoversPlay, IInv, SameSeats, PlayersOf
<1>5. game_id' = game_id => IdsGrow'
  BY <1>1, <1>2 DEF IInv, IdsGrow
<1> QED BY <1>1, <1>2, <1>3, <1>4, <1>5

\* The lobby's client and the seats told of stay right if nobody is welcomed.
LEMMA SeatedStays ==
  ASSUME IInv, games' \in Seq(GameEnvs), Len(games') = Len(games),
         \A i \in DOMAIN games : SameSeats(games[i], games'[i]),
         lobby' \in {lobby, EmptyLobby},
         \A fd \in Fds : peer'[fd] = "open" /\ told'[fd] # 0 => peer[fd] = "open" /\ told'[fd] = told[fd],
         arrived' = arrived, game_id' = game_id
  PROVE  IdsGrow' /\ SeatedAsTold' /\ LobbyIsNew' /\ MoversPlay'
<1>0. /\ DOMAIN games' = DOMAIN games
      /\ \A i \in DOMAIN games : PlayersOf(i)' = PlayersOf(i) /\ games'[i].game_ID = games[i].game_ID
      /\ \A fd : GamesWith(fd)' = GamesWith(fd)
      /\ MoversPlay' /\ IdsGrow'
  BY SeatsStay
<1>1. \A fd \in Fds : fd = lobby'.fd_client_X => fd = lobby.fd_client_X
  BY FdsAreNats DEF EmptyLobby
<1>2. \A fd : \A i \in GamesWith(fd) : i \in DOMAIN games
  BY DEF GamesWith
<1>3. LobbyIsNew'
  BY <1>0, <1>1, <1>2 DEF IInv, LobbyIsNew
<1>4. SeatedAsTold'
  BY <1>0, <1>1, <1>2 DEF IInv, SeatedAsTold
<1> QED BY <1>0, <1>3, <1>4

\* Two ids in a growing list are different.
LEMMA IdsName ==
  ASSUME TypeOK, IdsGrow
  PROVE  \A i, j \in DOMAIN games : games[i].game_ID = games[j].game_ID => i = j
<1> SUFFICES ASSUME NEW i \in DOMAIN games, NEW j \in DOMAIN games, i # j
             PROVE  games[i].game_ID # games[j].game_ID
  OBVIOUS
<1>1. i \in Nat /\ j \in Nat /\ games[i] \in GameEnvs /\ games[j] \in GameEnvs
  BY DEF TypeOK
<1>2. games[i].game_ID \in Int /\ games[j].game_ID \in Int
  BY <1>1 DEF GameEnvs
<1>3. i < j \/ j < i
  BY <1>1
<1> QED BY <1>2, <1>3 DEF IdsGrow

\* It holds when the server starts.
LEMMA InitIInv == Init => IInv
<1> SUFFICES ASSUME Init PROVE IInv
  OBVIOUS
<1>1. TypeOK
  BY BoundsAssumption DEF Init, TypeOK, PeerStates, EmptyLobby, Nobody
<1>2. DOMAIN games = {}
  BY DEF Init
<1> QED BY <1>1, <1>2 DEF Init, IInv, IdsGrow, SeatedAsTold, LobbyIsNew, MoversPlay, GamesWith

\* Sending changes a connection only in that the kernel comes to know its end.
LEMMA SendingKeepsPeers ==
  ASSUME NEW p \in [Fds -> PeerStates], NEW msgs
  PROVE  /\ AfterSending(p, msgs) \in [Fds -> PeerStates]
         /\ \A fd \in Fds : AfterSending(p, msgs)[fd] = "open" => p[fd] = "open"
BY DEF AfterSending, PeerStates

\* What the invariant says of the variables' types, and what to use it for.
LEMMA Typed ==
  ASSUME TypeOK
  PROVE  /\ peer \in [Fds -> PeerStates] /\ told \in [Fds -> {0} \cup 3..MaxGameId]
         /\ arrived \in [Fds -> {0} \cup 3..MaxGameId] /\ game_id \in Nat /\ game_id >= 3
         /\ lobby.game_id = 2 /\ lobby.fd_client_O = 0 /\ lobby.fd_client_X \in Fds \cup {0}
         /\ games \in Seq(GameEnvs) /\ DOMAIN games = 1..Len(games) /\ Len(games) \in Nat
         /\ \A i \in DOMAIN games : games[i].game_ID \in Nat /\ games[i].fd_client_X \in Fds
                                      /\ games[i].fd_client_O \in Fds
<1>1. games \in Seq(GameEnvs) /\ DOMAIN games = 1..Len(games) /\ Len(games) \in Nat
  BY DEF TypeOK
<1>2. \A e \in GameEnvs : e.game_ID \in Nat /\ e.fd_client_X \in Fds /\ e.fd_client_O \in Fds
  BY DEF GameEnvs
<1> QED BY <1>1, <1>2 DEF TypeOK

\* The first of a pair sits down in the lobby.
LEMMA WaitingKeepsInv ==
  ASSUME IInv, NEW fd \in Fds, Accept(fd), lobby.fd_client_X = 0
  PROVE  IInv'
<1> DEFINE left == HandleIncoming(fd)
<1>1. left = Left([lobby EXCEPT !.fd_client_X = fd], games, << >>, FALSE)
  BY DEF HandleIncoming
<1>2. /\ lobby' = [lobby EXCEPT !.fd_client_X = fd] /\ games' = games
      /\ status' \in {"running", "dead"}
  BY <1>1 DEF Accept, Becomes, Left
<1>3. /\ told' = TellsOf([told EXCEPT ![fd] = 0], << >>)
      /\ peer' = AfterSending([peer EXCEPT ![fd] = "open"], << >>)
      /\ arrived' = [arrived EXCEPT ![fd] = game_id] /\ game_id' = game_id + 1
      /\ game_id <= MaxGameId /\ reading' = reading
  BY <1>1 DEF Accept, Left
<1>4. TypeOK
  BY DEF IInv
<1>5. told' = [told EXCEPT ![fd] = 0]
  <2>1. << >> \in Seq(Quiet({})) /\ [told EXCEPT ![fd] = 0] \in [Fds -> {0} \cup 3..MaxGameId]
    BY <1>4, Typed
  <2> QED BY <1>3, <2>1, QuietTells
<1>6. peer' \in [Fds -> PeerStates] /\ \A f \in Fds : f # fd /\ peer'[f] = "open" => peer[f] = "open"
  <2>1. [peer EXCEPT ![fd] = "open"] \in [Fds -> PeerStates]
    BY <1>4, Typed DEF PeerStates
  <2> QED BY <1>3, <1>4, <2>1, SendingKeepsPeers, Typed
<1>7. TypeOK'
  <2>1. game_id \in 3..MaxGameId /\ game_id + 1 \in 3..(MaxGameId + 1)
    BY <1>3, <1>4, BoundsAssumption, Typed
  <2>2. lobby' \in [game_id : {2}, fd_client_X : Fds \cup {0}, fd_client_O : {0}]
    BY <1>2 DEF IInv, TypeOK
  <2>3. told' \in [Fds -> {0} \cup 3..MaxGameId] /\ arrived' \in [Fds -> {0} \cup 3..MaxGameId]
    BY <1>3, <1>4, <1>5, <2>1, Typed
  <2> QED BY <1>2, <1>3, <1>4, <1>6, <2>1, <2>2, <2>3 DEF TypeOK
<1>8. \A i \in DOMAIN games : games[i].game_ID < game_id
  BY DEF IInv, IdsGrow
<1>9. IdsGrow' /\ MoversPlay'
  <2>1. MoversPlay'
    BY <1>2 DEF IInv, MoversPlay, PlayersOf
  <2>2. IdsGrow'
    BY <1>2, <1>3, <1>4, <1>8, Typed DEF IInv, IdsGrow
  <2> QED BY <2>1, <2>2
<1>10. \A f : GamesWith(f)' = GamesWith(f) /\ \A i \in GamesWith(f) : i \in DOMAIN games
  BY <1>2 DEF GamesWith, PlayersOf
<1>11. lobby'.fd_client_X = fd
  BY <1>2, <1>4 DEF TypeOK
<1>12. LobbyIsNew'
  <2>1. arrived'[fd] = game_id
    BY <1>3, <1>4, Typed
  <2> QED BY <1>2, <1>8, <1>10, <1>11, <2>1 DEF LobbyIsNew
<1>13. SeatedAsTold'
  <2>1. \A f \in Fds : peer'[f] = "open" /\ told'[f] # 0 =>
          f # fd /\ peer[f] = "open" /\ told'[f] = told[f] /\ arrived'[f] = arrived[f]
    BY <1>3, <1>4, <1>5, <1>6, Typed
  <2>2. \A i, j \in DOMAIN games' : games'[i].game_ID = games'[j].game_ID => i = j
    BY <1>2 DEF IInv, SeatedAsTold
  <2> QED BY <1>2, <1>10, <1>11, <2>1, <2>2 DEF IInv, SeatedAsTold
<1> QED BY <1>7, <1>9, <1>12, <1>13 DEF IInv

\* A new game has its type.
LEMMA NewGameTyped ==
  ASSUME NEW id \in 3..MaxGameId, NEW x \in Fds, NEW o \in Fds
  PROVE  /\ NewGame(id, x, o) \in GameEnvs
         /\ NewGame(id, x, o).game_ID = id /\ NewGame(id, x, o).fd_client_X = x
         /\ NewGame(id, x, o).fd_client_O = o /\ NewGame(id, x, o).fd_current_player = x
<1>1. First!BlankBoard \in [First!Cells -> {X, O, First!BLANK_SPACE}]
  BY DEF First!BlankBoard
<1> QED BY <1>1 DEF NewGame, GameEnvs

\* The list with one more game.
LEMMA OneMore ==
  ASSUME TypeOK, NEW g \in GameEnvs, games' = Append(games, g)
  PROVE  /\ games' \in Seq(GameEnvs) /\ Len(games') = Len(games) + 1
         /\ DOMAIN games' = DOMAIN games \cup {Len(games) + 1}
         /\ \A i \in DOMAIN games : i < Len(games) + 1 /\ games'[i] = games[i]
         /\ games'[Len(games) + 1] = g
BY Typed

\* What happens to the two who are paired.
Pairing(fd, x, g) ==
  /\ x \in Fds /\ x = lobby.fd_client_X
  /\ g \in GameEnvs /\ g.game_ID = game_id
  /\ g.fd_client_X = x /\ g.fd_client_O = fd /\ g.fd_current_player = x
  /\ lobby' = EmptyLobby /\ games' = Append(games, g)
  /\ peer' \in [Fds -> PeerStates]
  /\ \A f \in Fds : f # fd /\ peer'[f] = "open" => peer[f] = "open"
  /\ told' = [f \in Fds |-> IF f \in {x, fd} THEN game_id ELSE told[f]]
  /\ arrived' = [arrived EXCEPT ![fd] = game_id] /\ game_id' = game_id + 1
  /\ game_id \in 3..MaxGameId /\ reading' = reading /\ status' \in {"running", "dead"}

\* The second of a pair joins the first, who is in the lobby.
LEMMA PairingResult ==
  ASSUME IInv, NEW fd \in Fds, Accept(fd), lobby.fd_client_X # 0
  PROVE  /\ Pairing(fd, lobby.fd_client_X, NewGame(game_id, lobby.fd_client_X, fd))
         /\ ~HandleIncoming(fd).crashed
         /\ HandleIncoming(fd).out \in Seq(Said({lobby.fd_client_X, fd}))
<1> DEFINE left == HandleIncoming(fd)
           x == lobby.fd_client_X
           g == NewGame(game_id, x, fd)
           h == [lobby EXCEPT !.fd_client_O = fd]
           known == [told EXCEPT ![fd] = 0]
<1>1. TypeOK
  BY DEF IInv
<1>2. x \in Fds /\ game_id \in 3..MaxGameId
  BY <1>1, Typed, BoundsAssumption DEF Accept
<1>3. h.fd_client_X = x /\ h.fd_client_O = fd
  BY <1>1 DEF TypeOK
<1>4. left = Left(EmptyLobby, Append(games, g), SendNewGameData(h, game_id), FALSE)
  BY <1>3 DEF HandleIncoming, Paired
<1> HIDE DEF left, h
<1>5. /\ left.lobby = EmptyLobby /\ left.games = Append(games, g) /\ left.crashed = FALSE
      /\ left.out = SendNewGameData(h, game_id)
  BY <1>4 DEF Left
<1>6. /\ left.out \in Seq(Said({x, fd}))
      /\ TellsOf(known, left.out) = [f \in Fds |-> IF f \in {x, fd} THEN game_id ELSE known[f]]
  <2> DEFINE data == SendNewGameData(h, game_id)
  <2>1. << >> \in Seq(Quiet({x, fd})) /\ known \in [Fds -> {0} \cup 3..MaxGameId]
        /\ game_id \in Int
        /\ {h.fd_client_X, h.fd_client_O} = {x, fd}
    BY <1>1, <1>3, Typed
  <2>2. /\ << >> \o data \in Seq(Said({x, fd}))
        /\ TellsOf(known, << >> \o data)
             = [f \in Fds |-> IF f \in {h.fd_client_X, h.fd_client_O} THEN game_id ELSE known[f]]
    <3> DEFINE two == {x, fd}
               none == << >>
    <3>1. none \in Seq(Quiet(two)) /\ h.fd_client_X \in two /\ h.fd_client_O \in two
      BY <2>1
    <3> HIDE DEF two, known, none
    <3>2. /\ none \o SendNewGameData(h, game_id) \in Seq(Said(two))
          /\ TellsOf(known, none \o SendNewGameData(h, game_id))
               = [f \in Fds |-> IF f \in {h.fd_client_X, h.fd_client_O} THEN game_id ELSE known[f]]
      BY ONLY <2>1, <3>1, NewGameTells
    <3> QED BY <3>2 DEF two, none
  <2>3. << >> \o data = data
    BY DEF SendNewGameData
  <2> HIDE DEF data, known
  <2>4. left.out = data
    BY <1>5 DEF data
  <2>5. [f \in Fds |-> IF f \in {h.fd_client_X, h.fd_client_O} THEN game_id ELSE known[f]]
          = [f \in Fds |-> IF f \in {x, fd} THEN game_id ELSE known[f]]
    BY <2>1
  <2> QED BY ONLY <2>2, <2>3, <2>4, <2>5
<1>7. /\ g \in GameEnvs /\ g.game_ID = game_id
      /\ g.fd_client_X = x /\ g.fd_client_O = fd /\ g.fd_current_player = x
  BY <1>2, NewGameTyped
<1>8. /\ lobby' = EmptyLobby /\ games' = Append(games, g) /\ status' \in {"running", "dead"}
  <2>1. Becomes(left, [peer EXCEPT ![fd] = "open"])
    BY DEF Accept, left
  <2> HIDE DEF g
  <2> QED BY <1>5, <2>1 DEF Becomes
<1>9. /\ peer' = AfterSending([peer EXCEPT ![fd] = "open"], left.out)
      /\ told' = TellsOf(known, left.out)
      /\ arrived' = [arrived EXCEPT ![fd] = game_id] /\ game_id' = game_id + 1 /\ reading' = reading
  BY DEF Accept, left
<1>10. /\ peer' \in [Fds -> PeerStates]
       /\ \A f \in Fds : f # fd /\ peer'[f] = "open" => peer[f] = "open"
  <2>1. [peer EXCEPT ![fd] = "open"] \in [Fds -> PeerStates]
    BY <1>1, Typed DEF PeerStates
  <2> QED BY <1>9, <1>1, <2>1, SendingKeepsPeers, Typed
<1>11. told' = [f \in Fds |-> IF f \in {x, fd} THEN game_id ELSE told[f]]
  BY <1>1, <1>6, <1>9, Typed
<1> HIDE DEF g, known
<1>12. Pairing(fd, x, g)
  BY <1>2, <1>7, <1>8, <1>9, <1>10, <1>11 DEF Pairing
<1> QED BY <1>5, <1>6, <1>12 DEF g, left

\* They start a game, which is the newest.
LEMMA PairingKeepsInv ==
  ASSUME IInv, NEW fd \in Fds, NEW x, NEW g, Pairing(fd, x, g)
  PROVE  IInv'
<1> PICK n \in Nat : n = Len(games)
  BY DEF IInv, TypeOK
<1>1. TypeOK
  BY DEF IInv
<1>2. /\ games' \in Seq(GameEnvs) /\ Len(games') = n + 1 /\ DOMAIN games = 1..n
      /\ DOMAIN games' = DOMAIN games \cup {n + 1}
      /\ \A i \in DOMAIN games : i < n + 1 /\ games'[i] = games[i]
      /\ games'[n + 1] = g
  <2>1. g \in GameEnvs /\ games' = Append(games, g)
    BY DEF Pairing
  <2> QED BY <1>1, <2>1, OneMore, Typed
<1>3. /\ g.game_ID = game_id /\ g.fd_client_X = x /\ g.fd_client_O = fd /\ g.fd_current_player = x
      /\ x \in Fds /\ lobby' = EmptyLobby /\ game_id' = game_id + 1 /\ game_id \in 3..MaxGameId
  BY DEF Pairing
<1>4. \A i \in DOMAIN games : games[i].game_ID < game_id
  BY DEF IInv, IdsGrow
<1>5. TypeOK'
  <2>1. game_id + 1 \in 3..(MaxGameId + 1)
    BY <1>3, BoundsAssumption
  <2>2. told' \in [Fds -> {0} \cup 3..MaxGameId] /\ arrived' \in [Fds -> {0} \cup 3..MaxGameId]
    BY <1>1, <1>3, Typed DEF Pairing
  <2>3. EmptyLobby \in [game_id : {2}, fd_client_X : Fds \cup {0}, fd_client_O : {0}]
    BY DEF EmptyLobby
  <2>4. peer' \in [Fds -> PeerStates] /\ reading' = reading /\ status' \in {"running", "dead"}
    BY DEF Pairing
  <2> QED BY <1>1, <1>2, <1>3, <2>1, <2>2, <2>3, <2>4 DEF TypeOK
<1>6. IdsGrow'
  <2>1. \A i \in DOMAIN games : games'[i].game_ID \in Nat /\ games'[i].game_ID < game_id
    BY <1>1, <1>2, <1>4, Typed
  <2>2. \A i, j \in DOMAIN games : i < j => games'[i].game_ID < games'[j].game_ID
    BY <1>2 DEF IInv, IdsGrow
  <2>3. games'[n + 1].game_ID = game_id /\ game_id \in Nat
    BY <1>2, <1>3
  <2>4. \A i, j \in DOMAIN games' : i < j => i \in DOMAIN games
    BY <1>2
  <2>5. \A i \in DOMAIN games' : games'[i].game_ID < game_id'
    BY <1>2, <1>3, <2>1, <2>3
  <2>6. \A i, j \in DOMAIN games' : i < j => games'[i].game_ID < games'[j].game_ID
    BY <1>2, <2>1, <2>2, <2>3, <2>4
  <2> QED BY <2>5, <2>6 DEF IdsGrow
<1>7. MoversPlay'
  <2>1. \A i \in DOMAIN games : games'[i].fd_current_player \in {games'[i].fd_client_X, games'[i].fd_client_O}
    BY <1>2 DEF IInv, MoversPlay, PlayersOf
  <2> QED BY <1>2, <1>3, <2>1 DEF MoversPlay, PlayersOf
<1>8. \A f \in Fds : f # lobby'.fd_client_X
  BY <1>3, FdsAreNats DEF EmptyLobby
<1>9. LobbyIsNew'
  BY <1>8 DEF LobbyIsNew
<1>10. /\ \A f \in {x, fd} : n + 1 \in GamesWith(f)'
       /\ \A f : f \notin {x, fd} => GamesWith(f)' = GamesWith(f)
       /\ \A f : \A i \in GamesWith(f)' : i <= n + 1
       /\ \A f : \A i \in GamesWith(f) : games'[i] = games[i]
  <2>1. PlayersOf(n + 1)' = {x, fd} /\ \A i \in DOMAIN games : PlayersOf(i)' = PlayersOf(i)
    BY <1>2, <1>3 DEF PlayersOf
  <2>2. \A f : \A i : i \in GamesWith(f)' <=> i \in GamesWith(f) \/ (i = n + 1 /\ f \in {x, fd})
    BY <1>2, <2>1 DEF GamesWith
  <2>3. \A f : \A i \in GamesWith(f) : i \in DOMAIN games
    BY DEF GamesWith
  <2>4. \A f : f \notin {x, fd} => GamesWith(f)' = GamesWith(f)
    BY <2>2
  <2> QED BY <1>2, <2>2, <2>3, <2>4
<1>11. \A i, j \in DOMAIN games' : games'[i].game_ID = games'[j].game_ID => i = j
  <2>1. (\A i, j \in DOMAIN games : games[i].game_ID = games[j].game_ID => i = j)'
    BY <1>5, <1>6, IdsName, PTL
  <2> QED BY <2>1
<1>12. ASSUME NEW f \in Fds, peer'[f] = "open", told'[f] # 0
       PROVE  \E i \in GamesWith(f)' :
                /\ games'[i].game_ID = told'[f]
                /\ told'[f] >= arrived'[f] =>
                     f # lobby'.fd_client_X /\ \A j \in GamesWith(f)' : j <= i
  <2>1. CASE f \in {x, fd}
    <3>1. told'[f] = game_id
      BY <2>1 DEF Pairing
    <3> QED BY <1>2, <1>3, <1>8, <1>10, <2>1, <3>1
  <2>2. CASE f \notin {x, fd}
    <3>1. told'[f] = told[f] /\ arrived'[f] = arrived[f] /\ peer[f] = "open"
      BY <1>1, <1>12, <2>2, Typed DEF Pairing
    <3>2. PICK i \in GamesWith(f) : games[i].game_ID = told[f]
                 /\ (told[f] >= arrived[f] => \A j \in GamesWith(f) : j <= i)
      BY <1>12, <3>1 DEF IInv, SeatedAsTold
    <3> QED BY <1>8, <1>10, <2>2, <3>1, <3>2
  <2> QED BY <2>1, <2>2
<1>13. SeatedAsTold'
  BY <1>11, <1>12 DEF SeatedAsTold
<1> QED BY <1>5, <1>6, <1>7, <1>9, <1>13 DEF IInv

\* A list in which one turn is played seats everyone as before.
LEMMA OneTurnSeats ==
  ASSUME TypeOK, NEW i \in DOMAIN games, NEW env \in GameEnvs, SameSeats(games[i], env),
         OneTurn(games', i, env)
  PROVE  /\ games' \in Seq(GameEnvs) /\ Len(games') = Len(games) /\ games'[i] = env
         /\ \A j \in DOMAIN games : SameSeats(games[j], games'[j])
BY Typed DEF OneTurn, SameSeats

\* The players of the newest game are welcomed to it again.
LEMMA RematchSeats ==
  ASSUME IInv, games' \in Seq(GameEnvs), Len(games') = Len(games),
         \A i \in DOMAIN games : SameSeats(games[i], games'[i]),
         NEW n \in DOMAIN games, n = Len(games), NEW id, id = games[n].game_ID,
         lobby' = lobby, arrived' = arrived, game_id' = game_id,
         \A fd \in Fds : peer'[fd] = "open" => peer[fd] = "open",
         \A fd \in Fds : told'[fd] = IF fd \in PlayersOf(n) THEN id ELSE told[fd]
  PROVE  IdsGrow' /\ SeatedAsTold' /\ LobbyIsNew' /\ MoversPlay'
<1>1. /\ DOMAIN games' = DOMAIN games
      /\ \A i \in DOMAIN games : PlayersOf(i)' = PlayersOf(i) /\ games'[i].game_ID = games[i].game_ID
      /\ \A fd : GamesWith(fd)' = GamesWith(fd)
      /\ MoversPlay' /\ IdsGrow'
  BY SeatsStay
<1>2. \A fd : \A i \in GamesWith(fd) : i \in DOMAIN games /\ i <= n
  BY DEF GamesWith, IInv, TypeOK
<1>3. LobbyIsNew'
  BY <1>1, <1>2 DEF IInv, LobbyIsNew
<1>4. \A i, j \in DOMAIN games' : games'[i].game_ID = games'[j].game_ID => i = j
  BY <1>1 DEF IInv, SeatedAsTold
<1>5. ASSUME NEW fd \in Fds, peer'[fd] = "open", told'[fd] # 0
      PROVE  \E i \in GamesWith(fd)' :
               /\ games'[i].game_ID = told'[fd]
               /\ told'[fd] >= arrived'[fd] =>
                    fd # lobby'.fd_client_X /\ \A j \in GamesWith(fd)' : j <= i
  <2>1. CASE fd \in PlayersOf(n)
    <3>1. n \in GamesWith(fd)
      BY <2>1 DEF GamesWith
    <3>2. told'[fd] = games[n].game_ID
      BY <2>1
    <3>3. games[n].game_ID >= arrived[fd] => fd # lobby.fd_client_X
      <4>1. games[n].game_ID \in Nat /\ arrived[fd] \in Int
        BY Typed DEF IInv
      <4> QED BY <3>1, <4>1 DEF IInv, LobbyIsNew
    <3> QED BY <1>1, <1>2, <3>1, <3>2, <3>3
  <2>2. CASE fd \notin PlayersOf(n)
    <3>1. told'[fd] = told[fd] /\ peer[fd] = "open"
      BY <1>5, <2>2
    <3>2. PICK i \in GamesWith(fd) : games[i].game_ID = told[fd]
                 /\ (told[fd] >= arrived[fd] => fd # lobby.fd_client_X /\ \A j \in GamesWith(fd) : j <= i)
      BY <1>5, <3>1 DEF IInv, SeatedAsTold
    <3> QED BY <1>1, <1>2, <3>1, <3>2
  <2> QED BY <2>1, <2>2
<1>6. SeatedAsTold'
  BY <1>4, <1>5 DEF SeatedAsTold
<1> QED BY <1>1, <1>3, <1>6

\* A move is played, or found to be for no game.
LEMMA ReadPositionKeepsInv ==
  ASSUME IInv, NEW play \in Plays, ReadPosition(play)
  PROVE  IInv'
<1> DEFINE left == ExecuteTurn(reading.game, play)
<1>1. TypeOK
  BY DEF IInv
<1>2. TurnPlayed(reading.game, left)
  <2>1. play \in -128..127
    BY RequestsAssumption
  <2> QED BY <2>1, ExecuteTurnResult
<1>3. /\ lobby' = left.lobby /\ games' = left.games /\ status' \in {"running", "dead"}
      /\ peer' = AfterSending(peer, left.out) /\ told' = TellsOf(told, left.out)
      /\ reading' = Nobody /\ arrived' = arrived /\ game_id' = game_id
  BY DEF ReadPosition, Becomes
<1> HIDE DEF left
<1>4. peer' \in [Fds -> PeerStates] /\ \A fd \in Fds : peer'[fd] = "open" => peer[fd] = "open"
  BY <1>1, <1>3, SendingKeepsPeers, Typed
<1>5. ASSUME games' \in Seq(GameEnvs), lobby' = lobby, told' \in [Fds -> {0} \cup 3..MaxGameId],
             IdsGrow' /\ SeatedAsTold' /\ LobbyIsNew' /\ MoversPlay'
      PROVE  IInv'
  <2>1. TypeOK'
    BY <1>1, <1>3, <1>4, <1>5 DEF TypeOK
  <2> QED BY <1>5, <2>1 DEF IInv
<1>6. CASE Named(reading.game) = {} /\ left = Left(lobby, games, << >>, TRUE)
  <2>1. left.lobby = lobby /\ left.games = games /\ left.out = << >>
    BY <1>6 DEF Left
  <2>2. told' = told
    <3>1. << >> \in Seq(Quiet({}))
      OBVIOUS
    <3> QED BY <1>1, <1>3, <2>1, <3>1, QuietTells, Typed
  <2>3. games' = games /\ lobby' = lobby
    BY <1>3, <2>1
  <2>4. \A i \in DOMAIN games : SameSeats(games[i], games'[i])
    BY <2>3 DEF SameSeats
  <2>5. IdsGrow' /\ SeatedAsTold' /\ LobbyIsNew' /\ MoversPlay'
    BY <1>1, <1>3, <1>4, <2>2, <2>3, <2>4, SeatedStays, Typed
  <2> QED BY <1>1, <1>5, <2>2, <2>3, <2>5, Typed
<1>7. ASSUME NEW i, NEW env, NEW msgs,
             i \in Named(reading.game), env \in GameEnvs, msgs \in Seq(Quiet(PlayersOf(i))),
             SameSeats(games[i], env), left.lobby = lobby, OneTurn(left.games, i, env),
             \/ left.out = msgs
             \/ i = Len(games) /\ left.out = msgs \o SendNewGameData(env, env.game_ID)
      PROVE  IInv'
  <2>1. i \in DOMAIN games
    BY <1>7 DEF Named
  <2>2. /\ games' \in Seq(GameEnvs) /\ Len(games') = Len(games)
        /\ \A j \in DOMAIN games : SameSeats(games[j], games'[j])
    <3>1. OneTurn(games', i, env)
      BY <1>3, <1>7
    <3> QED BY <1>1, <1>7, <2>1, <3>1, OneTurnSeats
  <2>3. lobby' = lobby
    BY <1>3, <1>7
  <2>4. CASE left.out = msgs
    <3>1. told' = told
      BY <1>1, <1>3, <1>7, <2>4, QuietTells, Typed
    <3>2. IdsGrow' /\ SeatedAsTold' /\ LobbyIsNew' /\ MoversPlay'
      BY <1>1, <1>3, <1>4, <2>2, <2>3, <3>1, SeatedStays, Typed
    <3> QED BY <1>1, <1>5, <2>2, <2>3, <3>1, <3>2, Typed
  <2>5. CASE i = Len(games) /\ left.out = msgs \o SendNewGameData(env, env.game_ID)
    <3> DEFINE two == PlayersOf(i)
               id == games[i].game_ID
    <3>1. /\ env.game_ID = id /\ {env.fd_client_X, env.fd_client_O} = two
          /\ env.fd_client_X \in two /\ env.fd_client_O \in two
      BY <1>7 DEF SameSeats, PlayersOf
    <3>2. id \in 3..MaxGameId
      <4>1. games[i] \in GameEnvs
        BY <1>1, <2>1 DEF TypeOK
      <4> QED BY <4>1 DEF GameEnvs
    <3> HIDE DEF two, id
    <3>3. told' = [fd \in Fds |-> IF fd \in {env.fd_client_X, env.fd_client_O} THEN id ELSE told[fd]]
      <4>1. msgs \in Seq(Quiet(two)) /\ told \in [Fds -> {0} \cup 3..MaxGameId] /\ id \in Int
        BY <1>1, <1>7, <3>2, Typed DEF two
      <4>2. TellsOf(told, msgs \o SendNewGameData(env, id))
              = [fd \in Fds |-> IF fd \in {env.fd_client_X, env.fd_client_O} THEN id ELSE told[fd]]
        BY ONLY <3>1, <4>1, NewGameTells
      <4> QED BY <1>3, <2>5, <3>1, <4>2
    <3>4. told' \in [Fds -> {0} \cup 3..MaxGameId]
      BY <1>1, <3>2, <3>3, Typed
    <3>5. \A fd \in Fds : told'[fd] = IF fd \in PlayersOf(i) THEN id ELSE told[fd]
      BY <3>1, <3>3 DEF two
    <3>6. IdsGrow' /\ SeatedAsTold' /\ LobbyIsNew' /\ MoversPlay'
      <4>1. id = games[i].game_ID /\ i = Len(games)
        BY <2>5 DEF id
      <4> QED BY <1>3, <1>4, <2>1, <2>2, <2>3, <3>5, <4>1, RematchSeats
    <3> QED BY <1>5, <2>2, <2>3, <3>4, <3>6
  <2> QED BY <1>7, <2>4, <2>5
<1> QED BY <1>2, <1>6, <1>7 DEF TurnPlayed

\* The others are told that a client has left, and its descriptor is closed.
LEMMA HangUpKeepsInv ==
  ASSUME IInv, NEW fd \in Fds, HangUp(fd)
  PROVE  IInv'
<1>1. TypeOK
  BY DEF IInv
<1>2. PICK left \in HandleDisconnect(fd) :
        /\ Becomes(left, peer)
        /\ peer' = [AfterSending(peer, left.out) EXCEPT ![fd] = "none"]
        /\ told' = [TellsOf(told, left.out) EXCEPT ![fd] = 0]
  BY DEF HangUp
<1>3. arrived' = arrived /\ game_id' = game_id /\ reading' = reading
  BY DEF HangUp
<1>4. /\ left.lobby \in {lobby, EmptyLobby} /\ left.games = games
      /\ left.out \in Seq(Quiet(Partners(fd)))
  BY HandleDisconnectResult
<1>5. lobby' \in {lobby, EmptyLobby} /\ games' = games /\ status' \in {"running", "dead"}
  BY <1>2, <1>4 DEF Becomes
<1>6. TellsOf(told, left.out) = told
  BY <1>1, <1>4, QuietTells, Typed
<1>7. /\ told' = [told EXCEPT ![fd] = 0]
      /\ peer' \in [Fds -> PeerStates]
      /\ \A f \in Fds : peer'[f] = "open" => f # fd /\ peer[f] = "open"
  <2>1. /\ AfterSending(peer, left.out) \in [Fds -> PeerStates]
        /\ \A f \in Fds : AfterSending(peer, left.out)[f] = "open" => peer[f] = "open"
    BY <1>1, SendingKeepsPeers, Typed
  <2> QED BY <1>2, <1>6, <2>1 DEF PeerStates
<1>8. \A i \in DOMAIN games : SameSeats(games[i], games'[i])
  BY <1>5 DEF SameSeats
<1>9. IdsGrow' /\ SeatedAsTold' /\ LobbyIsNew' /\ MoversPlay'
  <2>1. \A f \in Fds : peer'[f] = "open" /\ told'[f] # 0 => peer[f] = "open" /\ told'[f] = told[f]
    BY <1>1, <1>7, Typed
  <2>2. games' \in Seq(GameEnvs) /\ Len(games') = Len(games)
    BY <1>1, <1>5, Typed
  <2> QED BY <1>3, <1>5, <1>8, <2>1, <2>2, SeatedStays
<1>10. TypeOK'
  <2>1. EmptyLobby \in [game_id : {2}, fd_client_X : Fds \cup {0}, fd_client_O : {0}]
    BY DEF EmptyLobby
  <2>2. told' \in [Fds -> {0} \cup 3..MaxGameId]
    BY <1>1, <1>7, Typed
  <2> QED BY <1>1, <1>3, <1>5, <1>7, <2>1, <2>2 DEF TypeOK
<1> QED BY <1>9, <1>10 DEF IInv

\* The id of a game is read, as a byte.
LEMMA ReadGameKeepsInv ==
  ASSUME IInv, NEW fd \in Fds, NEW game \in Int, ReadGame(fd, game)
  PROVE  IInv'
<1>1. AsByte(game) \in -128..127
  BY DEF AsByte
<1>2. TypeOK'
  BY <1>1 DEF IInv, TypeOK, ReadGame
<1>3. IdsGrow' /\ SeatedAsTold' /\ LobbyIsNew' /\ MoversPlay'
  BY DEF IInv, IdsGrow, SeatedAsTold, LobbyIsNew, MoversPlay, GamesWith, PlayersOf, ReadGame
<1> QED BY <1>2, <1>3 DEF IInv

\* A client leaves.
LEMMA ClientLeavesKeepsInv ==
  ASSUME IInv, NEW fd \in Fds, ClientLeaves(fd)
  PROVE  IInv'
<1>1. TypeOK'
  BY DEF IInv, TypeOK, ClientLeaves, PeerStates
<1>2. \A f \in Fds : peer'[f] = "open" => peer[f] = "open"
  BY DEF IInv, TypeOK, ClientLeaves
<1>3. IdsGrow' /\ SeatedAsTold' /\ LobbyIsNew' /\ MoversPlay'
  BY <1>2 DEF IInv, IdsGrow, SeatedAsTold, LobbyIsNew, MoversPlay, GamesWith, PlayersOf, ClientLeaves
<1> QED BY <1>1, <1>3 DEF IInv

\* Every step keeps the invariant.
LEMMA NextIInv == IInv /\ [Next]_vars => IInv'
<1> SUFFICES ASSUME IInv, [Next]_vars PROVE IInv'
  OBVIOUS
<1>1. ASSUME NEW fd \in Fds, Accept(fd) PROVE IInv'
  BY <1>1, WaitingKeepsInv, PairingResult, PairingKeepsInv
<1>2. ASSUME NEW fd \in Fds, HangUp(fd) PROVE IInv'
  BY <1>2, HangUpKeepsInv
<1>3. ASSUME NEW fd \in Fds, ClientLeaves(fd) PROVE IInv'
  BY <1>3, ClientLeavesKeepsInv
<1>4. ASSUME NEW fd \in Fds, NEW game \in Guesses \cup ({told[fd]} \ {0}), ReadGame(fd, game)
      PROVE  IInv'
  <2>1. game \in Int
    <3>1. told[fd] \in Int
      BY Typed DEF IInv
    <3>2. \A g \in Guesses : g \in Int
      BY RequestsAssumption
    <3> QED BY <3>1, <3>2
  <2> QED BY <1>4, <2>1, ReadGameKeepsInv
<1>5. ASSUME NEW play \in Plays, ReadPosition(play) PROVE IInv'
  BY <1>5, ReadPositionKeepsInv
<1>6. CASE UNCHANGED vars
  BY <1>6 DEF vars, IInv, TypeOK, IdsGrow, SeatedAsTold, LobbyIsNew, MoversPlay, GamesWith, PlayersOf
<1> QED BY <1>1, <1>2, <1>3, <1>4, <1>5, <1>6 DEF Next

\* The invariant holds of every execution.
THEOREM Invariance == Spec => []IInv
BY InitIInv, NextIInv, PTL DEF Spec

\* Every variable keeps its type, whatever clients send (v3_server.c): the lobby's id is
\* 2 and its second seat free whenever the loop goes on, and a game that goes on in
\* spite of everything never counts more than nine moves.
THEOREM TypeCorrect == Spec => []TypeOK
<1>1. IInv => TypeOK
  BY DEF IInv
<1> QED BY <1>1, Invariance, PTL

\* Ids name games, and a client has a seat in the game it was last welcomed to
\* (handle_incoming_cfd, send_new_game_data, rematch).
THEOREM ClientsAreSeatedAsTold == Spec => []SeatedAsTold
<1>1. IInv => SeatedAsTold
  BY DEF IInv
<1> QED BY <1>1, Invariance, PTL

-----------------------------------------------------------------------------
(* Deaths.                                                                 *)

\* SIGPIPE is raised only by a message to one of these clients, who has left.
LEMMA SigpipeOfOne ==
  ASSUME NEW p \in [Fds -> PeerStates], NEW fds, NEW msgs \in Seq(Said(fds)), RaisesSigpipe(p, msgs)
  PROVE  \E f \in fds : f \in Fds /\ HasLeft(p, f)
<1>1. PICK f \in Fds : HasLeft(p, f) /\ MessagesTo(f, msgs) # {}
  BY FS_EmptySet DEF RaisesSigpipe, HasLeft
<1>3. PICK i \in 1..Len(msgs) : msgs[i].to = f
  BY <1>1 DEF MessagesTo
<1>4. \A q \in Said(fds) : q.to \in fds
  BY DEF Said, Quiet
<1>5. f \in fds
  BY <1>3, <1>4
<1> QED BY <1>1, <1>5

\* If nothing is sent it is not raised.
LEMMA NothingSent ==
  ASSUME NEW p
  PROVE  ~RaisesSigpipe(p, << >>)
<1> PICK msgs : msgs = << >>
  OBVIOUS
<1> SUFFICES ASSUME RaisesSigpipe(p, msgs) PROVE FALSE
  OBVIOUS
<1>1. PICK f : MessagesTo(f, msgs) # {}
  BY FS_EmptySet DEF RaisesSigpipe
<1>2. Len(msgs) = 0
  OBVIOUS
<1> QED BY <1>1, <1>2 DEF MessagesTo

\* What is quiet is said.
LEMMA QuietIsSaid ==
  ASSUME NEW fds, NEW msgs \in Seq(Quiet(fds))
  PROVE  msgs \in Seq(Said(fds))
<1>1. \A q \in Quiet(fds) : q \in Said(fds)
  BY DEF Said
<1> QED BY <1>1

\* The death of the server, accounted for.
Accounted ==
  \/ reading # Nobody /\ Named(reading.game) = {}
  \/ \E i \in Concerned : i < Len(games) /\ games'[i].game_over
  \/ \E i \in Concerned \cap DOMAIN games' : \E fd \in PlayersOf(i)' : HasLeft(peer, fd)

\* A client is accepted: only the one who waits in the lobby can have left.
LEMMA AcceptDeath ==
  ASSUME IInv, NEW fd \in Fds, Accept(fd), status' = "dead"
  PROVE  Accounted
<1> DEFINE left == HandleIncoming(fd)
           connections == [peer EXCEPT ![fd] = "open"]
<1>1. TypeOK
  BY DEF IInv
<1>2. Becomes(left, connections)
  BY DEF Accept
<1>3. connections \in [Fds -> PeerStates]
  BY <1>1, Typed DEF PeerStates
<1>4. CASE lobby.fd_client_X = 0
  <2>1. left = Left([lobby EXCEPT !.fd_client_X = fd], games, << >>, FALSE)
    BY <1>4 DEF HandleIncoming
  <2> HIDE DEF left, connections
  <2>2. left.out = << >> /\ left.crashed = FALSE
    BY <2>1 DEF Left
  <2>3. RaisesSigpipe(connections, << >>)
    BY <1>2, <2>2 DEF Becomes
  <2> QED BY <2>3, NothingSent
<1>5. CASE lobby.fd_client_X # 0
  <2> DEFINE x == lobby.fd_client_X
             g == NewGame(game_id, x, fd)
  <2> PICK n \in Nat : n = Len(games) + 1
    BY <1>1, Typed
  <2>1. /\ Pairing(fd, x, g) /\ ~left.crashed /\ left.out \in Seq(Said({x, fd}))
    BY <1>5, PairingResult
  <2>2. /\ g \in GameEnvs /\ g.fd_client_X = x /\ g.fd_client_O = fd /\ games' = Append(games, g)
        /\ x \in Fds
    BY <2>1 DEF Pairing
  <2> HIDE DEF left, g
  <2>3. /\ n \in DOMAIN games' /\ games'[n] = g /\ Len(games') = n /\ n \in Nat
    BY <1>1, <2>2, OneMore, Typed
  <2>4. RaisesSigpipe(connections, left.out)
    BY <1>2, <2>1 DEF Becomes
  <2> HIDE DEF connections
  <2>5. PICK f \in {x, fd} : f \in Fds /\ HasLeft(connections, f)
    BY <1>3, <2>1, <2>4, SigpipeOfOne
  <2>6. HasLeft(peer, f)
    BY <1>1, <2>5, Typed DEF HasLeft, connections
  <2>7. n \in Concerned
    <3>1. reading = Nobody
      BY DEF Accept, AtLoop
    <3>2. n \in (Len(games) + 1)..Len(games')
      BY <2>3
    <3> QED BY <3>1, <3>2 DEF Concerned
  <2>8. f \in PlayersOf(n)'
    BY <2>2, <2>3, <2>5 DEF PlayersOf
  <2> QED BY <2>3, <2>6, <2>7, <2>8 DEF Accounted
<1> QED BY <1>4, <1>5

\* A move is played: there is no such game, an older one ends, or a player has left.
LEMMA ReadPositionDeath ==
  ASSUME IInv, NEW play \in Plays, ReadPosition(play), status' = "dead"
  PROVE  Accounted
<1> DEFINE left == ExecuteTurn(reading.game, play)
<1>1. TypeOK
  BY DEF IInv
<1>2. TurnPlayed(reading.game, left)
  <2>1. play \in -128..127
    BY RequestsAssumption
  <2> QED BY <2>1, ExecuteTurnResult
<1>3. games' = left.games /\ Becomes(left, peer) /\ reading # Nobody
  BY DEF ReadPosition, Becomes
<1> HIDE DEF left
<1>4. \A i : i \in Concerned <=> i \in Named(reading.game)
  BY <1>3 DEF Concerned
<1>5. CASE Named(reading.game) = {}
  BY <1>3, <1>5 DEF Accounted
<1>6. ASSUME NEW i, NEW env, NEW msgs,
             i \in Named(reading.game), env \in GameEnvs, msgs \in Seq(Quiet(PlayersOf(i))),
             SameSeats(games[i], env), OneTurn(left.games, i, env),
             \/ left.out = msgs /\ left.crashed = FALSE
             \/ left.out = msgs /\ left.crashed = TRUE /\ env.game_over /\ i < Len(games)
             \/ /\ i = Len(games) /\ left.crashed = FALSE
                /\ left.out = msgs \o SendNewGameData(env, env.game_ID)
      PROVE  Accounted
  <2>1. i \in DOMAIN games /\ i \in Concerned
    BY <1>4, <1>6 DEF Named
  <2>2. games'[i] = env /\ i \in DOMAIN games'
    <3>1. OneTurn(games', i, env)
      BY <1>3, <1>6
    <3>2. games'[i] = env /\ games' \in Seq(GameEnvs) /\ Len(games') = Len(games)
      BY <1>1, <1>6, <2>1, <3>1, OneTurnSeats
    <3> QED BY <1>1, <2>1, <3>2, Typed
  <2>3. CASE left.crashed = TRUE
    <3>1. env.game_over /\ i < Len(games)
      BY <1>6, <2>3
    <3> QED BY <2>1, <2>2, <3>1 DEF Accounted
  <2>4. CASE left.crashed = FALSE
    <3>1. RaisesSigpipe(peer, left.out)
      BY <1>3, <2>4 DEF Becomes
    <3>2. left.out \in Seq(Said(PlayersOf(i)))
      <4> DEFINE two == PlayersOf(i)
                 id == env.game_ID
      <4>1. CASE left.out = msgs
        BY <1>6, <4>1, QuietIsSaid
      <4>2. CASE left.out = msgs \o SendNewGameData(env, env.game_ID)
        <5>1. env.fd_client_X \in two /\ env.fd_client_O \in two
          BY <1>6 DEF SameSeats, PlayersOf
        <5>2. id \in Int
          BY <1>6 DEF GameEnvs
        <5>3. msgs \in Seq(Quiet(two)) /\ told \in [Fds -> {0} \cup 3..MaxGameId]
          BY <1>1, <1>6, Typed
        <5> HIDE DEF two, id
        <5>4. msgs \o SendNewGameData(env, id) \in Seq(Said(two))
          BY ONLY <5>1, <5>2, <5>3, NewGameTells
        <5> QED BY <4>2, <5>4 DEF two, id
      <4> QED BY <1>6, <2>4, <4>1, <4>2
    <3>3. PICK f \in PlayersOf(i) : f \in Fds /\ HasLeft(peer, f)
      BY <1>1, <3>1, <3>2, SigpipeOfOne, Typed
    <3>4. f \in PlayersOf(i)'
      BY <1>6, <2>2 DEF PlayersOf, SameSeats
    <3> QED BY <2>1, <2>2, <3>3, <3>4 DEF Accounted
  <2> QED BY <1>6, <2>3, <2>4
<1> QED BY <1>2, <1>5, <1>6 DEF TurnPlayed

\* A client is hung up on: one who shared a game with it has left as well.
LEMMA HangUpDeath ==
  ASSUME IInv, NEW fd \in Fds, HangUp(fd), status' = "dead"
  PROVE  Accounted
<1>1. TypeOK
  BY DEF IInv
<1>2. PICK left \in HandleDisconnect(fd) :
        Becomes(left, peer) /\ peer' = [AfterSending(peer, left.out) EXCEPT ![fd] = "none"]
  BY DEF HangUp
<1>3. left.games = games /\ left.crashed = FALSE /\ left.out \in Seq(Quiet(Partners(fd)))
  BY HandleDisconnectResult
<1>4. games' = games /\ RaisesSigpipe(peer, left.out)
  BY <1>2, <1>3 DEF Becomes
<1>5. left.out \in Seq(Said(Partners(fd)))
  BY <1>3, QuietIsSaid
<1>6. PICK f \in Partners(fd) : HasLeft(peer, f)
  BY <1>1, <1>4, <1>5, SigpipeOfOne, Typed
<1>7. PICK i \in GamesWith(fd) : f \in PlayersOf(i)
  BY DEF Partners
<1>8. i \in Concerned
  <2>1. peer'[fd] = "none"
    BY <1>1, <1>2, SendingKeepsPeers, Typed
  <2>2. reading = Nobody
    BY DEF HangUp, AtLoop
  <2> QED BY <2>1, <2>2 DEF Concerned
<1>9. i \in DOMAIN games' /\ f \in PlayersOf(i)'
  BY <1>4, <1>7 DEF GamesWith, PlayersOf
<1> QED BY <1>6, <1>8, <1>9 DEF Accounted

\* The server dies only because it is asked for a game there is not (execute_turn walks
\* off the list), because another game than the newest comes to its end (rematch walks
\* off it), or of SIGPIPE, because a player it sends something to has left.
THEOREM DeathsAccountedFor == Spec => DeathIsAccountedFor
<1>1. IInv /\ [Next]_vars => [status' = "dead" /\ status = "running" => Accounted]_vars
  <2> SUFFICES ASSUME IInv, [Next]_vars, status' = "dead", status = "running", vars' # vars
               PROVE  Accounted
    OBVIOUS
  <2>1. ASSUME NEW fd \in Fds, Accept(fd) PROVE Accounted
    BY <2>1, AcceptDeath
  <2>2. ASSUME NEW fd \in Fds, HangUp(fd) PROVE Accounted
    BY <2>2, HangUpDeath
  <2>3. ASSUME NEW fd \in Fds, ClientLeaves(fd) PROVE Accounted
    BY <2>3 DEF ClientLeaves
  <2>4. ASSUME NEW fd \in Fds, NEW game, ReadGame(fd, game) PROVE Accounted
    BY <2>4 DEF ReadGame
  <2>5. ASSUME NEW play \in Plays, ReadPosition(play) PROVE Accounted
    BY <2>5, ReadPositionDeath
  <2> QED BY <2>1, <2>2, <2>3, <2>4, <2>5 DEF Next
<1>2. IInv /\ [Next]_vars =>
        [status' = "dead" /\ status = "running" =>
           \/ reading # Nobody /\ Named(reading.game) = {}
           \/ \E i \in Concerned : i < Len(games) /\ games'[i].game_over
           \/ \E i \in Concerned \cap DOMAIN games' : \E fd \in PlayersOf(i)' : HasLeft(peer, fd)]_vars
  BY <1>1 DEF Accounted
<1> QED BY <1>2, Invariance, PTL DEF Spec, DeathIsAccountedFor
=============================================================================
