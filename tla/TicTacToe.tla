----------------------------- MODULE TicTacToe -----------------------------
(***************************************************************************)
(* One tic-tac-toe game under the server's main loop.  While the server    *)
(* waits in select (pc = "select") any connected client may send it a      *)
(* move; a move of the player whose turn it is starts a run of the engine, *)
(* which dispatches one handler per step (pc = "run") until a handler asks *)
(* for FSM_EXIT.  A pair of ids without a row would take the engine off    *)
(* the end of its table (pc = "off_table"), and a "terminate" row would    *)
(* end the process (pc = "terminate").                                     *)
(***************************************************************************)
EXTENDS TTT_FSM, FiniteSets

CONSTANTS Fds,      \* descriptors of the clients, the two players among them
          Uids,     \* game ids the two players may have been given
          Moves     \* values of the move byte a client may send (an int8_t)

ASSUME FdsAssumption == Fds \subseteq Nat
ASSUME UidsAssumption == Uids \subseteq Nat
ASSUME MovesAssumption == Moves \subseteq -128..127

VARIABLES env,      \* the game's SingleTTTGameEnv
          from_id,  \* fsm_run's from_id
          to_id,    \* fsm_run's to_id
          pc,       \* where the server is
          out       \* the messages sent since the last request arrived

vars == << env, from_id, to_id, pc, out >>

StateIds == {FSM_INIT, FSM_EXIT, WAIT, VALIDATE, TURNOVER, GAMEOVER, ERROR}

Init ==
  /\ \E x, o \in Fds, xu, ou \in Uids : env = NewTTTGame(x, xu, o, ou)
  /\ from_id = FSM_INIT
  /\ to_id = FSM_EXIT
  /\ pc = "select"
  /\ out = << >>

\* The player whose turn it is sends a move: the server starts the engine.
PlayInTurn(move) ==
  /\ pc = "select"
  /\ env' = [env EXCEPT !.received_move = move]
  /\ from_id' = FSM_INIT
  /\ to_id' = VALIDATE
  /\ pc' = "run"
  /\ out' = << >>

\* Anybody else sends a move for this game.
PlayOutOfTurn(fd) ==
  /\ pc = "select"
  /\ env.fd_current_player # fd
  /\ out' = << Msg(fd, "OUT_OF_TURN", 0) >>
  /\ UNCHANGED << env, from_id, to_id, pc >>

\* One round of fsm_run's loop.
FsmStep ==
  /\ pc = "run"
  /\ LET handler == FsmTransition(TTTTable, from_id, to_id)
         done    == Perform(handler, env)
     IN  IF handler \in Handlers
           THEN /\ env' = done.env
                /\ out' = out \o done.out
                /\ from_id' = to_id
                /\ to_id' = done.ret
                /\ pc' = IF done.ret = FSM_EXIT THEN "select" ELSE "run"
           ELSE /\ pc' = handler
                /\ UNCHANGED << env, from_id, to_id, out >>

Next ==
  \/ \E move \in Moves : PlayInTurn(move)
  \/ \E fd \in Fds : PlayOutOfTurn(fd)
  \/ FsmStep

Spec == Init /\ [][Next]_vars

\* The engine runs on the server's only thread and never blocks.
Fairness == WF_vars(FsmStep)

FairSpec == Spec /\ Fairness

-----------------------------------------------------------------------------
(* Properties.                                                             *)

TTTEnvs ==
  [client_x : Fds, client_x_uid : Uids, client_o : Fds, client_o_uid : Uids,
   fd_current_player : Fds, game_board : [Cells -> Fds \cup {BLANK_SPACE}],
   play_count : Nat, game_over : BOOLEAN, received_move : -128..127,
   winner : -128..127]

\* Every variable has its type; winner in particular fits the int8_t it is.
TypeOK ==
  /\ env \in TTTEnvs
  /\ from_id \in StateIds
  /\ to_id \in StateIds
  /\ pc \in {"select", "run", "off_table", "terminate"}
  /\ out \in Seq(Messages)

\* The engine always finds a row for the pair it is at, and never the row of
\* terminate: the turn neither reads past its table nor ends the process.
EngineStaysOnTable == pc \in {"select", "run"}

\* Two different clients whose descriptors can stand for a mark: not the value
\* of an empty square, and small enough for winner.
OrdinaryPlayers ==
  /\ env.client_x # env.client_o
  /\ {env.client_x, env.client_o} \subseteq (0..127) \ {BLANK_SPACE}

MarksOf(fd) == {c \in Cells : env.game_board[c] = fd}

\* Between turns X has as many marks as O, or one more when it is O's turn, and
\* play_count counts them: nobody moves twice in a row or loses a turn, however
\* many bad or untimely requests came in between.
TurnsAlternate ==
  OrdinaryPlayers /\ pc = "select" /\ ~env.game_over =>
    LET x == Cardinality(MarksOf(env.client_x))
        o == Cardinality(MarksOf(env.client_o))
    IN  /\ env.play_count = x + o
        /\ x = IF env.fd_current_player = env.client_x THEN o ELSE o + 1

\* For any descriptors whatever: between turns a line is never overlooked.
NoLineOverlooked == pc = "select" /\ HasLine(env.game_board) => env.game_over

\* A mark, once made, stays, and a step of the server makes at most one.
MarksAreFinal ==
  [][\A c, d \in Cells : env'.game_board[c] # env.game_board[c] =>
       /\ env.game_board[c] = BLANK_SPACE
       /\ env'.game_board[d] # env.game_board[d] => d = c]_vars

\* The clients who were sent a message of this code since the last request.
Told(code) == {out[i].to : i \in {j \in 1..Len(out) : out[j].code = code}}

Players == {env.client_x, env.client_o}

\* Does this player hold a line of the board other than the anti-diagonal?
HoldsLine(fd) ==
  \/ \E r \in {0, 3, 6} : FullRow(env.game_board, r) /\ env.game_board[r] = fd
  \/ \E c \in {0, 1, 2} : FullCol(env.game_board, c) /\ env.game_board[c] = fd
  \/ FullDiagonal(env.game_board) /\ env.game_board[0] = fd

HoldsAntiDiagonal(fd) == FullAntiDiagonal(env.game_board) /\ env.game_board[2] = fd

\* The results one request produces agree: a win for one player comes with the
\* loss of the other, a tie is told to both, and nobody is told two results.  Whoever
\* is told of a win holds a line, except that on a board whose anti-diagonal is full
\* it is the one who marked square 0.
ResultsAgree ==
  OrdinaryPlayers =>
    /\ Told("WIN") \cup Told("LOSS") # {} =>
         \E winner \in Players :
           /\ Told("WIN") = {winner}
           /\ Told("LOSS") = Players \ {winner}
           /\ Told("TIE") = {}
           /\ \/ HoldsLine(winner)
              \/ FullAntiDiagonal(env.game_board) /\ env.game_board[0] = winner
    /\ Told("TIE") \in {{}, Players}

Replies(msgs) == {i \in 1..Len(msgs) : msgs[i].code \in {"ACCEPTED", "INVALID_ACTION"}}

\* A run of the engine answers its mover once, and nobody else; it says nothing
\* only when it found a line and a winner who is neither player.
MoverIsAnsweredOnce ==
  [][pc = "run" /\ pc' = "select" =>
       /\ \A i, j \in Replies(out') : i = j
       /\ \A i \in Replies(out') : out'[i].to = env.fd_current_player
       /\ Replies(out') = {} => /\ HasLine(env.game_board)
                               /\ env.winner \notin Players]_vars

\* A turn that was started ends, and the server is back in select.
TurnEnds == pc = "run" ~> pc = "select"

\* What the run in progress will leave when it is finished.
Completion ==
  IF pc # "run" THEN << env, out >>
  ELSE LET rest == IF from_id = FSM_INIT THEN Mainaroo(env)
                   ELSE Perform(FsmTransition(TTTTable, from_id, to_id), env)
       IN  << rest.env, out \o rest.out >>

\* Handler by handler, the engine computes the turn that Mainaroo states at one
\* stroke (the form in which GameServer uses it).
EngineComputesMainaroo == [][pc = "run" => Completion' = Completion]_vars

\* Has this step ended a turn that decided the game?
EndsGame == pc = "run" /\ pc' = "select" /\ env'.game_over /\ ~env.game_over

\* For any two different descriptors: when a line other than the anti-diagonal has
\* just ended the game, its owner is told of the win if the descriptor fits in the
\* int8_t winner; what the other's descriptor is does not matter.
NarrowLineOwnerIsTold ==
  [][EndsGame /\ env.client_x # env.client_o /\ ~FullAntiDiagonal(env.game_board) =>
       \A fd \in Players \cap 0..127 : HoldsLine(fd) => fd \in Told("WIN")']_vars

-----------------------------------------------------------------------------
(* What goes wrong.                                                        *)

\* "send win to x", "send win to o": when a game has just been won, the player
\* who holds the line is told so.
LineOwnerIsTold ==
  [][OrdinaryPlayers /\ EndsGame =>
       \A fd \in Players : HoldsLine(fd) \/ HoldsAntiDiagonal(fd)
                             => fd \in Told("WIN")']_vars

-----------------------------------------------------------------------------
(* Refinement.  The turn passes, or the game is over, from the moment      *)
(* validate_input has chosen the next state.                               *)

Pending(state) == pc = "run" /\ to_id = state

Player(fd) == IF fd = env.client_x THEN "x" ELSE "o"

Abstract == INSTANCE NoughtsAndCrosses WITH
  squares <- [c \in Cells |-> IF env.game_board[c] = BLANK_SPACE THEN "free"
                              ELSE Player(env.game_board[c])],
  turn <- Player(IF Pending(TURNOVER) THEN OtherPlayer(env) ELSE env.fd_current_player),
  over <- env.game_over \/ Pending(GAMEOVER)

\* The games between ordinary players.
OrdinaryInit == Init /\ OrdinaryPlayers

OrdinarySpec == OrdinaryInit /\ [][Next]_vars /\ Fairness

\* A game between ordinary players is a game of noughts and crosses.
PlaysNoughtsAndCrosses == Abstract!Spec
=============================================================================
