--------------------------- MODULE TTT_FSM_proofs ---------------------------
(***************************************************************************)
(* Lemmas about the handlers of TTT_FSM and RPS_FSM, for whatever          *)
(* descriptors stand on the board: what a turn does to a game, whom it     *)
(* tells what, which rows the engine finds, and how a game of tic-tac-toe  *)
(* looks to NoughtsAndCrosses.                                             *)
(***************************************************************************)
EXTENDS TTT_FSM, RPS_FSM, Engine_proofs

USE DEF FSM_INIT, FSM_EXIT, WAIT, VALIDATE, TURNOVER, GAMEOVER, ERROR

-----------------------------------------------------------------------------
(* What both games share.                                                  *)

\* The ids validate_RPS_input may leave that the table has no row for.
StrayIds == UndefinedReturn \ {RPS_WAIT, RPS_TURNOVER, RPS_GAMEOVER}

\* What it finds in the table of rock-paper-scissors for the pairs of ids a turn can
\* reach.
LEMMA RPSRowsFound ==
  /\ FsmTransition(RPSTable, FSM_INIT, RPS_VALIDATE) = "validate_RPS_input"
  /\ FsmTransition(RPSTable, RPS_VALIDATE, RPS_TURNOVER) = "accepted_RPS_move"
  /\ FsmTransition(RPSTable, RPS_VALIDATE, RPS_GAMEOVER) = "game_RPS_over"
  /\ \A to \in StrayIds : FsmTransition(RPSTable, RPS_VALIDATE, to) = OFF_TABLE
<1> USE DEF FSM_INIT, FSM_EXIT, RPS_WAIT, RPS_VALIDATE, RPS_TURNOVER, RPS_GAMEOVER
<1> DEFINE rows == RPSTable
<1>1. /\ Len(rows) = 7
      /\ rows[1] = Row(FSM_INIT, RPS_VALIDATE, "validate_RPS_input")
      /\ rows[2] = Row(RPS_VALIDATE, RPS_WAIT, "invalid_RPS_move")
      /\ rows[3] = Row(RPS_VALIDATE, RPS_GAMEOVER, "game_RPS_over")
      /\ rows[4] = Row(RPS_VALIDATE, RPS_TURNOVER, "accepted_RPS_move")
      /\ rows[5] = Row(RPS_WAIT, RPS_VALIDATE, "validate_RPS_input")
      /\ rows[6] = Row(RPS_TURNOVER, FSM_EXIT, "RPS_terminate")
      /\ rows[7] = Row(RPS_GAMEOVER, FSM_EXIT, "RPS_terminate")
  BY DEF RPSTable
<1> HIDE DEF rows
<1>2. FsmTransition(rows, FSM_INIT, RPS_VALIDATE) = "validate_RPS_input"
  <2>1. IsRow(rows[1], FSM_INIT, RPS_VALIDATE) /\ rows[1].perform = "validate_RPS_input"
    BY <1>1 DEF IsRow, Row
  <2> QED BY <1>1, <2>1, FirstRow
<1>3. FsmTransition(rows, RPS_VALIDATE, RPS_TURNOVER) = "accepted_RPS_move"
  <2>1. IsRow(rows[4], RPS_VALIDATE, RPS_TURNOVER) /\ rows[4].perform = "accepted_RPS_move"
    BY <1>1 DEF IsRow, Row
  <2>2. \A j \in 1..(4 - 1) : ~IsRow(rows[j], RPS_VALIDATE, RPS_TURNOVER)
    BY <1>1 DEF IsRow, Row
  <2>3. 4 \in 1..Len(rows) /\ Len(rows) \in Nat
    BY <1>1
  <2> QED BY <2>1, <2>2, <2>3, FirstRow
<1>4. FsmTransition(rows, RPS_VALIDATE, RPS_GAMEOVER) = "game_RPS_over"
  <2>1. IsRow(rows[3], RPS_VALIDATE, RPS_GAMEOVER) /\ rows[3].perform = "game_RPS_over"
    BY <1>1 DEF IsRow, Row
  <2>2. \A j \in 1..(3 - 1) : ~IsRow(rows[j], RPS_VALIDATE, RPS_GAMEOVER)
    BY <1>1 DEF IsRow, Row
  <2>3. 3 \in 1..Len(rows) /\ Len(rows) \in Nat
    BY <1>1
  <2> QED BY <2>1, <2>2, <2>3, FirstRow
<1>5. ASSUME NEW to \in StrayIds PROVE FsmTransition(rows, RPS_VALIDATE, to) = OFF_TABLE
  <2>1. to # RPS_WAIT /\ to # RPS_TURNOVER /\ to # RPS_GAMEOVER
    BY DEF StrayIds
  <2>2. \A j \in 1..7 : ~IsRow(rows[j], RPS_VALIDATE, to)
    BY <1>1, <2>1 DEF IsRow, Row
  <2> QED BY <1>1, <2>2, NoRow
<1> QED BY <1>2, <1>3, <1>4, <1>5 DEF rows

\* The clients a sequence of messages tells something.
ToldBy(messages, code) == {messages[i].to : i \in {j \in 1..Len(messages) : messages[j].code = code}}

\* An acceptance and two results make three messages.
LEMMA ThreeMessages ==
  ASSUME NEW m1 \in Messages, NEW m2 \in Messages, NEW m3 \in Messages
  PROVE  LET all == << m1 >> \o << m2, m3 >>
         IN  /\ all \in Seq(Messages) /\ Len(all) = 3
             /\ all[1] = m1 /\ all[2] = m2 /\ all[3] = m3
             /\ \A code : ToldBy(all, code) =
                  {m.to : m \in {n \in {m1, m2, m3} : n.code = code}}
<1> DEFINE all == << m1 >> \o << m2, m3 >>
<1>1. /\ all \in Seq(Messages) /\ Len(all) = 3
      /\ all[1] = m1 /\ all[2] = m2 /\ all[3] = m3
  OBVIOUS
<1> HIDE DEF all
<1>2. 1..Len(all) = {1, 2, 3}
  BY <1>1
<1>3. ASSUME NEW code
      PROVE  ToldBy(all, code) = {m.to : m \in {n \in {m1, m2, m3} : n.code = code}}
  BY <1>1, <1>2 DEF ToldBy
<1> QED BY <1>1, <1>3 DEF all

\* The messages a single one, and a pair, consist of.
LEMMA OneMessage ==
  ASSUME NEW m \in Messages
  PROVE  /\ << m >> \in Seq(Messages)
         /\ \A code : ToldBy(<< m >>, code) = {n.to : n \in {k \in {m} : k.code = code}}
<1> DEFINE all == << m >>
<1>1. all \in Seq(Messages) /\ Len(all) = 1 /\ all[1] = m
  OBVIOUS
<1> HIDE DEF all
<1>2. 1..Len(all) = {1}
  BY <1>1
<1>3. ASSUME NEW code PROVE ToldBy(all, code) = {n.to : n \in {k \in {m} : k.code = code}}
  BY <1>1, <1>2 DEF ToldBy
<1> QED BY <1>1, <1>3 DEF all

-----------------------------------------------------------------------------
(* Tic-tac-toe.                                                            *)

\* The environments of games between clients with any descriptors.
TTTRecords ==
  [client_x : Nat, client_x_uid : Int, client_o : Nat, client_o_uid : Int,
   fd_current_player : Nat, game_board : [Cells -> Nat],
   play_count : Nat, game_over : BOOLEAN, received_move : -128..127,
   winner : -128..127]

-----------------------------------------------------------------------------
(* The engine's table.                                                     *)

\* The handlers of the three pairs of ids a turn goes through.
LEMMA RowsFound ==
  /\ FsmTransition(TTTTable, FSM_INIT, VALIDATE) = "validate_input"
  /\ FsmTransition(TTTTable, VALIDATE, TURNOVER) = "accepted_move"
  /\ FsmTransition(TTTTable, VALIDATE, GAMEOVER) = "game_over"
<1> DEFINE rows == TTTTable
<1>1. /\ Len(rows) = 7
      /\ rows[1] = Row(FSM_INIT, VALIDATE, "validate_input")
      /\ rows[2] = Row(VALIDATE, WAIT, "invalid_move")
      /\ rows[3] = Row(VALIDATE, GAMEOVER, "game_over")
      /\ rows[4] = Row(VALIDATE, TURNOVER, "accepted_move")
  BY DEF TTTTable
<1> HIDE DEF rows
<1>2. FsmTransition(rows, FSM_INIT, VALIDATE) = "validate_input"
  <2>1. IsRow(rows[1], FSM_INIT, VALIDATE) /\ rows[1].perform = "validate_input"
    BY <1>1 DEF IsRow, Row
  <2> QED BY <1>1, <2>1, FirstRow
<1>3. FsmTransition(rows, VALIDATE, TURNOVER) = "accepted_move"
  <2>1. IsRow(rows[4], VALIDATE, TURNOVER) /\ rows[4].perform = "accepted_move"
    BY <1>1 DEF IsRow, Row
  <2>2. \A j \in 1..(4 - 1) : ~IsRow(rows[j], VALIDATE, TURNOVER)
    BY <1>1 DEF IsRow, Row
  <2>3. 4 \in 1..Len(rows) /\ Len(rows) \in Nat
    BY <1>1
  <2> QED BY <2>1, <2>2, <2>3, FirstRow
<1>4. FsmTransition(rows, VALIDATE, GAMEOVER) = "game_over"
  <2>1. IsRow(rows[3], VALIDATE, GAMEOVER) /\ rows[3].perform = "game_over"
    BY <1>1 DEF IsRow, Row
  <2>2. \A j \in 1..(3 - 1) : ~IsRow(rows[j], VALIDATE, GAMEOVER)
    BY <1>1 DEF IsRow, Row
  <2>3. 3 \in 1..Len(rows) /\ Len(rows) \in Nat
    BY <1>1
  <2> QED BY <2>1, <2>2, <2>3, FirstRow
<1> QED BY <1>2, <1>3, <1>4 DEF rows

-----------------------------------------------------------------------------
(* The board.                                                              *)

\* An int stored in an int8_t fits.
LEMMA Int8Fits == ASSUME NEW v \in Int PROVE Int8(v) \in -128..127
BY DEF Int8

\* Whatever is on the board, the winner stored is an int8_t.
LEMMA WinnerFits ==
  ASSUME NEW board \in [Cells -> Nat], NEW winner \in -128..127
  PROVE  WinnerOf(board, winner) \in -128..127
<1> DEFINE rows == CheckRows(board, winner)
           cols == CheckCols(board, rows)
<1>0. \A c \in Cells : Int8(board[c]) \in -128..127
  <2> SUFFICES ASSUME NEW c \in Cells PROVE Int8(board[c]) \in -128..127
    OBVIOUS
  <2>1. board[c] \in Nat \/ board[c] = BLANK_SPACE
    OBVIOUS
  <2>2. BLANK_SPACE \in Int
    BY DEF BLANK_SPACE
  <2>3. board[c] \in Int
    BY <2>1, <2>2
  <2> QED BY <2>3, Int8Fits
<1>1. rows \in -128..127
  <2> DEFINE First(r) == /\ FullRow(board, r)
                         /\ \A q \in {0, 3, 6} : q < r => ~FullRow(board, q)
             first == CHOOSE r \in {0, 3, 6} : First(r)
  <2>1. CASE \E r \in {0, 3, 6} : FullRow(board, r)
    <3>1. \E r \in {0, 3, 6} : First(r)
      <4> HIDE DEF First
      <4>1. CASE FullRow(board, 0)
        <5>1. First(0) BY <4>1 DEF First
        <5> QED BY <5>1
      <4>2. CASE ~FullRow(board, 0) /\ FullRow(board, 3)
        <5>1. First(3) BY <4>2 DEF First
        <5> QED BY <5>1
      <4>3. CASE ~FullRow(board, 0) /\ ~FullRow(board, 3)
        <5>1. First(6) BY <2>1, <4>3 DEF First
        <5> QED BY <5>1
      <4> QED BY <4>1, <4>2, <4>3
    <3>2. first \in {0, 3, 6}
      <4> HIDE DEF First
      <4> QED BY <3>1
    <3>3. rows = Int8(board[first])
      BY <2>1 DEF CheckRows
    <3> HIDE DEF first
    <3>4. first \in Cells
      BY <3>2 DEF Cells
    <3> QED BY <1>0, <3>3, <3>4
  <2>2. CASE ~\E r \in {0, 3, 6} : FullRow(board, r)
    BY <2>2 DEF CheckRows
  <2> QED BY <2>1, <2>2
<1>2. cols \in -128..127
  <2> DEFINE First(c) == /\ FullCol(board, c)
                         /\ \A q \in {0, 1, 2} : q < c => ~FullCol(board, q)
             first == CHOOSE c \in {0, 1, 2} : First(c)
  <2> HIDE DEF rows
  <2>1. CASE \E c \in {0, 1, 2} : FullCol(board, c)
    <3>1. \E c \in {0, 1, 2} : First(c)
      <4> HIDE DEF First
      <4>1. CASE FullCol(board, 0)
        <5>1. First(0) BY <4>1 DEF First
        <5> QED BY <5>1
      <4>2. CASE ~FullCol(board, 0) /\ FullCol(board, 1)
        <5>1. First(1) BY <4>2 DEF First
        <5> QED BY <5>1
      <4>3. CASE ~FullCol(board, 0) /\ ~FullCol(board, 1)
        <5>1. First(2) BY <2>1, <4>3 DEF First
        <5> QED BY <5>1
      <4> QED BY <4>1, <4>2, <4>3
    <3>2. first \in {0, 1, 2}
      <4> HIDE DEF First
      <4> QED BY <3>1
    <3>3. cols = Int8(board[first])
      BY <2>1 DEF CheckCols
    <3> HIDE DEF first
    <3>4. first \in Cells
      BY <3>2 DEF Cells
    <3> QED BY <1>0, <3>3, <3>4
  <2>2. CASE ~\E c \in {0, 1, 2} : FullCol(board, c)
    BY <1>1, <2>2 DEF CheckCols
  <2> QED BY <2>1, <2>2
<1> HIDE DEF rows, cols
<1>3. WinnerOf(board, winner) = CheckDiagonals(board, cols)
  BY DEF WinnerOf, rows, cols
<1>4. 0 \in Cells
  BY DEF Cells
<1> QED BY <1>0, <1>2, <1>3, <1>4 DEF CheckDiagonals

\* A line of this mark, other than the anti-diagonal.
OwnsLine(board, fd) ==
  \/ \E r \in {0, 3, 6} : FullRow(board, r) /\ board[r] = fd
  \/ \E c \in {0, 1, 2} : FullCol(board, c) /\ board[c] = fd
  \/ FullDiagonal(board) /\ board[0] = fd

\* The winner stored has the mark of a line, or of square 0.
LEMMA WinnerOwns ==
  ASSUME NEW board, NEW winner, HasLine(board)
  PROVE  \/ \E r \in {0, 3, 6} : FullRow(board, r) /\ WinnerOf(board, winner) = Int8(board[r])
         \/ \E c \in {0, 1, 2} : FullCol(board, c) /\ WinnerOf(board, winner) = Int8(board[c])
         \/ FullDiagonal(board) /\ WinnerOf(board, winner) = Int8(board[0])
         \/ FullAntiDiagonal(board) /\ WinnerOf(board, winner) = Int8(board[0])
<1> DEFINE rows == CheckRows(board, winner)
           cols == CheckCols(board, rows)
<1>1. ASSUME NEW r \in {0, 3, 6}, FullRow(board, r)
      PROVE  \E q \in {0, 3, 6} : FullRow(board, q) /\ rows = Int8(board[q])
  <2> DEFINE First(s) == /\ FullRow(board, s)
                         /\ \A q \in {0, 3, 6} : q < s => ~FullRow(board, q)
             first == CHOOSE s \in {0, 3, 6} : First(s)
  <2>1. \E s \in {0, 3, 6} : First(s)
    <3>1. CASE FullRow(board, 0)
      <4>1. First(0) BY <3>1
      <4> QED BY <4>1
    <3>2. CASE ~FullRow(board, 0) /\ FullRow(board, 3)
      <4>1. First(3) BY <3>2
      <4> QED BY <4>1
    <3>3. CASE ~FullRow(board, 0) /\ ~FullRow(board, 3)
      <4>1. First(6) BY <1>1, <3>3
      <4> QED BY <4>1
    <3> QED BY <3>1, <3>2, <3>3
  <2>2. first \in {0, 3, 6} /\ First(first)
    <3> HIDE DEF First
    <3> QED BY <2>1
  <2>3. rows = Int8(board[first])
    BY <1>1 DEF CheckRows
  <2> HIDE DEF first
  <2> QED BY <2>2, <2>3
<1>2. ASSUME NEW r \in {0, 1, 2}, FullCol(board, r)
      PROVE  \E q \in {0, 1, 2} : FullCol(board, q) /\ cols = Int8(board[q])
  <2> DEFINE First(s) == /\ FullCol(board, s)
                         /\ \A q \in {0, 1, 2} : q < s => ~FullCol(board, q)
             first == CHOOSE s \in {0, 1, 2} : First(s)
  <2>1. \E s \in {0, 1, 2} : First(s)
    <3>1. CASE FullCol(board, 0)
      <4>1. First(0) BY <3>1
      <4> QED BY <4>1
    <3>2. CASE ~FullCol(board, 0) /\ FullCol(board, 1)
      <4>1. First(1) BY <3>2
      <4> QED BY <4>1
    <3>3. CASE ~FullCol(board, 0) /\ ~FullCol(board, 1)
      <4>1. First(2) BY <1>2, <3>3
      <4> QED BY <4>1
    <3> QED BY <3>1, <3>2, <3>3
  <2>2. first \in {0, 1, 2} /\ First(first)
    <3> HIDE DEF First
    <3> QED BY <2>1
  <2> HIDE DEF rows
  <2>3. cols = Int8(board[first])
    BY <1>2 DEF CheckCols
  <2> HIDE DEF first
  <2> QED BY <2>2, <2>3
<1> HIDE DEF rows
<1>3. (~\E c \in {0, 1, 2} : FullCol(board, c)) => cols = rows
  BY DEF CheckCols
<1> HIDE DEF cols
<1>4. WinnerOf(board, winner) = CheckDiagonals(board, cols)
  BY DEF WinnerOf, rows, cols
<1>5. CASE FullDiagonal(board) \/ FullAntiDiagonal(board)
  <2>1. WinnerOf(board, winner) = Int8(board[0])
    BY <1>4, <1>5 DEF CheckDiagonals
  <2> QED BY <1>5, <2>1
<1>6. CASE ~FullDiagonal(board) /\ ~FullAntiDiagonal(board)
  <2>1. WinnerOf(board, winner) = cols
    BY <1>4, <1>6 DEF CheckDiagonals
  <2>2. CASE \E c \in {0, 1, 2} : FullCol(board, c)
    BY <1>2, <2>1, <2>2
  <2>3. CASE ~\E c \in {0, 1, 2} : FullCol(board, c)
    <3>1. \E r \in {0, 3, 6} : FullRow(board, r)
      BY <1>6, <2>3 DEF HasLine
    <3> QED BY <1>1, <1>3, <2>1, <2>3, <3>1
  <2> QED BY <2>2, <2>3
<1> QED BY <1>5, <1>6

\* On a board that had no line before this mark, every line is of this mark.
LEMMA NewLinesAreMovers ==
  ASSUME NEW board \in [Cells -> Nat], NEW c \in Cells, NEW fd,
         ~HasLine(board)
  PROVE  LET after == [board EXCEPT ![c] = fd]
         IN  /\ \A r \in {0, 3, 6} : FullRow(after, r) => after[r] = fd
             /\ \A q \in {0, 1, 2} : FullCol(after, q) => after[q] = fd
             /\ FullDiagonal(after) => after[0] = fd
             /\ FullAntiDiagonal(after) => after[2] = fd
<1> DEFINE after == [board EXCEPT ![c] = fd]
<1>1. after[c] = fd /\ \A d \in Cells : d # c => after[d] = board[d]
  OBVIOUS
<1> HIDE DEF after
<1>2. ASSUME NEW i \in Cells, NEW j \in Cells, NEW k \in Cells,
             Full(after, i, j, k), ~Full(board, i, j, k)
      PROVE  after[i] = fd
  BY <1>1, <1>2 DEF Full
<1>3. ASSUME NEW r \in {0, 3, 6}, FullRow(after, r) PROVE after[r] = fd
  <2>1. r \in Cells /\ r + 1 \in Cells /\ r + 2 \in Cells
    BY DEF Cells
  <2>2. ~FullRow(board, r)
    BY DEF HasLine
  <2> QED BY <1>2, <1>3, <2>1, <2>2 DEF FullRow
<1>4. ASSUME NEW q \in {0, 1, 2}, FullCol(after, q) PROVE after[q] = fd
  <2>1. q \in Cells /\ q + 3 \in Cells /\ q + 6 \in Cells
    BY DEF Cells
  <2>2. ~FullCol(board, q)
    BY DEF HasLine
  <2> QED BY <1>2, <1>4, <2>1, <2>2 DEF FullCol
<1>5. /\ FullDiagonal(after) => after[0] = fd
      /\ FullAntiDiagonal(after) => after[2] = fd
  <2>1. {0, 2, 4, 6, 8} \subseteq Cells
    BY DEF Cells
  <2>2. ~FullDiagonal(board) /\ ~FullAntiDiagonal(board)
    BY DEF HasLine
  <2> QED BY <1>2, <2>1, <2>2 DEF FullDiagonal, FullAntiDiagonal
<1> QED BY <1>3, <1>4, <1>5 DEF after

\* There are nine squares.
LEMMA NineCells == IsFiniteSet(Cells) /\ Cardinality(Cells) = 9
<1>1. IsFiniteSet(0..8) /\ Cardinality(0..8) = IF 0 > 8 THEN 0 ELSE 8 - 0 + 1
  <2>1. 0 \in Int /\ 8 \in Int
    OBVIOUS
  <2> QED BY ONLY <2>1, FS_Interval
<1> QED BY <1>1 DEF Cells

\* The squares that carry this mark.
Marks(board, fd) == {c \in Cells : board[c] = fd}

\* A mark on an empty square is one more of its kind and leaves the others.
LEMMA OneMoreMark ==
  ASSUME NEW board \in [Cells -> Nat], NEW c \in Cells, NEW fd,
         board[c] = BLANK_SPACE, fd # BLANK_SPACE
  PROVE  LET after == [board EXCEPT ![c] = fd]
         IN  /\ Cardinality(Marks(board, fd)) \in Nat
             /\ Cardinality(Marks(after, fd)) = Cardinality(Marks(board, fd)) + 1
             /\ \A other : other # fd /\ other # BLANK_SPACE =>
                  Marks(after, other) = Marks(board, other)
<1> DEFINE after == [board EXCEPT ![c] = fd]
<1>1. after[c] = fd /\ \A d \in Cells : d # c => after[d] = board[d]
  OBVIOUS
<1> HIDE DEF after
<1>2. IsFiniteSet(Marks(board, fd)) /\ Cardinality(Marks(board, fd)) \in Nat
  <2>1. IsFiniteSet(Cells)
    BY NineCells
  <2>2. Marks(board, fd) \subseteq Cells
    BY DEF Marks
  <2> QED BY <2>1, <2>2, FS_Subset, FS_CardinalityType
<1>3. Marks(after, fd) = Marks(board, fd) \cup {c} /\ c \notin Marks(board, fd)
  BY <1>1 DEF Marks
<1>4. Cardinality(Marks(after, fd)) = Cardinality(Marks(board, fd)) + 1
  BY <1>2, <1>3, FS_AddElement
<1>5. ASSUME NEW other, other # fd, other # BLANK_SPACE
      PROVE  Marks(after, other) = Marks(board, other)
  BY <1>1, <1>5 DEF Marks
<1> QED BY <1>2, <1>4, <1>5 DEF after

\* Two kinds of marks number nine exactly when no square is left.
LEMMA NineMarks ==
  ASSUME NEW board, NEW x, NEW o, x # o, x # BLANK_SPACE, o # BLANK_SPACE,
         \A c \in Cells : board[c] \in {x, o, BLANK_SPACE}
  PROVE  /\ Cardinality(Marks(board, x)) \in Nat
         /\ Cardinality(Marks(board, o)) \in Nat
         /\ Cardinality(Marks(board, x)) + Cardinality(Marks(board, o)) = 9
              <=> \A c \in Cells : board[c] # BLANK_SPACE
<1>1. IsFiniteSet(Cells) /\ Cardinality(Cells) = 9
  BY NineCells
<1>2. /\ IsFiniteSet(Marks(board, x)) /\ Cardinality(Marks(board, x)) \in Nat
      /\ IsFiniteSet(Marks(board, o)) /\ Cardinality(Marks(board, o)) \in Nat
  <2>1. Marks(board, x) \subseteq Cells /\ Marks(board, o) \subseteq Cells
    BY DEF Marks
  <2> QED BY <1>1, <2>1, FS_Subset, FS_CardinalityType
<1> DEFINE marked == Marks(board, x) \cup Marks(board, o)
<1>3. Cardinality(marked) = Cardinality(Marks(board, x)) + Cardinality(Marks(board, o))
  <2>1. Marks(board, x) \cap Marks(board, o) = {}
    BY DEF Marks
  <2>2. Cardinality(Marks(board, x) \cap Marks(board, o)) = 0
    BY <2>1, FS_EmptySet
  <2>3. Cardinality(marked) = Cardinality(Marks(board, x)) + Cardinality(Marks(board, o))
                                - Cardinality(Marks(board, x) \cap Marks(board, o))
    BY <1>2, FS_Union
  <2> QED BY <1>2, <2>2, <2>3
<1>4. marked = Cells <=> \A c \in Cells : board[c] # BLANK_SPACE
  BY DEF Marks
<1>5. marked \subseteq Cells
  BY DEF Marks
<1>6. Cardinality(marked) = 9 <=> marked = Cells
  BY <1>1, <1>5, FS_Subset
<1> QED BY <1>2, <1>3, <1>4, <1>6

-----------------------------------------------------------------------------
(* What validate_input does.                                               *)

\* The same game, but for the board, the count of plays, the winner and the flag.
SameGame(e, f) ==
  /\ f.client_x = e.client_x
  /\ f.client_o = e.client_o
  /\ f.client_x_uid = e.client_x_uid
  /\ f.client_o_uid = e.client_o_uid
  /\ f.received_move = e.received_move

\* A playable move puts the mark of the player in turn on an empty square.
LEMMA MarkResult ==
  ASSUME NEW e \in TTTRecords, IsPlayable(e)
  PROVE  /\ Mark(e) \in TTTRecords
         /\ SameGame(e, Mark(e))
         /\ Mark(e).fd_current_player = e.fd_current_player
         /\ Mark(e).game_board = [e.game_board EXCEPT ![e.received_move] = e.fd_current_player]
         /\ Mark(e).play_count = e.play_count
         /\ Mark(e).game_over = e.game_over
         /\ Mark(e).winner = e.winner
BY DEF IsPlayable, Mark, SameGame, TTTRecords

\* The environment once the winner has been stored.
Won(e) == [e EXCEPT !.winner = WinnerOf(e.game_board, e.winner)]

\* Storing the winner changes nothing else.
LEMMA WonResult ==
  ASSUME NEW e \in TTTRecords
  PROVE  /\ Won(e) \in TTTRecords
         /\ SameGame(e, Won(e))
         /\ Won(e).fd_current_player = e.fd_current_player
         /\ Won(e).game_board = e.game_board
         /\ Won(e).play_count = e.play_count
         /\ Won(e).game_over = e.game_over
         /\ Won(e).winner = WinnerOf(e.game_board, e.winner)
<1>1. WinnerOf(e.game_board, e.winner) \in -128..127
  <2>1. e.game_board \in [Cells -> Nat] /\ e.winner \in -128..127
    BY DEF TTTRecords
  <2> QED BY <2>1, WinnerFits
<1>2. ASSUME NEW w \in -128..127
      PROVE  /\ [e EXCEPT !.winner = w] \in TTTRecords
             /\ SameGame(e, [e EXCEPT !.winner = w])
             /\ [e EXCEPT !.winner = w].fd_current_player = e.fd_current_player
             /\ [e EXCEPT !.winner = w].game_board = e.game_board
             /\ [e EXCEPT !.winner = w].play_count = e.play_count
             /\ [e EXCEPT !.winner = w].game_over = e.game_over
             /\ [e EXCEPT !.winner = w].winner = w
  BY DEF TTTRecords, SameGame
<1> QED BY <1>1, <1>2 DEF Won

\* The four ways validate_input ends: the move is refused, it makes a line, it is the
\* ninth, or the game goes on.
LEMMA ValidateCases ==
  ASSUME NEW e
  PROVE  \/ /\ ~IsPlayable(e)
            /\ ValidateInput(e) = Result(e, SendDecline(e), FSM_EXIT)
         \/ /\ IsPlayable(e) /\ HasLine(Mark(e).game_board)
            /\ ValidateInput(e) = Result(Won(Mark(e)), SendWinLoss(Won(Mark(e))), GAMEOVER)
         \/ /\ IsPlayable(e) /\ ~HasLine(Mark(e).game_board) /\ Mark(e).play_count = 8
            /\ ValidateInput(e) = Result(Mark(e), SendTie(Mark(e)), GAMEOVER)
         \/ /\ IsPlayable(e) /\ ~HasLine(Mark(e).game_board) /\ Mark(e).play_count # 8
            /\ ValidateInput(e) = Result(Mark(e), << >>, TURNOVER)
<1> DEFINE m == Mark(e)
<1>1. IsPlayable(e) => ValidateInput(e) = CheckWin(m)
  BY DEF ValidateInput
<1>2. ~IsPlayable(e) => ValidateInput(e) = Result(e, SendDecline(e), FSM_EXIT)
  BY DEF ValidateInput
<1> HIDE DEF m
<1>3. /\ HasLine(m.game_board) => CheckWin(m) = Result(Won(m), SendWinLoss(Won(m)), GAMEOVER)
      /\ ~HasLine(m.game_board) /\ m.play_count = 8 => CheckWin(m) = Result(m, SendTie(m), GAMEOVER)
      /\ ~HasLine(m.game_board) /\ m.play_count # 8 => CheckWin(m) = Result(m, << >>, TURNOVER)
  BY DEF CheckWin, Won
<1> QED BY <1>1, <1>2, <1>3 DEF m

\* The turn goes to the other player.
LEMMA SwitchResult ==
  ASSUME NEW e \in TTTRecords
  PROVE  LET next == SwitchPlayers(e)
         IN  /\ next \in TTTRecords
             /\ SameGame(e, next)
             /\ next.fd_current_player = OtherPlayer(e)
             /\ next.game_board = e.game_board
             /\ next.play_count = e.play_count + 1
             /\ next.game_over = e.game_over
             /\ next.winner = e.winner
<1>1. OtherPlayer(e) \in Nat
  BY DEF OtherPlayer, TTTRecords
<1>2. e.play_count + 1 \in Nat
  BY DEF TTTRecords
<1> DEFINE next == SwitchPlayers(e)
<1>3. next = [e EXCEPT !.play_count = e.play_count + 1, !.fd_current_player = OtherPlayer(e)]
  BY DEF SwitchPlayers
<1> HIDE DEF next
<1>4. \A n \in Nat, fd \in Nat : [e EXCEPT !.play_count = n, !.fd_current_player = fd] \in TTTRecords
  BY DEF TTTRecords
<1>5. next \in TTTRecords
  BY <1>1, <1>2, <1>3, <1>4
<1>6. /\ SameGame(e, next)
      /\ next.fd_current_player = OtherPlayer(e)
      /\ next.game_board = e.game_board
      /\ next.play_count = e.play_count + 1
      /\ next.game_over = e.game_over
      /\ next.winner = e.winner
  BY <1>3 DEF TTTRecords, SameGame
<1> QED BY <1>5, <1>6 DEF next

-----------------------------------------------------------------------------
(* What the handlers send.                                                 *)

\* The positions of the answers to a move.
AnswersIn(msgs) == {i \in 1..Len(msgs) : msgs[i].code \in {"ACCEPTED", "INVALID_ACTION"}}

\* These messages answer the player in turn once, and nobody else; they say nothing
\* only about a line whose winner is neither player.
AnswersMover(e, messages) ==
  /\ \A i, j \in AnswersIn(messages) : i = j
  /\ \A i \in AnswersIn(messages) : messages[i].to = e.fd_current_player
  /\ AnswersIn(messages) = {} =>
       HasLine(e.game_board) /\ e.winner \notin {e.client_x, e.client_o}

\* An answer to the mover, and a result for each player.
ResultMsgs(e, c1, c2) ==
  SendAccepted(e) \o << Msg(e.client_x, c1, e.received_move), Msg(e.client_o, c2, e.received_move) >>

\* Who is told what by them.
LEMMA ResultsTold ==
  ASSUME NEW e \in TTTRecords, NEW c1 \in {"WIN", "LOSS", "TIE"}, NEW c2 \in {"WIN", "LOSS", "TIE"}
  PROVE  /\ ResultMsgs(e, c1, c2) \in Seq(Messages)
         /\ AnswersMover(e, ResultMsgs(e, c1, c2))
         /\ \A code \in {"WIN", "LOSS", "TIE"} :
              ToldBy(ResultMsgs(e, c1, c2), code) =
                {fd \in {e.client_x, e.client_o} : \/ fd = e.client_x /\ c1 = code
                                                   \/ fd = e.client_o /\ c2 = code}
<1> DEFINE m1 == Msg(e.fd_current_player, "ACCEPTED", 0)
           m2 == Msg(e.client_x, c1, e.received_move)
           m3 == Msg(e.client_o, c2, e.received_move)
           all == << m1 >> \o << m2, m3 >>
<1>1. e.client_x \in Int /\ e.client_o \in Int /\ e.fd_current_player \in Int /\ e.received_move \in Int
  <2>1. e.client_x \in Nat /\ e.client_o \in Nat /\ e.fd_current_player \in Nat
        /\ e.received_move \in -128..127
    BY DEF TTTRecords
  <2> QED BY <2>1
<1>2. m1 \in Messages /\ m2 \in Messages /\ m3 \in Messages
  BY <1>1 DEF Msg, Messages, Codes
<1>3. /\ m1.code = "ACCEPTED" /\ m1.to = e.fd_current_player
      /\ m2.to = e.client_x /\ m2.code = c1
      /\ m3.to = e.client_o /\ m3.code = c2
  BY DEF Msg
<1>4. ResultMsgs(e, c1, c2) = all
  BY DEF ResultMsgs, SendAccepted
<1> HIDE DEF m1, m2, m3
<1>5. /\ all \in Seq(Messages) /\ Len(all) = 3
      /\ all[1] = m1 /\ all[2] = m2 /\ all[3] = m3
      /\ \A code : ToldBy(all, code) = {m.to : m \in {n \in {m1, m2, m3} : n.code = code}}
  BY <1>2, ThreeMessages
<1> HIDE DEF all
<1>6. ASSUME NEW code \in {"WIN", "LOSS", "TIE"}
      PROVE  ToldBy(all, code) =
               {fd \in {e.client_x, e.client_o} : \/ fd = e.client_x /\ c1 = code
                                                  \/ fd = e.client_o /\ c2 = code}
  <2>1. \A m : m \in {n \in {m1, m2, m3} : n.code = code} <=>
                 (m = m2 /\ c1 = code) \/ (m = m3 /\ c2 = code)
    BY <1>3
  <2>2. \A fd : fd \in {m.to : m \in {n \in {m1, m2, m3} : n.code = code}} <=>
                  (fd = e.client_x /\ c1 = code) \/ (fd = e.client_o /\ c2 = code)
    BY <1>3, <2>1
  <2> QED BY <1>5, <2>2
<1>7. AnswersIn(all) = {1}
  BY <1>3, <1>5 DEF AnswersIn
<1>8. AnswersMover(e, all)
  BY <1>3, <1>5, <1>7 DEF AnswersMover
<1> QED BY <1>4, <1>5, <1>6, <1>8

\* A refusal is the one answer to the mover, and no result.
LEMMA DeclineTold ==
  ASSUME NEW e \in TTTRecords
  PROVE  /\ SendDecline(e) \in Seq(Messages)
         /\ AnswersMover(e, SendDecline(e))
         /\ \A code \in {"WIN", "LOSS", "TIE"} : ToldBy(SendDecline(e), code) = {}
<1> DEFINE m == Msg(e.fd_current_player, "INVALID_ACTION", 0)
           all == << m >>
<1>1. m \in Messages /\ m.code = "INVALID_ACTION" /\ m.to = e.fd_current_player
  <2>1. e.fd_current_player \in Nat
    BY DEF TTTRecords
  <2> QED BY <2>1 DEF Msg, Messages, Codes
<1>2. SendDecline(e) = all
  BY DEF SendDecline
<1> HIDE DEF m
<1>3. all \in Seq(Messages) /\ Len(all) = 1 /\ all[1] = m
  BY <1>1
<1> HIDE DEF all
<1>4. AnswersIn(all) = {1}
  BY <1>1, <1>3 DEF AnswersIn
<1>5. \A code \in {"WIN", "LOSS", "TIE"} : ToldBy(all, code) = {}
  BY <1>1, <1>3 DEF ToldBy
<1> QED BY <1>1, <1>2, <1>3, <1>4, <1>5 DEF AnswersMover

\* When the game goes on, the mover is answered, the other is shown the move, and
\* nobody is told a result.
LEMMA TurnoverTold ==
  ASSUME NEW e \in TTTRecords, NEW f \in TTTRecords
  PROVE  LET all == SendAccepted(e) \o SendUpdate(f)
         IN  /\ all \in Seq(Messages)
             /\ AnswersMover(e, all)
             /\ \A code \in {"WIN", "LOSS", "TIE"} : ToldBy(all, code) = {}
<1> DEFINE m1 == Msg(e.fd_current_player, "ACCEPTED", 0)
           m2 == Msg(f.fd_current_player, "MOVE_MADE", f.received_move)
           all == << m1 >> \o << m2 >>
<1>1. /\ m1 \in Messages /\ m1.code = "ACCEPTED" /\ m1.to = e.fd_current_player
      /\ m2 \in Messages /\ m2.code = "MOVE_MADE"
  <2>1. e.fd_current_player \in Nat /\ f.fd_current_player \in Nat /\ f.received_move \in Int
    BY DEF TTTRecords
  <2> QED BY <2>1 DEF Msg, Messages, Codes
<1>2. SendAccepted(e) \o SendUpdate(f) = all
  BY DEF SendAccepted, SendUpdate
<1> HIDE DEF m1, m2
<1>3. all \in Seq(Messages) /\ Len(all) = 2 /\ all[1] = m1 /\ all[2] = m2
  BY <1>1
<1> HIDE DEF all
<1>4. AnswersIn(all) = {1}
  BY <1>1, <1>3 DEF AnswersIn
<1>5. \A code \in {"WIN", "LOSS", "TIE"} : ToldBy(all, code) = {}
  BY <1>1, <1>3 DEF ToldBy
<1> QED BY <1>1, <1>2, <1>3, <1>4, <1>5 DEF AnswersMover

\* Of a line, the players are told when its winner is one of them.
LEMMA LineTold ==
  ASSUME NEW e \in TTTRecords, HasLine(e.game_board)
  PROVE  LET all == SendWinLoss(e)
             players == {e.client_x, e.client_o}
         IN  /\ all \in Seq(Messages)
             /\ AnswersMover(e, all)
             /\ e.winner \in players => e.winner \in ToldBy(all, "WIN")
             /\ e.winner \in players /\ e.client_x # e.client_o =>
                  /\ ToldBy(all, "WIN") = {e.winner}
                  /\ ToldBy(all, "LOSS") = players \ {e.winner}
                  /\ ToldBy(all, "TIE") = {}
             /\ e.winner \notin players =>
                  \A code \in {"WIN", "LOSS", "TIE"} : ToldBy(all, code) = {}
<1> DEFINE all == SendWinLoss(e)
<1>1. CASE e.winner = e.client_x
  <2>1. all = ResultMsgs(e, "WIN", "LOSS")
    BY <1>1 DEF SendWinLoss, ResultMsgs
  <2> HIDE DEF all
  <2>2. /\ all \in Seq(Messages)
        /\ AnswersMover(e, all)
        /\ \A code \in {"WIN", "LOSS", "TIE"} :
             ToldBy(all, code) =
               {fd \in {e.client_x, e.client_o} : \/ fd = e.client_x /\ "WIN" = code
                                                  \/ fd = e.client_o /\ "LOSS" = code}
    BY <2>1, ResultsTold
  <2>3. e.winner \in ToldBy(all, "WIN")
    BY <1>1, <2>2
  <2>4. e.client_x # e.client_o =>
          /\ ToldBy(all, "WIN") = {e.winner}
          /\ ToldBy(all, "LOSS") = {e.client_x, e.client_o} \ {e.winner}
          /\ ToldBy(all, "TIE") = {}
    BY <1>1, <2>2
  <2> QED BY <1>1, <2>2, <2>3, <2>4 DEF all
<1>2. CASE e.winner # e.client_x /\ e.winner = e.client_o
  <2>1. all = ResultMsgs(e, "LOSS", "WIN")
    BY <1>2 DEF SendWinLoss, ResultMsgs
  <2> HIDE DEF all
  <2>2. /\ all \in Seq(Messages)
        /\ AnswersMover(e, all)
        /\ \A code \in {"WIN", "LOSS", "TIE"} :
             ToldBy(all, code) =
               {fd \in {e.client_x, e.client_o} : \/ fd = e.client_x /\ "LOSS" = code
                                                  \/ fd = e.client_o /\ "WIN" = code}
    BY <2>1, ResultsTold
  <2>3. e.winner \in ToldBy(all, "WIN")
    BY <1>2, <2>2
  <2>4. e.client_x # e.client_o =>
          /\ ToldBy(all, "WIN") = {e.winner}
          /\ ToldBy(all, "LOSS") = {e.client_x, e.client_o} \ {e.winner}
          /\ ToldBy(all, "TIE") = {}
    BY <1>2, <2>2
  <2> QED BY <1>2, <2>2, <2>3, <2>4 DEF all
<1>3. CASE e.winner # e.client_x /\ e.winner # e.client_o
  <2>1. all = << >>
    BY <1>3 DEF SendWinLoss
  <2> HIDE DEF all
  <2>2. all \in Seq(Messages) /\ Len(all) = 0
    BY <2>1
  <2>3. AnswersMover(e, all)
    BY <1>3, <2>2 DEF AnswersMover, AnswersIn
  <2>4. \A code : ToldBy(all, code) = {}
    BY <2>2 DEF ToldBy
  <2> QED BY <1>3, <2>2, <2>3, <2>4 DEF all
<1> QED BY <1>1, <1>2, <1>3

\* Of a tie, both are told.
LEMMA TieTold ==
  ASSUME NEW e \in TTTRecords
  PROVE  /\ SendTie(e) \in Seq(Messages)
         /\ AnswersMover(e, SendTie(e))
         /\ ToldBy(SendTie(e), "WIN") = {}
         /\ ToldBy(SendTie(e), "LOSS") = {}
         /\ ToldBy(SendTie(e), "TIE") = {e.client_x, e.client_o}
<1> DEFINE all == SendTie(e)
<1>1. all = ResultMsgs(e, "TIE", "TIE")
  BY DEF SendTie, ResultMsgs
<1> HIDE DEF all
<1>2. /\ all \in Seq(Messages)
      /\ AnswersMover(e, all)
      /\ \A code \in {"WIN", "LOSS", "TIE"} :
           ToldBy(all, code) =
             {fd \in {e.client_x, e.client_o} : \/ fd = e.client_x /\ "TIE" = code
                                                \/ fd = e.client_o /\ "TIE" = code}
  BY <1>1, ResultsTold
<1>3. ToldBy(all, "WIN") = {} /\ ToldBy(all, "LOSS") = {} /\ ToldBy(all, "TIE") = {e.client_x, e.client_o}
  BY <1>2
<1> QED BY <1>2, <1>3 DEF all

-----------------------------------------------------------------------------
(* What is true of a game throughout, as predicates of its environment and *)
(* of the messages sent.                                                   *)

Ordinary(e) ==
  /\ e.client_x # e.client_o
  /\ {e.client_x, e.client_o} \subseteq (0..127) \ {BLANK_SPACE}

\* The turn and the marks are the players'.
Theirs(e) ==
  /\ e.fd_current_player \in {e.client_x, e.client_o}
  /\ \A c \in Cells : e.game_board[c] \in {e.client_x, e.client_o, BLANK_SPACE}

\* X has as many marks as O, or one more when it is O's turn; while a turn is pending
\* one mark has not been counted yet.
Counts(e, pending) ==
  LET x == Cardinality(Marks(e.game_board, e.client_x))
      o == Cardinality(Marks(e.game_board, e.client_o))
  IN  /\ x + o = e.play_count + pending
      /\ x = IF e.fd_current_player = e.client_x THEN o + pending ELSE o + (1 - pending)

\* There is a line, or no square is left.
Decided(board) == HasLine(board) \/ \A c \in Cells : board[c] # BLANK_SPACE

\* The results told agree with one another and with the board.
ResultsFit(e, messages) ==
  LET players == {e.client_x, e.client_o}
      told(code) == ToldBy(messages, code)
  IN  Ordinary(e) =>
        /\ told("WIN") \cup told("LOSS") # {} =>
             \E winner \in players :
               /\ told("WIN") = {winner}
               /\ told("LOSS") = players \ {winner}
               /\ told("TIE") = {}
               /\ \/ OwnsLine(e.game_board, winner)
                  \/ FullAntiDiagonal(e.game_board) /\ e.game_board[0] = winner
        /\ told("TIE") \in {{}, players}

\* The lines of a game that a move has just decided are the mover's, who is told of
\* the win if it is a player the winner stored can name.
LinesAreMovers(e, messages) ==
  /\ \A fd : OwnsLine(e.game_board, fd) => fd = e.fd_current_player
  /\ HasLine(e.game_board) /\ ~FullAntiDiagonal(e.game_board) =>
       e.winner = Int8(e.fd_current_player)
  /\ HasLine(e.game_board) /\ e.winner \in {e.client_x, e.client_o} =>
       e.winner \in ToldBy(messages, "WIN")

\* Without a result nothing can disagree.
LEMMA NoResultFits ==
  ASSUME NEW e, NEW messages, \A code \in {"WIN", "LOSS", "TIE"} : ToldBy(messages, code) = {}
  PROVE  ResultsFit(e, messages)
BY DEF ResultsFit

\* No message tells no result.
LEMMA SilenceTold == \A code : ToldBy(<< >>, code) = {}
BY DEF ToldBy

\* A player's mark fits in winner.
LEMMA Int8Same == ASSUME NEW v \in 0..127 PROVE Int8(v) = v
BY DEF Int8

\* A winner who is a player owns a line, or square 0 of a board whose anti-diagonal
\* is full.
LEMMA WinnerIsOwner ==
  ASSUME NEW e \in TTTRecords, NEW old, Ordinary(e), Theirs(e), HasLine(e.game_board),
         e.winner = WinnerOf(e.game_board, old)
  PROVE  \/ OwnsLine(e.game_board, e.winner)
         \/ FullAntiDiagonal(e.game_board) /\ e.game_board[0] = e.winner
<1>1. \A c \in Cells : Int8(e.game_board[c]) = e.game_board[c]
  <2> SUFFICES ASSUME NEW c \in Cells PROVE Int8(e.game_board[c]) = e.game_board[c]
    OBVIOUS
  <2>1. e.game_board[c] \in 0..127
    BY DEF Ordinary, Theirs, BLANK_SPACE
  <2> QED BY <2>1, Int8Same
<1>2. {0, 1, 2, 3, 6} \subseteq Cells
  BY DEF Cells
<1> QED BY <1>1, <1>2, WinnerOwns DEF OwnsLine

\* Marking keeps the count of the turns.
LEMMA MarkCounts ==
  ASSUME NEW e \in TTTRecords, IsPlayable(e), Ordinary(e), Theirs(e), Counts(e, 0)
  PROVE  Counts(Mark(e), 1)
<1> DEFINE board == e.game_board
           cur == e.fd_current_player
           c == e.received_move
           after == [board EXCEPT ![c] = cur]
<1>1. /\ Mark(e).client_x = e.client_x /\ Mark(e).client_o = e.client_o
      /\ Mark(e).fd_current_player = cur /\ Mark(e).play_count = e.play_count
      /\ Mark(e).game_board = after
  BY MarkResult DEF SameGame
<1>2. /\ board \in [Cells -> Nat] /\ e.play_count \in Nat
      /\ c \in Cells /\ board[c] = BLANK_SPACE
      /\ cur # BLANK_SPACE /\ e.client_x # BLANK_SPACE /\ e.client_o # BLANK_SPACE
  BY DEF TTTRecords, IsPlayable, Ordinary, Theirs
<1>3. /\ Cardinality(Marks(board, e.client_x)) \in Nat
      /\ Cardinality(Marks(board, e.client_o)) \in Nat
  BY <1>2, NineMarks DEF Ordinary, Theirs
<1> HIDE DEF board, cur, c, after
<1>4. /\ Cardinality(Marks(after, cur)) = Cardinality(Marks(board, cur)) + 1
      /\ \A other : other # cur /\ other # BLANK_SPACE =>
           Marks(after, other) = Marks(board, other)
  BY <1>2, OneMoreMark DEF after
<1>5. CASE cur = e.client_x
  <2>1. /\ Cardinality(Marks(after, e.client_x)) = Cardinality(Marks(board, e.client_x)) + 1
        /\ Cardinality(Marks(after, e.client_o)) = Cardinality(Marks(board, e.client_o))
    BY <1>2, <1>4, <1>5 DEF Ordinary
  <2>2. /\ Marks(Mark(e).game_board, Mark(e).client_x) = Marks(after, e.client_x)
        /\ Marks(Mark(e).game_board, Mark(e).client_o) = Marks(after, e.client_o)
    BY <1>1
  <2>3. /\ Cardinality(Marks(board, e.client_x)) = Cardinality(Marks(board, e.client_o))
        /\ e.play_count = Cardinality(Marks(board, e.client_x)) + Cardinality(Marks(board, e.client_o))
    BY <1>2, <1>3, <1>5 DEF Counts, board, cur
  <2> QED BY <1>1, <1>2, <1>3, <1>5, <2>1, <2>2, <2>3 DEF Counts
<1>6. CASE cur # e.client_x /\ cur = e.client_o
  <2>1. /\ Cardinality(Marks(after, e.client_o)) = Cardinality(Marks(board, e.client_o)) + 1
        /\ Cardinality(Marks(after, e.client_x)) = Cardinality(Marks(board, e.client_x))
    BY <1>2, <1>4, <1>6 DEF Ordinary
  <2>2. /\ Marks(Mark(e).game_board, Mark(e).client_x) = Marks(after, e.client_x)
        /\ Marks(Mark(e).game_board, Mark(e).client_o) = Marks(after, e.client_o)
    BY <1>1
  <2>3. /\ Cardinality(Marks(board, e.client_x)) = Cardinality(Marks(board, e.client_o)) + 1
        /\ e.play_count = Cardinality(Marks(board, e.client_x)) + Cardinality(Marks(board, e.client_o))
    BY <1>2, <1>3, <1>6 DEF Counts, board, cur
  <2> QED BY <1>1, <1>2, <1>3, <1>6, <2>1, <2>2, <2>3 DEF Counts
<1> QED BY <1>5, <1>6 DEF Theirs, cur

\* Switching completes it.
LEMMA SwitchCounts ==
  ASSUME NEW e \in TTTRecords, Ordinary(e), Theirs(e), Counts(e, 1)
  PROVE  Counts(SwitchPlayers(e), 0)
<1> DEFINE f == SwitchPlayers(e)
<1>1. /\ SameGame(e, f)
      /\ f.fd_current_player = OtherPlayer(e)
      /\ f.game_board = e.game_board
      /\ f.play_count = e.play_count + 1
  BY SwitchResult
<1>2. e.play_count \in Nat
  BY DEF TTTRecords
<1> HIDE DEF f
<1>3. (f.fd_current_player = f.client_x) <=> ~(e.fd_current_player = e.client_x)
  BY <1>1 DEF OtherPlayer, Ordinary, Theirs, SameGame
<1>4. Counts(f, 0)
  BY <1>1, <1>2, <1>3 DEF Counts, SameGame
<1> QED BY <1>4 DEF f

\* What validate_input makes of a game, in each of the ways it ends.
LEMMA ValidateGame ==
  ASSUME NEW e \in TTTRecords, Theirs(e), NEW done, done = ValidateInput(e)
  PROVE  /\ done.env \in TTTRecords
         /\ SameGame(e, done.env)
         /\ done.env.game_over = e.game_over
         /\ done.env.fd_current_player = e.fd_current_player
         /\ Theirs(done.env)
         /\ ResultsFit(done.env, done.out)
         /\ done.ret \in {FSM_EXIT, GAMEOVER, TURNOVER}
         /\ done.ret # TURNOVER => AnswersMover(done.env, done.out)
         /\ done.ret = TURNOVER => done.out = << >>
         /\ done.ret = GAMEOVER /\ ~HasLine(e.game_board) => LinesAreMovers(done.env, done.out)
         /\ done.ret = FSM_EXIT => done.env = e
         /\ done.ret # FSM_EXIT =>
              /\ IsPlayable(e)
              /\ done.env.game_board = Mark(e).game_board
              /\ done.env.play_count = e.play_count
         /\ done.ret = TURNOVER => done.env.play_count # 8 /\ ~HasLine(done.env.game_board)
         /\ done.ret = GAMEOVER => done.env.play_count = 8 \/ HasLine(done.env.game_board)
<1> DEFINE m == Mark(e)
           w == Won(m)
<1>1. CASE ~IsPlayable(e)
  <2>1. done = Result(e, SendDecline(e), FSM_EXIT)
    BY <1>1, ValidateCases
  <2>2. done.env = e /\ done.out = SendDecline(e) /\ done.ret = FSM_EXIT
    BY <2>1 DEF Result
  <2> QED BY <2>2, DeclineTold, NoResultFits DEF SameGame
<1>2. CASE IsPlayable(e)
  <2>1. /\ m \in TTTRecords
        /\ SameGame(e, m)
        /\ m.fd_current_player = e.fd_current_player
        /\ m.game_board = [e.game_board EXCEPT ![e.received_move] = e.fd_current_player]
        /\ m.play_count = e.play_count
        /\ m.game_over = e.game_over
    BY <1>2, MarkResult
  <2>2. Theirs(m)
    BY <2>1 DEF Theirs, SameGame
  <2>3. CASE HasLine(m.game_board)
    <3>1. done = Result(w, SendWinLoss(w), GAMEOVER)
      BY <1>2, <2>3, ValidateCases
    <3>2. done.env = w /\ done.out = SendWinLoss(w) /\ done.ret = GAMEOVER
      BY <3>1 DEF Result
    <3> HIDE DEF m
    <3>3. /\ w \in TTTRecords
          /\ SameGame(m, w)
          /\ w.fd_current_player = m.fd_current_player
          /\ w.game_board = m.game_board
          /\ w.play_count = m.play_count
          /\ w.game_over = m.game_over
          /\ w.winner = WinnerOf(m.game_board, m.winner)
      BY <2>1, WonResult
    <3> HIDE DEF w
    <3>4. SameGame(e, w) /\ Theirs(w)
      BY <2>1, <2>2, <3>3 DEF SameGame, Theirs
    <3> DEFINE all == SendWinLoss(w)
    <3>5. /\ AnswersMover(w, all)
          /\ w.winner \in {w.client_x, w.client_o} => w.winner \in ToldBy(all, "WIN")
          /\ w.winner \in {w.client_x, w.client_o} /\ w.client_x # w.client_o =>
               /\ ToldBy(all, "WIN") = {w.winner}
               /\ ToldBy(all, "LOSS") = {w.client_x, w.client_o} \ {w.winner}
               /\ ToldBy(all, "TIE") = {}
          /\ w.winner \notin {w.client_x, w.client_o} =>
               \A code \in {"WIN", "LOSS", "TIE"} : ToldBy(all, code) = {}
      BY <2>3, <3>3, LineTold
    <3> HIDE DEF all
    <3>6. ResultsFit(w, all)
      <4>1. CASE w.winner \notin {w.client_x, w.client_o}
        BY <3>5, <4>1, NoResultFits
      <4>2. CASE w.winner \in {w.client_x, w.client_o}
        <5>1. Ordinary(w) => \/ OwnsLine(w.game_board, w.winner)
                             \/ FullAntiDiagonal(w.game_board) /\ w.game_board[0] = w.winner
          BY <2>3, <3>3, <3>4, WinnerIsOwner
        <5> QED BY <3>5, <4>2, <5>1 DEF ResultsFit, Ordinary
      <4> QED BY <4>1, <4>2
    <3>7. ~HasLine(e.game_board) => LinesAreMovers(w, all)
      <4> SUFFICES ASSUME ~HasLine(e.game_board) PROVE LinesAreMovers(w, all)
        OBVIOUS
      <4>1. e.game_board \in [Cells -> Nat] /\ e.received_move \in Cells
        BY <1>2 DEF TTTRecords, IsPlayable
      <4> DEFINE board == w.game_board
                 cur == w.fd_current_player
      <4>2. /\ \A r \in {0, 3, 6} : FullRow(board, r) => board[r] = cur
            /\ \A q \in {0, 1, 2} : FullCol(board, q) => board[q] = cur
            /\ FullDiagonal(board) => board[0] = cur
        BY <2>1, <3>3, <4>1, NewLinesAreMovers
      <4> HIDE DEF board, cur
      <4>3. \A fd : OwnsLine(board, fd) => fd = cur
        BY <4>2 DEF OwnsLine
      <4>4. HasLine(board) /\ ~FullAntiDiagonal(board) => w.winner = Int8(cur)
        BY <3>3, <4>2, WinnerOwns DEF board
      <4> QED BY <3>5, <4>3, <4>4 DEF LinesAreMovers, board, cur
    <3> QED BY <1>2, <2>1, <2>3, <3>2, <3>3, <3>4, <3>5, <3>6, <3>7 DEF m, all
  <2>4. CASE ~HasLine(m.game_board) /\ m.play_count = 8
    <3>1. done = Result(m, SendTie(m), GAMEOVER)
      BY <1>2, <2>4, ValidateCases
    <3>2. done.env = m /\ done.out = SendTie(m) /\ done.ret = GAMEOVER
      BY <3>1 DEF Result
    <3> HIDE DEF m
    <3>3. ResultsFit(m, SendTie(m)) /\ AnswersMover(m, SendTie(m))
      BY <2>1, TieTold DEF ResultsFit
    <3>4. LinesAreMovers(m, SendTie(m))
      <4>1. \A fd : ~OwnsLine(m.game_board, fd)
        BY <2>4 DEF OwnsLine, HasLine
      <4> QED BY <2>4, <4>1 DEF LinesAreMovers
    <3> QED BY <1>2, <2>1, <2>2, <2>4, <3>2, <3>3, <3>4 DEF m
  <2>5. CASE ~HasLine(m.game_board) /\ m.play_count # 8
    <3>1. done = Result(m, << >>, TURNOVER)
      BY <1>2, <2>5, ValidateCases
    <3>2. done.env = m /\ done.out = << >> /\ done.ret = TURNOVER
      BY <3>1 DEF Result
    <3> HIDE DEF m
    <3>3. ResultsFit(m, << >>)
      BY NoResultFits, SilenceTold
    <3> QED BY <1>2, <2>1, <2>2, <2>5, <3>2, <3>3 DEF m
  <2> QED BY <2>3, <2>4, <2>5
<1> QED BY <1>1, <1>2

\* A mark on an empty square leaves every line there is.
LEMMA LinesStay ==
  ASSUME NEW board \in [Cells -> Nat], NEW c \in Cells, NEW fd,
         board[c] = BLANK_SPACE, HasLine(board)
  PROVE  HasLine([board EXCEPT ![c] = fd])
<1> DEFINE after == [board EXCEPT ![c] = fd]
<1>1. \A d \in Cells : d # c => after[d] = board[d]
  OBVIOUS
<1> HIDE DEF after
<1>2. ASSUME NEW i \in Cells, NEW j \in Cells, NEW k \in Cells, Full(board, i, j, k)
      PROVE  Full(after, i, j, k)
  BY <1>1, <1>2 DEF Full
<1>3. ASSUME NEW r \in {0, 3, 6}, FullRow(board, r) PROVE FullRow(after, r)
  <2>1. r \in Cells /\ r + 1 \in Cells /\ r + 2 \in Cells
    BY DEF Cells
  <2> QED BY <1>2, <1>3, <2>1 DEF FullRow
<1>4. ASSUME NEW q \in {0, 1, 2}, FullCol(board, q) PROVE FullCol(after, q)
  <2>1. q \in Cells /\ q + 3 \in Cells /\ q + 6 \in Cells
    BY DEF Cells
  <2> QED BY <1>2, <1>4, <2>1 DEF FullCol
<1>5. /\ FullDiagonal(board) => FullDiagonal(after)
      /\ FullAntiDiagonal(board) => FullAntiDiagonal(after)
  <2>1. {0, 2, 4, 6, 8} \subseteq Cells
    BY DEF Cells
  <2> QED BY <1>2, <2>1 DEF FullDiagonal, FullAntiDiagonal
<1> QED BY <1>3, <1>4, <1>5 DEF HasLine, after

\* A game that was decided stays so, and is never passed on; one that was not is when
\* it has a line or nine marks, and its marks are counted when it goes on.
LEMMA ValidateCounts ==
  ASSUME NEW e \in TTTRecords, Theirs(e), Ordinary(e),
         NEW done, done = ValidateInput(e), done.ret # FSM_EXIT,
         IF e.game_over THEN Decided(e.game_board) ELSE Counts(e, 0)
  PROVE  /\ done.ret = GAMEOVER => Decided(done.env.game_board)
         /\ done.ret = TURNOVER => ~e.game_over /\ Counts(done.env, 1)
         /\ done.ret = TURNOVER => ~Decided(done.env.game_board)
<1>1. /\ IsPlayable(e)
      /\ SameGame(e, done.env)
      /\ done.env.fd_current_player = e.fd_current_player
      /\ Theirs(done.env)
      /\ done.env.game_board = Mark(e).game_board
      /\ done.env.play_count = e.play_count
      /\ done.ret \in {GAMEOVER, TURNOVER}
      /\ done.ret = TURNOVER => done.env.play_count # 8 /\ ~HasLine(done.env.game_board)
      /\ done.ret = GAMEOVER => done.env.play_count = 8 \/ HasLine(done.env.game_board)
  BY ValidateGame
<1>2. CASE e.game_over
  <2>1. /\ e.game_board \in [Cells -> Nat]
        /\ e.received_move \in Cells /\ e.game_board[e.received_move] = BLANK_SPACE
    BY <1>1 DEF IsPlayable, TTTRecords
  <2>2. HasLine(e.game_board)
    BY <1>2, <2>1 DEF Decided
  <2>3. done.env.game_board = [e.game_board EXCEPT ![e.received_move] = e.fd_current_player]
    BY <1>1, MarkResult
  <2>4. HasLine(done.env.game_board)
    BY <2>1, <2>2, <2>3, LinesStay
  <2> QED BY <1>1, <2>4 DEF Decided
<1>3. CASE ~e.game_over
  <2>1. Counts(Mark(e), 1)
    BY <1>1, <1>3, MarkCounts
  <2>2. SameGame(e, Mark(e)) /\ Mark(e).fd_current_player = e.fd_current_player
        /\ Mark(e).play_count = e.play_count
    BY <1>1, MarkResult
  <2>3. Counts(done.env, 1)
    BY <1>1, <2>1, <2>2 DEF Counts, SameGame
  <2> DEFINE f == done.env
             x == Cardinality(Marks(f.game_board, f.client_x))
             o == Cardinality(Marks(f.game_board, f.client_o))
  <2>4. x + o = 9 <=> \A c \in Cells : f.game_board[c] # BLANK_SPACE
    <3>1. /\ f.client_x # f.client_o /\ f.client_x # BLANK_SPACE /\ f.client_o # BLANK_SPACE
          /\ \A c \in Cells : f.game_board[c] \in {f.client_x, f.client_o, BLANK_SPACE}
      BY <1>1 DEF Ordinary, Theirs, SameGame
    <3> QED BY <3>1, NineMarks
  <2>5. x + o = f.play_count + 1
    BY <2>3 DEF Counts
  <2>6. f.play_count \in Nat
    BY <1>1 DEF TTTRecords
  <2> HIDE DEF x, o
  <2>7. x + o = 9 <=> f.play_count = 8
    BY <2>5, <2>6
  <2> QED BY <1>1, <1>3, <2>3, <2>4, <2>7 DEF Decided
<1> QED BY <1>2, <1>3

-----------------------------------------------------------------------------
(* The game as NoughtsAndCrosses sees it.                                  *)

\* The game of an environment, as NoughtsAndCrosses sees it.
Side(e, fd) == IF fd = e.client_x THEN "x" ELSE "o"

Shown(e) == [c \in Cells |-> IF e.game_board[c] = BLANK_SPACE THEN "free"
                             ELSE Side(e, e.game_board[c])]

LineSets == { {0, 1, 2}, {3, 4, 5}, {6, 7, 8},
              {0, 3, 6}, {1, 4, 7}, {2, 5, 8},
              {0, 4, 8}, {2, 4, 6} }

\* Decided, as NoughtsAndCrosses defines it.
IsDecided(marks) ==
  \/ \E line \in LineSets, p \in {"x", "o"} : \A c \in line : marks[c] = p
  \/ \A c \in Cells : marks[c] # "free"

\* A line of the board is a line of the game.
LEMMA LineShown ==
  ASSUME NEW e, Theirs(e), Ordinary(e), NEW i \in Cells, NEW j \in Cells, NEW k \in Cells
  PROVE  Full(e.game_board, i, j, k) <=>
           \E p \in {"x", "o"} : \A c \in {i, j, k} : Shown(e)[c] = p
<1> DEFINE board == e.game_board
<1>1. \A c \in Cells : /\ board[c] = BLANK_SPACE => Shown(e)[c] = "free"
                       /\ board[c] = e.client_x => Shown(e)[c] = "x"
                       /\ board[c] = e.client_o => Shown(e)[c] = "o"
                       /\ board[c] \in {e.client_x, e.client_o, BLANK_SPACE}
  BY DEF Shown, Side, Theirs, Ordinary
<1>2. e.client_x # e.client_o /\ e.client_x # BLANK_SPACE /\ e.client_o # BLANK_SPACE
  BY DEF Ordinary
<1> QED BY <1>1, <1>2 DEF Full

\* The game is decided on the board when it is decided in NoughtsAndCrosses.
LEMMA DecidedShown ==
  ASSUME NEW e, Theirs(e), Ordinary(e)
  PROVE  IsDecided(Shown(e)) <=> Decided(e.game_board)
<1> DEFINE board == e.game_board
           Line(i, j, k) == \E p \in {"x", "o"} : \A c \in {i, j, k} : Shown(e)[c] = p
<1>1. \A i, j, k \in Cells : Full(board, i, j, k) <=> Line(i, j, k)
  BY LineShown
<1>2. HasLine(board) <=> \/ Line(0, 1, 2) \/ Line(3, 4, 5) \/ Line(6, 7, 8)
                         \/ Line(0, 3, 6) \/ Line(1, 4, 7) \/ Line(2, 5, 8)
                         \/ Line(0, 4, 8) \/ Line(2, 4, 6)
  <2>1. 0..8 = {0, 1, 2, 3, 4, 5, 6, 7, 8}
    OBVIOUS
  <2>2. HasLine(board) <=>
          \/ Full(board, 0, 1, 2) \/ Full(board, 3, 4, 5) \/ Full(board, 6, 7, 8)
          \/ Full(board, 0, 3, 6) \/ Full(board, 1, 4, 7) \/ Full(board, 2, 5, 8)
          \/ Full(board, 0, 4, 8) \/ Full(board, 2, 4, 6)
    BY DEF HasLine, FullRow, FullCol, FullDiagonal, FullAntiDiagonal
  <2> HIDE DEF Line
  <2> QED BY <1>1, <2>1, <2>2 DEF Cells
<1>3. (\E line \in LineSets, p \in {"x", "o"} : \A c \in line : Shown(e)[c] = p)
        <=> \/ Line(0, 1, 2) \/ Line(3, 4, 5) \/ Line(6, 7, 8)
            \/ Line(0, 3, 6) \/ Line(1, 4, 7) \/ Line(2, 5, 8)
            \/ Line(0, 4, 8) \/ Line(2, 4, 6)
  <2> DEFINE Held(line) == \E p \in {"x", "o"} : \A c \in line : Shown(e)[c] = p
  <2>1. (\E line \in LineSets, p \in {"x", "o"} : \A c \in line : Shown(e)[c] = p)
          <=> \E line \in LineSets : Held(line)
    OBVIOUS
  <2>2. \A i, j, k \in Cells : Line(i, j, k) <=> Held({i, j, k})
    OBVIOUS
  <2> HIDE DEF Line, Held
  <2>3. (\E line \in LineSets : Held(line))
          <=> \/ Held({0, 1, 2}) \/ Held({3, 4, 5}) \/ Held({6, 7, 8})
              \/ Held({0, 3, 6}) \/ Held({1, 4, 7}) \/ Held({2, 5, 8})
              \/ Held({0, 4, 8}) \/ Held({2, 4, 6})
    BY ZenonT(30) DEF LineSets
  <2>4. 0..8 = {0, 1, 2, 3, 4, 5, 6, 7, 8}
    OBVIOUS
  <2> QED BY <2>1, <2>2, <2>3, <2>4 DEF Cells
<1>4. (\A c \in Cells : Shown(e)[c] # "free") <=> \A c \in Cells : board[c] # BLANK_SPACE
  BY DEF Shown, Side
<1> HIDE DEF Line
<1> QED BY <1>2, <1>3, <1>4 DEF IsDecided, Decided

\* A playable move is a move of the game: the player in turn marks a free square, and
\* the game is over or the turn passes.
LEMMA PlayableIsPlay ==
  ASSUME NEW e \in TTTRecords, Theirs(e), Ordinary(e),
         NEW done, done = ValidateInput(e), done.ret # FSM_EXIT,
         IF e.game_over THEN Decided(e.game_board) ELSE Counts(e, 0)
  PROVE  /\ e.received_move \in Cells
         /\ Shown(e)[e.received_move] = "free"
         /\ Shown(done.env) = [Shown(e) EXCEPT ![e.received_move] = Side(e, e.fd_current_player)]
         /\ IsDecided(Shown(done.env)) <=> done.ret = GAMEOVER
<1> DEFINE c == e.received_move
           cur == e.fd_current_player
<1>1. /\ IsPlayable(e)
      /\ SameGame(e, done.env)
      /\ Theirs(done.env)
      /\ done.env.game_board = Mark(e).game_board
      /\ done.ret \in {GAMEOVER, TURNOVER}
  BY ValidateGame
<1>2. done.env.game_board = [e.game_board EXCEPT ![c] = cur]
  BY <1>1, MarkResult
<1>3. /\ e.game_board \in [Cells -> Nat]
      /\ c \in Cells /\ e.game_board[c] = BLANK_SPACE /\ cur # BLANK_SPACE
  BY <1>1 DEF IsPlayable, TTTRecords, Ordinary, Theirs
<1>4. done.env.client_x = e.client_x
  BY <1>1 DEF SameGame
<1> HIDE DEF c, cur
<1>5. Shown(e)[c] = "free"
  BY <1>3 DEF Shown
<1>6. Shown(done.env) = [Shown(e) EXCEPT ![c] = Side(e, cur)]
  <2>1. \A d \in Cells : done.env.game_board[d] = IF d = c THEN cur ELSE e.game_board[d]
    BY <1>2, <1>3
  <2>2. \A d \in Cells : Shown(done.env)[d] = IF d = c THEN Side(e, cur) ELSE Shown(e)[d]
    BY <1>3, <1>4, <2>1 DEF Shown, Side
  <2> QED BY <1>3, <2>2 DEF Shown
<1>7. IsDecided(Shown(done.env)) <=> done.ret = GAMEOVER
  <2>1. Ordinary(done.env)
    BY <1>1 DEF Ordinary, SameGame
  <2>2. IsDecided(Shown(done.env)) <=> Decided(done.env.game_board)
    BY <1>1, <2>1, DecidedShown
  <2>3. /\ done.ret = GAMEOVER => Decided(done.env.game_board)
        /\ done.ret = TURNOVER => ~Decided(done.env.game_board)
    BY ValidateCounts
  <2> QED BY <1>1, <2>2, <2>3
<1> QED BY <1>3, <1>5, <1>6, <1>7 DEF c, cur

-----------------------------------------------------------------------------
(* Whom the messages of a turn go to.                                      *)

\* Every message goes to one of these.
SentTo(msgs, fds) == \A i \in 1..Len(msgs) : msgs[i].to \in fds

\* Nothing is sent to anybody in no messages.
LEMMA NobodyTold == \A fds : << >> \in Seq(Messages) /\ SentTo(<< >>, fds)
BY DEF SentTo

\* A single message goes to whom it is sent to.
LEMMA OneTold ==
  ASSUME NEW m \in Messages
  PROVE  << m >> \in Seq(Messages) /\ SentTo(<< m >>, {m.to})
BY DEF SentTo

\* Of two sequences of messages sent one after the other, each goes where it goes.
LEMMA BothTold ==
  ASSUME NEW s \in Seq(Messages), NEW t \in Seq(Messages), NEW fds,
         SentTo(s, fds), SentTo(t, fds)
  PROVE  s \o t \in Seq(Messages) /\ SentTo(s \o t, fds)
<1> DEFINE all == s \o t
<1>1. /\ all \in Seq(Messages) /\ Len(s) \in Nat /\ Len(t) \in Nat
      /\ Len(all) = Len(s) + Len(t)
      /\ \A i \in 1..Len(all) : all[i] = IF i <= Len(s) THEN s[i] ELSE t[i - Len(s)]
  OBVIOUS
<1> HIDE DEF all
<1>2. ASSUME NEW i \in 1..Len(all) PROVE all[i].to \in fds
  <2>1. CASE i <= Len(s)
    BY <1>1, <2>1 DEF SentTo
  <2>2. CASE ~(i <= Len(s))
    <3>1. i - Len(s) \in 1..Len(t)
      BY <1>1, <2>2
    <3> QED BY <1>1, <2>2, <3>1 DEF SentTo
  <2> QED BY <2>1, <2>2
<1>3. SentTo(all, fds)
  BY <1>2 DEF SentTo
<1> QED BY <1>1, <1>3 DEF all

\* What validate_input sends, and what accepted_move sends, goes to the players.
LEMMA PlayersTold ==
  ASSUME NEW e \in TTTRecords, Theirs(e), NEW players, players = {e.client_x, e.client_o}
  PROVE  /\ SentTo(ValidateInput(e).out, players)
         /\ SentTo(SendAccepted(e) \o SendUpdate(SwitchPlayers(e)), players)
<1>1. /\ e.fd_current_player \in players /\ e.client_x \in players /\ e.client_o \in players
      /\ e.fd_current_player \in Int /\ e.client_x \in Int /\ e.client_o \in Int
      /\ e.received_move \in Int
  BY DEF Theirs, TTTRecords
<1>2. ASSUME NEW code \in Codes, NEW fd \in players, NEW arg \in Int
      PROVE  << Msg(fd, code, arg) >> \in Seq(Messages) /\ SentTo(<< Msg(fd, code, arg) >>, players)
  <2>1. fd \in Int
    BY <1>1
  <2>2. Msg(fd, code, arg) \in Messages /\ Msg(fd, code, arg).to = fd
    BY <2>1 DEF Msg, Messages
  <2>3. \A i \in 1..Len(<< Msg(fd, code, arg) >>) : << Msg(fd, code, arg) >>[i].to = fd
    BY <2>2
  <2> QED BY <2>2, <2>3 DEF SentTo
<1>3. ASSUME NEW f \in TTTRecords, SameGame(e, f), f.fd_current_player = e.fd_current_player,
             NEW c1 \in {"WIN", "LOSS", "TIE"}, NEW c2 \in {"WIN", "LOSS", "TIE"}
      PROVE  SentTo(ResultMsgs(f, c1, c2), players)
  <2> DEFINE m1 == Msg(f.fd_current_player, "ACCEPTED", 0)
             m2 == Msg(f.client_x, c1, f.received_move)
             m3 == Msg(f.client_o, c2, f.received_move)
             all == << m1 >> \o << m2, m3 >>
  <2>1. /\ m1 \in Messages /\ m2 \in Messages /\ m3 \in Messages
        /\ m1.to \in players /\ m2.to \in players /\ m3.to \in players
    BY <1>1, <1>3 DEF Msg, Messages, Codes, SameGame
  <2>2. ResultMsgs(f, c1, c2) = all
    BY DEF ResultMsgs, SendAccepted
  <2> HIDE DEF m1, m2, m3
  <2>3. Len(all) = 3 /\ all[1] = m1 /\ all[2] = m2 /\ all[3] = m3
    BY <2>1, ThreeMessages
  <2> HIDE DEF all
  <2>4. \A i \in 1..Len(all) : all[i] \in {m1, m2, m3}
    BY <2>3
  <2>5. SentTo(all, players)
    BY <2>1, <2>4 DEF SentTo
  <2> QED BY <2>2, <2>5
<1>4. SentTo(ValidateInput(e).out, players)
  <2>1. CASE ~IsPlayable(e) /\ ValidateInput(e) = Result(e, SendDecline(e), FSM_EXIT)
    <3>1. ValidateInput(e).out = << Msg(e.fd_current_player, "INVALID_ACTION", 0) >>
      BY <2>1, ResultFields DEF SendDecline
    <3>2. "INVALID_ACTION" \in Codes
      BY DEF Codes
    <3> QED BY <1>1, <1>2, <3>1, <3>2
  <2>2. ASSUME IsPlayable(e), ValidateInput(e) = Result(Won(Mark(e)), SendWinLoss(Won(Mark(e))), GAMEOVER)
        PROVE  SentTo(ValidateInput(e).out, players)
    <3> DEFINE f == Won(Mark(e))
    <3>1. f \in TTTRecords /\ SameGame(e, f) /\ f.fd_current_player = e.fd_current_player
      <4>1. /\ Mark(e) \in TTTRecords /\ SameGame(e, Mark(e))
            /\ Mark(e).fd_current_player = e.fd_current_player
        BY <2>2, MarkResult
      <4>2. /\ f \in TTTRecords /\ SameGame(Mark(e), f)
            /\ f.fd_current_player = Mark(e).fd_current_player
        BY <4>1, WonResult
      <4> HIDE DEF f
      <4> QED BY <4>1, <4>2 DEF SameGame
    <3>2. ValidateInput(e).out = SendWinLoss(f)
      BY <2>2, ResultFields
    <3> HIDE DEF f
    <3>3. SendWinLoss(f) \in {ResultMsgs(f, "WIN", "LOSS"), ResultMsgs(f, "LOSS", "WIN"), << >>}
      BY DEF SendWinLoss, ResultMsgs
    <3> QED BY <1>3, <3>1, <3>2, <3>3, NobodyTold
  <2>3. ASSUME IsPlayable(e), ValidateInput(e) = Result(Mark(e), SendTie(Mark(e)), GAMEOVER)
        PROVE  SentTo(ValidateInput(e).out, players)
    <3>1. /\ Mark(e) \in TTTRecords /\ SameGame(e, Mark(e))
          /\ Mark(e).fd_current_player = e.fd_current_player
      BY <2>3, MarkResult
    <3>2. ValidateInput(e).out = ResultMsgs(Mark(e), "TIE", "TIE")
      <4>1. ValidateInput(e).out = SendTie(Mark(e))
        BY <2>3, ResultFields
      <4>2. SendTie(Mark(e)) = ResultMsgs(Mark(e), "TIE", "TIE")
        BY DEF SendTie, ResultMsgs
      <4> QED BY <4>1, <4>2
    <3> QED BY <1>3, <3>1, <3>2
  <2>4. CASE IsPlayable(e) /\ ValidateInput(e) = Result(Mark(e), << >>, TURNOVER)
    BY <2>4, ResultFields, NobodyTold
  <2> QED BY <2>1, <2>2, <2>3, <2>4, ValidateCases
<1>5. SentTo(SendAccepted(e) \o SendUpdate(SwitchPlayers(e)), players)
  <2> DEFINE f == SwitchPlayers(e)
  <2>1. /\ SameGame(e, f) /\ f.fd_current_player = OtherPlayer(e)
    BY SwitchResult
  <2> HIDE DEF f
  <2>2. f.fd_current_player \in players /\ f.received_move \in Int
    BY <1>1, <2>1 DEF SameGame, OtherPlayer, Theirs
  <2>3. /\ SendAccepted(e) \in Seq(Messages) /\ SentTo(SendAccepted(e), players)
        /\ SendUpdate(f) \in Seq(Messages) /\ SentTo(SendUpdate(f), players)
    <3>1. "ACCEPTED" \in Codes /\ "MOVE_MADE" \in Codes /\ 0 \in Int
      BY DEF Codes
    <3> QED BY <1>1, <1>2, <2>2, <3>1 DEF SendAccepted, SendUpdate
  <2> QED BY <2>3, BothTold DEF f
<1> QED BY <1>4, <1>5

\* validate_input sends messages.
LEMMA ValidateTyped ==
  ASSUME NEW e \in TTTRecords
  PROVE  ValidateInput(e).out \in Seq(Messages)
<1>1. CASE ~IsPlayable(e) /\ ValidateInput(e) = Result(e, SendDecline(e), FSM_EXIT)
  BY <1>1, ResultFields, DeclineTold
<1>2. CASE IsPlayable(e) /\ ValidateInput(e) = Result(Won(Mark(e)), SendWinLoss(Won(Mark(e))), GAMEOVER)
         /\ HasLine(Mark(e).game_board)
  <2>1. Won(Mark(e)) \in TTTRecords /\ HasLine(Won(Mark(e)).game_board)
    BY <1>2, MarkResult, WonResult
  <2>2. SendWinLoss(Won(Mark(e))) \in Seq(Messages)
    BY <2>1, LineTold
  <2> QED BY <1>2, <2>2, ResultFields
<1>3. CASE IsPlayable(e) /\ ValidateInput(e) = Result(Mark(e), SendTie(Mark(e)), GAMEOVER)
  <2>1. SendTie(Mark(e)) \in Seq(Messages)
    BY <1>3, MarkResult, TieTold
  <2> QED BY <1>3, <2>1, ResultFields
<1>4. CASE IsPlayable(e) /\ ValidateInput(e) = Result(Mark(e), << >>, TURNOVER)
  <2>1. ValidateInput(e).out = << >>
    BY <1>4, ResultFields
  <2> QED BY <2>1
<1>5. \/ ~IsPlayable(e) /\ ValidateInput(e) = Result(e, SendDecline(e), FSM_EXIT)
      \/ /\ IsPlayable(e) /\ HasLine(Mark(e).game_board)
         /\ ValidateInput(e) = Result(Won(Mark(e)), SendWinLoss(Won(Mark(e))), GAMEOVER)
      \/ IsPlayable(e) /\ ValidateInput(e) = Result(Mark(e), SendTie(Mark(e)), GAMEOVER)
      \/ IsPlayable(e) /\ ValidateInput(e) = Result(Mark(e), << >>, TURNOVER)
  BY ValidateCases
<1> QED BY <1>1, <1>2, <1>3, <1>4, <1>5

-----------------------------------------------------------------------------
(* The whole turn.                                                         *)

\* A game of tic-tac-toe between turns: its marks and its turn are its players', it is
\* flagged over only when it is decided, and before that the marks count the turns.
Sound(e) ==
  /\ Theirs(e)
  /\ Ordinary(e) => IF e.game_over THEN Decided(e.game_board) ELSE Counts(e, 0)

\* A turn is a refusal, a move that passes the turn on, or one that decides the game.
LEMMA MainarooCases ==
  ASSUME NEW e \in TTTRecords, Theirs(e),
         NEW first, first = ValidateInput(e), NEW turn, turn = Mainaroo(e)
  PROVE  \/ /\ first.ret = FSM_EXIT
            /\ turn.env = e /\ turn.out = first.out
         \/ /\ first.ret = TURNOVER
            /\ turn.env = SwitchPlayers(first.env)
            /\ turn.out = SendAccepted(first.env) \o SendUpdate(SwitchPlayers(first.env))
         \/ /\ first.ret = GAMEOVER
            /\ turn.env = [first.env EXCEPT !.game_over = TRUE]
            /\ turn.out = first.out
<1> DEFINE then == Perform(FsmTransition(TTTTable, VALIDATE, first.ret), first.env)
           said == first.out \o then.out
<1>1. /\ first.env \in TTTRecords
      /\ first.ret \in {FSM_EXIT, GAMEOVER, TURNOVER}
      /\ first.ret = TURNOVER => first.out = << >>
      /\ first.ret = FSM_EXIT => first.env = e
  BY ValidateGame
<1>2. first.out \in Seq(Messages)
  BY ValidateTyped
<1>3. turn = IF first.ret = FSM_EXIT THEN first ELSE Result(then.env, said, then.ret)
  BY DEF Mainaroo
<1>4. CASE first.ret = FSM_EXIT
  BY <1>1, <1>3, <1>4
<1>5. CASE first.ret = TURNOVER
  <2> DEFINE msgs == SendAccepted(first.env) \o SendUpdate(SwitchPlayers(first.env))
  <2>1. then = AcceptedMove(first.env)
    BY <1>5, RowsFound DEF Perform
  <2>2. AcceptedMove(first.env) = Result(SwitchPlayers(first.env), msgs, FSM_EXIT)
    BY DEF AcceptedMove
  <2>3. msgs \in Seq(Messages)
    BY <1>1, SwitchResult, TurnoverTold
  <2> HIDE DEF then, msgs
  <2>4. then.env = SwitchPlayers(first.env) /\ then.out = msgs
    BY <2>1, <2>2, ResultFields
  <2>5. said = msgs
    BY <1>1, <1>5, <2>3, <2>4
  <2> HIDE DEF said
  <2>6. turn.env = then.env /\ turn.out = said
    BY <1>3, <1>5, ResultFields
  <2> QED BY <1>5, <2>4, <2>5, <2>6 DEF msgs
<1>6. CASE first.ret = GAMEOVER
  <2>1. then = GameOver(first.env)
    BY <1>6, RowsFound DEF Perform
  <2> HIDE DEF then
  <2>2. then.env = [first.env EXCEPT !.game_over = TRUE] /\ then.out = << >>
    BY <2>1 DEF GameOver, Result
  <2>3. said = first.out
    BY <1>2, <2>2
  <2> HIDE DEF said
  <2>4. turn.env = then.env /\ turn.out = said
    BY <1>3, <1>6, ResultFields
  <2> QED BY <1>6, <2>2, <2>3, <2>4
<1> QED BY <1>1, <1>4, <1>5, <1>6

\* After a turn it is the same game, as sound as before, and its players have been
\* told what there was to tell.
LEMMA MainarooGame ==
  ASSUME NEW e \in TTTRecords, Sound(e), NEW turn, turn = Mainaroo(e)
  PROVE  /\ turn.env \in TTTRecords
         /\ SameGame(e, turn.env)
         /\ Sound(turn.env)
         /\ turn.out \in Seq(Messages)
         /\ SentTo(turn.out, {e.client_x, e.client_o})
<1> DEFINE first == ValidateInput(e)
           f == first.env
<1>0. Theirs(e)
  BY DEF Sound
<1>1. /\ f \in TTTRecords
      /\ SameGame(e, f)
      /\ f.game_over = e.game_over
      /\ Theirs(f)
  BY <1>0, ValidateGame
<1>2. first.out \in Seq(Messages) /\ SentTo(first.out, {e.client_x, e.client_o})
  BY <1>0, ValidateTyped, PlayersTold
<1>3. first.ret # FSM_EXIT /\ Ordinary(e) =>
        /\ first.ret = GAMEOVER => Decided(f.game_board)
        /\ first.ret = TURNOVER => ~e.game_over /\ Counts(f, 1)
  BY <1>0, ValidateCounts DEF Sound
<1>4. Ordinary(f) <=> Ordinary(e)
  BY <1>1 DEF SameGame, Ordinary
<1>5. \/ first.ret = FSM_EXIT /\ turn.env = e /\ turn.out = first.out
      \/ /\ first.ret = TURNOVER
         /\ turn.env = SwitchPlayers(f)
         /\ turn.out = SendAccepted(f) \o SendUpdate(SwitchPlayers(f))
      \/ /\ first.ret = GAMEOVER
         /\ turn.env = [f EXCEPT !.game_over = TRUE]
         /\ turn.out = first.out
  BY <1>0, MainarooCases
<1> HIDE DEF first, f
<1>6. CASE first.ret = FSM_EXIT /\ turn.env = e /\ turn.out = first.out
  BY <1>2, <1>6 DEF SameGame
<1>7. ASSUME first.ret = TURNOVER, turn.env = SwitchPlayers(f),
             turn.out = SendAccepted(f) \o SendUpdate(SwitchPlayers(f))
      PROVE  /\ turn.env \in TTTRecords /\ SameGame(e, turn.env) /\ Sound(turn.env)
             /\ turn.out \in Seq(Messages) /\ SentTo(turn.out, {e.client_x, e.client_o})
  <2>1. /\ turn.env \in TTTRecords
        /\ SameGame(f, turn.env)
        /\ turn.env.fd_current_player = OtherPlayer(f)
        /\ turn.env.game_board = f.game_board
        /\ turn.env.game_over = f.game_over
    BY <1>1, <1>7, SwitchResult
  <2>2. SameGame(e, turn.env)
    BY <1>1, <2>1 DEF SameGame
  <2>3. Theirs(turn.env)
    BY <1>1, <2>1 DEF Theirs, OtherPlayer, SameGame
  <2>4. ASSUME Ordinary(turn.env) PROVE ~turn.env.game_over /\ Counts(turn.env, 0)
    <3>1. Ordinary(f)
      BY <2>1, <2>4 DEF Ordinary, SameGame
    <3>2. FSM_EXIT # TURNOVER
      OBVIOUS
    <3>3. ~e.game_over /\ Counts(f, 1)
      BY <1>3, <1>4, <1>7, <3>1, <3>2
    <3> QED BY <1>1, <1>7, <2>1, <3>1, <3>3, SwitchCounts
  <2>5. turn.out \in Seq(Messages)
    BY <1>1, <1>7, <2>1, TurnoverTold
  <2>6. SentTo(turn.out, {e.client_x, e.client_o})
    <3>1. {e.client_x, e.client_o} = {f.client_x, f.client_o}
      BY <1>1 DEF SameGame
    <3> QED BY <1>1, <1>7, <3>1, PlayersTold
  <2> QED BY <2>1, <2>2, <2>3, <2>4, <2>5, <2>6 DEF Sound
<1>8. ASSUME first.ret = GAMEOVER, turn.env = [f EXCEPT !.game_over = TRUE], turn.out = first.out
      PROVE  /\ turn.env \in TTTRecords /\ SameGame(e, turn.env) /\ Sound(turn.env)
             /\ turn.out \in Seq(Messages) /\ SentTo(turn.out, {e.client_x, e.client_o})
  <2>1. /\ turn.env \in TTTRecords
        /\ SameGame(f, turn.env)
        /\ turn.env.fd_current_player = f.fd_current_player
        /\ turn.env.game_board = f.game_board
        /\ turn.env.game_over = TRUE
    BY <1>1, <1>8 DEF TTTRecords, SameGame
  <2>2. SameGame(e, turn.env)
    BY <1>1, <2>1 DEF SameGame
  <2>3. Theirs(turn.env)
    BY <1>1, <2>1 DEF Theirs, SameGame
  <2>4. ASSUME Ordinary(turn.env) PROVE Decided(turn.env.game_board)
    <3>1. Ordinary(f)
      BY <2>1, <2>4 DEF Ordinary, SameGame
    <3>2. FSM_EXIT # GAMEOVER
      OBVIOUS
    <3> QED BY <1>3, <1>4, <1>8, <2>1, <3>1, <3>2
  <2> QED BY <1>2, <1>8, <2>1, <2>2, <2>3, <2>4 DEF Sound
<1> QED BY <1>5, <1>6, <1>7, <1>8

\* A turn of a game between ordinary players is a move of noughts and crosses, or
\* changes nothing in it.
LEMMA MainarooPlays ==
  ASSUME NEW e \in TTTRecords, Sound(e), Ordinary(e), NEW turn, turn = Mainaroo(e)
  PROVE  \/ turn.env = e
         \/ \E c \in Cells :
              /\ Shown(e)[c] = "free"
              /\ Shown(turn.env) = [Shown(e) EXCEPT ![c] = Side(e, e.fd_current_player)]
              /\ IF IsDecided(Shown(turn.env))
                   THEN /\ turn.env.game_over
                        /\ turn.env.fd_current_player = e.fd_current_player
                   ELSE /\ turn.env.game_over <=> e.game_over
                        /\ turn.env.fd_current_player = OtherPlayer(e)
<1> DEFINE first == ValidateInput(e)
           f == first.env
<1>0. Theirs(e)
  BY DEF Sound
<1>1. /\ f \in TTTRecords
      /\ SameGame(e, f)
      /\ f.game_over = e.game_over
      /\ f.fd_current_player = e.fd_current_player
  BY <1>0, ValidateGame
<1>2. \/ first.ret = FSM_EXIT /\ turn.env = e
      \/ first.ret = TURNOVER /\ turn.env = SwitchPlayers(f)
      \/ first.ret = GAMEOVER /\ turn.env = [f EXCEPT !.game_over = TRUE]
  BY <1>0, MainarooCases
<1>3. ASSUME first.ret # FSM_EXIT
      PROVE  /\ e.received_move \in Cells
             /\ Shown(e)[e.received_move] = "free"
             /\ Shown(f) = [Shown(e) EXCEPT ![e.received_move] = Side(e, e.fd_current_player)]
             /\ IsDecided(Shown(f)) <=> first.ret = GAMEOVER
  BY <1>0, <1>3, PlayableIsPlay DEF Sound
<1> HIDE DEF first, f
<1>4. ASSUME first.ret = TURNOVER, turn.env = SwitchPlayers(f)
      PROVE  /\ turn.env.game_board = f.game_board
             /\ turn.env.client_x = f.client_x
             /\ turn.env.game_over = f.game_over
             /\ turn.env.fd_current_player = OtherPlayer(f)
  BY <1>1, <1>4, SwitchResult DEF SameGame
<1>5. ASSUME first.ret = GAMEOVER, turn.env = [f EXCEPT !.game_over = TRUE]
      PROVE  /\ turn.env.game_board = f.game_board
             /\ turn.env.client_x = f.client_x
             /\ turn.env.game_over = TRUE
             /\ turn.env.fd_current_player = f.fd_current_player
  BY <1>1, <1>5 DEF TTTRecords
<1>6. ASSUME turn.env.game_board = f.game_board, turn.env.client_x = f.client_x
      PROVE  Shown(turn.env) = Shown(f)
  BY <1>6 DEF Shown, Side
<1>7. OtherPlayer(f) = OtherPlayer(e)
  BY <1>1 DEF OtherPlayer, SameGame
<1>8. CASE first.ret = TURNOVER /\ turn.env = SwitchPlayers(f)
  <2>1. first.ret # FSM_EXIT /\ first.ret # GAMEOVER /\ Shown(turn.env) = Shown(f)
    BY <1>4, <1>6, <1>8
  <2>2. ~IsDecided(Shown(turn.env))
    BY <1>3, <2>1
  <2>3. turn.env.game_over = e.game_over /\ turn.env.fd_current_player = OtherPlayer(e)
    BY <1>1, <1>4, <1>7, <1>8
  <2> QED BY <1>3, <2>1, <2>2, <2>3
<1>9. CASE first.ret = GAMEOVER /\ turn.env = [f EXCEPT !.game_over = TRUE]
  <2>1. first.ret # FSM_EXIT /\ Shown(turn.env) = Shown(f)
    BY <1>5, <1>6, <1>9
  <2>2. IsDecided(Shown(turn.env))
    BY <1>3, <1>9, <2>1
  <2>3. turn.env.game_over = TRUE /\ turn.env.fd_current_player = e.fd_current_player
    BY <1>1, <1>5, <1>9
  <2> QED BY <1>3, <2>1, <2>2, <2>3
<1> QED BY <1>2, <1>8, <1>9
=============================================================================
