-------------------------- MODULE FirstGame_proofs --------------------------
(***************************************************************************)
(* Proofs about FirstGame, for any number of clients, whatever they type   *)
(* and however they receive it.  Three inductive invariants, each of which *)
(* uses those before it: what the server holds (ServerInv); that what is   *)
(* on its way to a client is messages one after the other, which it can    *)
(* follow (ClientsInv); and that one client at a time is to move (Turns).  *)
(***************************************************************************)
EXTENDS FirstGame, Engine_proofs, SequenceTheorems

-----------------------------------------------------------------------------
(* Streams.                                                                *)

Streams == Seq(1..127)

Codes == {WELCOME, INVITE, INVALID, ACCEPTED, WIN, LOSE, TIE}

Squares == {X, O, BLANK_SPACE}

\* A message that starts here makes the client prompt its user.
PromptsAt(s, i) == s[i] \in {INVITE, INVALID} \/ (s[i] = WELCOME /\ s[i + 1] = X)

\* A message starts here, and is there to its end.
MessageAt(s, i) ==
  /\ s[i] \in Codes
  /\ i + Extent(s[i]) <= Len(s) + 1
  /\ s[i] = WELCOME => s[i + 1] \in {X, O}
  /\ s[i] = INVITE => \A n \in 1..9 : s[i + n] \in Squares

\* The stream is messages one after the other, which start at these positions; the
\* last of them is where the next message will start.
Framed(s, starts) ==
  /\ 1 \in starts /\ Len(s) + 1 \in starts
  /\ \A i \in starts : i \in 1..(Len(s) + 1)
  /\ \A i \in starts : i <= Len(s) => MessageAt(s, i) /\ i + Extent(s[i]) \in starts

\* The extent of a message.
LEMMA Extents ==
  /\ \A code \in Codes : Extent(code) \in {1, 2, 10}
  /\ Extent(WELCOME) = 2 /\ Extent(INVITE) = 10
  /\ \A code \in Codes : code \notin {WELCOME, INVITE} => Extent(code) = 1
  /\ \A code \in Codes : Extent(code) \in Nat /\ Extent(code) >= 1
BY DEF Extent, Codes, WELCOME, INVITE, INVALID, ACCEPTED, WIN, LOSE, TIE

\* One message.
IsMessage(m) == m \in Streams /\ Len(m) = Extent(m[1]) /\ MessageAt(m, 1)

\* t is s followed by m.
Joined(s, m, t) ==
  /\ t \in Streams /\ Len(t) = Len(s) + Len(m)
  /\ \A i \in 1..Len(s) : t[i] = s[i]
  /\ \A i \in 1..Len(m) : t[Len(s) + i] = m[i]

\* t is s without its first n bytes.
Dropped(s, n, t) ==
  /\ t \in Streams /\ Len(t) = Len(s) - n
  /\ \A i \in 1..Len(t) : t[i] = s[i + n]

\* Concatenation joins.
LEMMA ConcatJoins ==
  ASSUME NEW s \in Streams, NEW m \in Streams
  PROVE  Joined(s, m, s \o m)
<1>0. /\ s \o m \in Streams
      /\ Len(s \o m) = Len(s) + Len(m)
      /\ \A i \in 1..Len(s) + Len(m) : (s \o m)[i] = IF i <= Len(s) THEN s[i] ELSE m[i - Len(s)]
  BY ONLY s \in Streams, m \in Streams, ConcatProperties DEF Streams
<1> PICK k \in Nat : k = Len(s)
  BY DEF Streams
<1> PICK n \in Nat : n = Len(m)
  BY DEF Streams
<1> DEFINE t == s \o m
<1>1. /\ t \in Streams /\ Len(t) = k + n
      /\ \A i \in 1..(k + n) : t[i] = IF i <= k THEN s[i] ELSE m[i - k]
  <2>1. /\ t \in Streams /\ Len(t) = Len(s) + Len(m)
        /\ \A i \in 1..Len(s) + Len(m) : t[i] = IF i <= Len(s) THEN s[i] ELSE m[i - Len(s)]
    BY <1>0
  <2> HIDE DEF t
  <2> QED BY <2>1
<1> HIDE DEF t
<1>2. ASSUME NEW i \in 1..k PROVE t[i] = s[i]
  BY <1>1
<1>3. ASSUME NEW i \in 1..n PROVE t[k + i] = m[i]
  <2>1. k + i \in 1..(k + n) /\ ~(k + i <= k) /\ (k + i) - k = i
    OBVIOUS
  <2> QED BY <1>1, <2>1
<1> QED BY <1>1, <1>2, <1>3 DEF Joined, t

\* SubSeq drops.
LEMMA SubSeqDrops ==
  ASSUME NEW s \in Streams, NEW n \in Nat, n <= Len(s)
  PROVE  Dropped(s, n, SubSeq(s, n + 1, Len(s)))
<1> PICK k \in Nat : k = Len(s)
  BY DEF Streams
<1> DEFINE t == SubSeq(s, n + 1, k)
<1>1. t = [i \in 1..(k - n) |-> s[i + n]]
  OBVIOUS
<1>2. \A i \in 1..(k - n) : s[i + n] \in 1..127
  BY DEF Streams
<1> HIDE DEF t
<1>3. t \in Streams /\ Len(t) = k - n /\ \A i \in 1..(k - n) : t[i] = s[i + n]
  BY <1>1, <1>2 DEF Streams
<1> QED BY <1>3 DEF Dropped, t

\* A stream stays framed when a message follows.
LEMMA JoinFramed ==
  ASSUME NEW s \in Streams, NEW starts, Framed(s, starts), NEW m, IsMessage(m), NEW t, Joined(s, m, t)
  PROVE  /\ Framed(t, starts \cup {Len(t) + 1})
         /\ \A i \in starts : i <= Len(s) => t[i] = s[i] /\ (PromptsAt(t, i) <=> PromptsAt(s, i))
         /\ t[Len(s) + 1] = m[1] /\ (PromptsAt(t, Len(s) + 1) <=> PromptsAt(m, 1))
         /\ Len(s) + 1 + Extent(m[1]) = Len(t) + 1
         /\ \A n \in 1..9 : m[1] = INVITE => t[Len(s) + 1 + n] = m[n + 1]
<1> PICK k \in Nat : k = Len(s)
  BY DEF Streams
<1>1. m[1] \in Codes /\ Extent(m[1]) \in {1, 2, 10} /\ Len(m) = Extent(m[1])
  BY Extents DEF IsMessage, MessageAt
<1> PICK e \in {1, 2, 10} : e = Extent(m[1])
  BY <1>1
<1>2. /\ Len(t) = k + e /\ Len(m) = e
      /\ \A i \in 1..k : t[i] = s[i]
      /\ \A i \in 1..e : t[k + i] = m[i]
  BY <1>1 DEF Joined
<1>3. t[k + 1] = m[1] /\ (e >= 2 => t[k + 2] = m[2])
  BY <1>2
<1>4. m[1] = INVITE => e = 10
  BY Extents
<1>5. m[1] = WELCOME => e = 2
  BY Extents
<1>6. \A n \in 1..9 : m[1] = INVITE => t[k + 1 + n] = m[n + 1]
  <2> SUFFICES ASSUME NEW n \in 1..9, m[1] = INVITE PROVE t[k + 1 + n] = m[n + 1]
    OBVIOUS
  <2>1. n + 1 \in 1..e /\ k + (n + 1) = k + 1 + n
    BY <1>4
  <2> QED BY <1>2, <2>1
<1>7. MessageAt(t, k + 1)
  <2>1. m[1] = INVITE => \A n \in 1..9 : m[1 + n] \in Squares
    BY DEF IsMessage, MessageAt
  <2>2. m[1] = INVITE => \A n \in 1..9 : t[(k + 1) + n] \in Squares
    BY <1>6, <2>1
  <2>3. m[1] = WELCOME => t[(k + 1) + 1] \in {X, O}
    BY <1>3, <1>5 DEF IsMessage, MessageAt
  <2> QED BY <1>1, <1>2, <1>3, <2>2, <2>3 DEF MessageAt
<1>8. PromptsAt(t, k + 1) <=> PromptsAt(m, 1)
  BY <1>3, <1>5 DEF PromptsAt
<1>9. ASSUME NEW i \in starts, i <= k
      PROVE  /\ t[i] = s[i] /\ MessageAt(t, i) /\ i + Extent(t[i]) \in starts
             /\ (PromptsAt(t, i) <=> PromptsAt(s, i))
  <2>1. i \in 1..k /\ MessageAt(s, i) /\ i + Extent(s[i]) \in starts
    BY <1>9 DEF Framed
  <2>2. s[i] \in Codes /\ Extent(s[i]) \in {1, 2, 10} /\ i + Extent(s[i]) <= k + 1
    BY <2>1, Extents DEF MessageAt
  <2>3. t[i] = s[i]
    BY <1>2, <2>1
  <2>4. s[i] = WELCOME => i + 1 \in 1..k /\ t[i + 1] = s[i + 1]
    <3>1. s[i] = WELCOME => i + 2 <= k + 1
      BY <2>2, Extents
    <3> QED BY <1>2, <2>1, <3>1
  <2>5. s[i] = INVITE => \A n \in 1..9 : t[i + n] = s[i + n]
    <3>1. s[i] = INVITE => i + 10 <= k + 1
      BY <2>2, Extents
    <3>2. s[i] = INVITE => \A n \in 1..9 : i + n \in 1..k
      BY <2>1, <3>1
    <3> QED BY <1>2, <3>2
  <2>6. i + Extent(t[i]) <= Len(t) + 1
    BY <1>2, <2>1, <2>2, <2>3
  <2>7. PromptsAt(t, i) <=> PromptsAt(s, i)
    BY <2>3, <2>4 DEF PromptsAt
  <2>8. MessageAt(t, i)
    BY <2>1, <2>2, <2>3, <2>4, <2>5, <2>6 DEF MessageAt
  <2> QED BY <2>1, <2>3, <2>7, <2>8
<1>10. Framed(t, starts \cup {Len(t) + 1})
  <2> DEFINE T == starts \cup {Len(t) + 1}
  <2>1. \A i \in starts : i \in 1..(k + 1)
    BY DEF Framed
  <2>2. 1 \in T /\ Len(t) + 1 \in T /\ \A i \in T : i \in 1..(Len(t) + 1)
    BY <1>2, <2>1 DEF Framed
  <2>3. ASSUME NEW i \in T, i <= Len(t) PROVE MessageAt(t, i) /\ i + Extent(t[i]) \in T
    <3>1. i \in starts
      BY <1>2, <2>3
    <3>2. CASE i <= k
      BY <1>9, <3>1, <3>2
    <3>3. CASE i = k + 1
      <4>1. i + Extent(t[i]) = Len(t) + 1
        BY <1>2, <1>3, <3>3
      <4> QED BY <1>7, <3>3, <4>1
    <3> QED BY <2>1, <3>1, <3>2, <3>3
  <2> QED BY <2>2, <2>3 DEF Framed
<1>11. \A i \in starts : i <= Len(s) => t[i] = s[i] /\ (PromptsAt(t, i) <=> PromptsAt(s, i))
  BY <1>9
<1>12. t[Len(s) + 1] = m[1] /\ (PromptsAt(t, Len(s) + 1) <=> PromptsAt(m, 1))
  BY <1>3, <1>8
<1>13. Len(s) + 1 + Extent(m[1]) = Len(t) + 1
  BY <1>2
<1>14. \A n \in 1..9 : m[1] = INVITE => t[Len(s) + 1 + n] = m[n + 1]
  BY <1>6
<1> QED BY ONLY <1>10, <1>11, <1>12, <1>13, <1>14

\* The starts that are left when the first n bytes are gone.
After(starts, n, s) == {i \in 1..(Len(s) - n + 1) : i + n \in starts}

\* A stream stays framed when its first message is received.
LEMMA DropFramed ==
  ASSUME NEW s \in Streams, NEW starts, Framed(s, starts), s # << >>, NEW t,
         Dropped(s, Extent(s[1]), t)
  PROVE  /\ Extent(s[1]) \in {1, 2, 10} /\ Extent(s[1]) <= Len(s) /\ s[1] \in Codes
         /\ Framed(t, After(starts, Extent(s[1]), s))
         /\ \A i \in After(starts, Extent(s[1]), s) : i <= Len(t) =>
              t[i] = s[i + Extent(s[1])] /\ (PromptsAt(t, i) <=> PromptsAt(s, i + Extent(s[1])))
<1> PICK k \in Nat : k = Len(s)
  BY DEF Streams
<1>1. k >= 1
  BY DEF Streams
<1>2. MessageAt(s, 1) /\ 1 + Extent(s[1]) \in starts /\ \A i \in starts : i \in 1..(k + 1)
  BY <1>1 DEF Framed
<1>3. s[1] \in Codes /\ Extent(s[1]) \in {1, 2, 10}
  BY <1>2, Extents DEF MessageAt
<1> PICK e \in {1, 2, 10} : e = Extent(s[1])
  BY <1>3
<1>4. e <= k /\ Len(t) = k - e /\ \A i \in 1..(k - e) : t[i] = s[i + e]
  BY <1>2 DEF Dropped
<1> DEFINE T == After(starts, e, s)
<1>5. \A i \in T : i \in 1..(k - e + 1) /\ i + e \in starts
  BY DEF After
<1>6. ASSUME NEW i \in T, i <= k - e
      PROVE  /\ t[i] = s[i + e] /\ MessageAt(t, i) /\ i + Extent(t[i]) \in T
             /\ (PromptsAt(t, i) <=> PromptsAt(s, i + e))
  <2>1. i \in 1..(k - e) /\ i + e \in starts /\ i + e <= k
    BY <1>5, <1>6
  <2>2. MessageAt(s, i + e) /\ (i + e) + Extent(s[i + e]) \in starts
    BY <2>1 DEF Framed
  <2>3. s[i + e] \in Codes /\ (i + e) + Extent(s[i + e]) <= k + 1
    BY <2>2 DEF MessageAt
  <2> PICK x \in {1, 2, 10} : x = Extent(s[i + e])
    BY <2>3, Extents
  <2>4. t[i] = s[i + e]
    BY <1>4, <2>1
  <2>5. s[i + e] = WELCOME => t[i + 1] = s[(i + e) + 1]
    <3>1. s[i + e] = WELCOME => x = 2
      BY Extents
    <3>2. s[i + e] = WELCOME => i + 1 \in 1..(k - e) /\ (i + 1) + e = (i + e) + 1
      BY <2>1, <2>3, <3>1
    <3> QED BY <1>4, <3>2
  <2>6. s[i + e] = INVITE => \A n \in 1..9 : t[i + n] = s[(i + e) + n]
    <3>1. s[i + e] = INVITE => x = 10
      BY Extents
    <3>2. s[i + e] = INVITE => \A n \in 1..9 : i + n \in 1..(k - e) /\ (i + n) + e = (i + e) + n
      BY <2>1, <2>3, <3>1
    <3> QED BY <1>4, <3>2
  <2>7. i + x \in T
    <3>0. i \in Nat /\ e \in Nat /\ x \in Nat /\ i >= 1 /\ (i + e) + x <= k + 1
      BY <2>1, <2>3
    <3>1. i + x \in 1..(k - e + 1) /\ (i + x) + e = (i + e) + x
      BY ONLY <3>0, k \in Nat
    <3> QED BY <2>2, <3>1 DEF After
  <2>8. PromptsAt(t, i) <=> PromptsAt(s, i + e)
    BY <2>4, <2>5 DEF PromptsAt
  <2>9. MessageAt(t, i)
    <3>1. i + x <= Len(t) + 1
      BY <1>4, <2>1, <2>3
    <3> QED BY <2>2, <2>3, <2>4, <2>5, <2>6, <3>1 DEF MessageAt
  <2> QED BY <2>4, <2>7, <2>8, <2>9
<1>7. Framed(t, T)
  <2>1. 1 \in T
    BY <1>2, <1>4 DEF After
  <2>2. Len(t) + 1 \in T
    <3>1. k + 1 \in starts
      BY DEF Framed
    <3> QED BY <1>4, <3>1 DEF After
  <2> QED BY <1>4, <1>5, <1>6, <2>1, <2>2 DEF Framed
<1> QED BY <1>3, <1>4, <1>6, <1>7

-----------------------------------------------------------------------------
(* The server.                                                             *)

Ids == {ACCEPT_PLAYER_X, ACCEPT_PLAYER_O, READY, WAIT, VALIDATE, GAMEOVER}

\* The rows of the table that are used.
LEMMA RowsFound ==
  /\ FsmTransition(FirstTable, FSM_INIT, ACCEPT_PLAYER_X) = "server_on"
  /\ FsmTransition(FirstTable, ACCEPT_PLAYER_X, ACCEPT_PLAYER_O) = "connect_player_o"
  /\ FsmTransition(FirstTable, ACCEPT_PLAYER_O, READY) = "send_assignment"
  /\ FsmTransition(FirstTable, READY, WAIT) = "waiting_for_client"
  /\ FsmTransition(FirstTable, WAIT, VALIDATE) = "validate_input"
  /\ FsmTransition(FirstTable, WAIT, WAIT) = "waiting_for_client"
  /\ FsmTransition(FirstTable, VALIDATE, WAIT) = "send_response_to_client"
  /\ FsmTransition(FirstTable, VALIDATE, GAMEOVER) = "game_over"
  /\ FsmTransition(FirstTable, GAMEOVER, READY) = "send_assignment"
  /\ FsmTransition(FirstTable, WAIT, ACCEPT_PLAYER_O) = "connect_player_o"
<1> USE DEF FSM_INIT, FSM_EXIT, ACCEPT_PLAYER_X, ACCEPT_PLAYER_O, READY, WAIT, VALIDATE, GAMEOVER,
            ERROR
<1> DEFINE rows == FirstTable
<1>1. /\ Len(rows) = 14
      /\ rows[1] = Row(0, 1, "server_on") /\ rows[2] = Row(1, 8, "terminate")
      /\ rows[3] = Row(1, 2, "connect_player_o") /\ rows[4] = Row(2, 3, "send_assignment")
      /\ rows[5] = Row(3, 4, "waiting_for_client") /\ rows[6] = Row(4, 1, "terminate")
      /\ rows[7] = Row(4, 5, "validate_input") /\ rows[8] = Row(4, 4, "waiting_for_client")
      /\ rows[9] = Row(5, 4, "send_response_to_client")
      /\ rows[10] = Row(5, 3, "waiting_for_client")
      /\ rows[11] = Row(5, 7, "game_over") /\ rows[12] = Row(7, 1, "terminate")
      /\ rows[13] = Row(7, 3, "send_assignment") /\ rows[14] = Row(4, 2, "connect_player_o")
  BY DEF FirstTable
<1> HIDE DEF rows
<1>2. ASSUME NEW n \in 1..14, NEW from, NEW to, NEW handler,
             rows[n] = Row(from, to, handler),
             \A j \in 1..(n - 1) : ~IsRow(rows[j], from, to)
      PROVE  FsmTransition(rows, from, to) = handler
  <2>1. IsRow(rows[n], from, to) /\ rows[n].perform = handler
    BY <1>2 DEF IsRow, Row
  <2>2. n \in 1..Len(rows) /\ Len(rows) \in Nat
    BY <1>1
  <2>3. \A j \in 1..(n - 1) : ~IsRow(rows[j], from, to)
    BY <1>2
  <2>4. FsmTransition(rows, from, to) = rows[n].perform
    BY ONLY <2>1, <2>2, <2>3, FirstRow
  <2> QED BY <2>1, <2>4
<1>5. FsmTransition(rows, 0, 1) = "server_on"
  <2>1. \A j \in 1..(1 - 1) : ~IsRow(rows[j], 0, 1)
    BY <1>1 DEF IsRow, Row
  <2> QED BY <1>1, <1>2, <2>1
<1>6. FsmTransition(rows, 1, 2) = "connect_player_o"
  <2>1. \A j \in 1..(3 - 1) : ~IsRow(rows[j], 1, 2)
    BY <1>1 DEF IsRow, Row
  <2> QED BY <1>1, <1>2, <2>1
<1>7. FsmTransition(rows, 2, 3) = "send_assignment"
  <2>1. \A j \in 1..(4 - 1) : ~IsRow(rows[j], 2, 3)
    BY <1>1 DEF IsRow, Row
  <2> QED BY <1>1, <1>2, <2>1
<1>8. FsmTransition(rows, 3, 4) = "waiting_for_client"
  <2>1. \A j \in 1..(5 - 1) : ~IsRow(rows[j], 3, 4)
    BY <1>1 DEF IsRow, Row
  <2> QED BY <1>1, <1>2, <2>1
<1>9. FsmTransition(rows, 4, 5) = "validate_input"
  <2>1. \A j \in 1..(7 - 1) : ~IsRow(rows[j], 4, 5)
    BY <1>1 DEF IsRow, Row
  <2> QED BY <1>1, <1>2, <2>1
<1>10. FsmTransition(rows, 4, 4) = "waiting_for_client"
  <2>1. \A j \in 1..(8 - 1) : ~IsRow(rows[j], 4, 4)
    BY <1>1 DEF IsRow, Row
  <2> QED BY <1>1, <1>2, <2>1
<1>11. FsmTransition(rows, 5, 4) = "send_response_to_client"
  <2>1. \A j \in 1..(9 - 1) : ~IsRow(rows[j], 5, 4)
    BY <1>1 DEF IsRow, Row
  <2> QED BY <1>1, <1>2, <2>1
<1>12. FsmTransition(rows, 5, 7) = "game_over"
  <2>1. \A j \in 1..(11 - 1) : ~IsRow(rows[j], 5, 7)
    BY <1>1 DEF IsRow, Row
  <2> QED BY <1>1, <1>2, <2>1
<1>13. FsmTransition(rows, 7, 3) = "send_assignment"
  <2>1. \A j \in 1..(13 - 1) : ~IsRow(rows[j], 7, 3)
    BY <1>1 DEF IsRow, Row
  <2> QED BY <1>1, <1>2, <2>1
<1>14. FsmTransition(rows, 4, 2) = "connect_player_o"
  <2>1. \A j \in 1..(14 - 1) : ~IsRow(rows[j], 4, 2)
    BY <1>1 DEF IsRow, Row
  <2> QED BY <1>1, <1>2, <2>1
<1> QED BY <1>5, <1>6, <1>7, <1>8, <1>9, <1>10, <1>11, <1>12, <1>13, <1>14 DEF rows

\* The handler about to run and the id fsm_run holds belong together.
Paired ==
  \/ perform = "server_on" /\ to_id = ACCEPT_PLAYER_X
  \/ perform = "connect_player_o" /\ to_id = ACCEPT_PLAYER_O
  \/ perform = "send_assignment" /\ to_id = READY
  \/ perform = "waiting_for_client" /\ to_id = WAIT
  \/ perform = "validate_input" /\ to_id = VALIDATE
  \/ perform = "send_response_to_client" /\ to_id = WAIT
  \/ perform = "game_over" /\ to_id = GAMEOVER

\* X's seat is taken when O's is offered, and then has the turn; both are taken, by two
\* clients one of whom has the turn, in a game.
Seated ==
  /\ perform # "server_on" => env.fd_client_X \in 1..accepted
  /\ perform = "connect_player_o" => env.fd_current_player = env.fd_client_X
  /\ perform \notin {"server_on", "connect_player_o"} =>
       /\ env.fd_client_O \in 1..accepted /\ env.fd_client_O # env.fd_client_X
       /\ env.fd_current_player \in {env.fd_client_X, env.fd_client_O}

\* The ninth move that is counted ends the game before it is answered.
Counted ==
  perform = "send_response_to_client" /\ env.response_type = ACCEPTED => env.play_count # 9

Matched ==
  env.current_player = IF env.fd_current_player = env.fd_client_X THEN X ELSE O

\* The next mark is that of the seat whose turn it is, or, since O left, O, until the
\* first move is made.
Marked ==
  perform # "server_on" =>
    \/ Matched
    \/ /\ ~NobodyHasLeft /\ env.current_player = O
       /\ perform \in {"waiting_for_client", "validate_input"} => IsBlank
       /\ perform = "send_response_to_client" /\ env.response_type = INVALID => IsBlank

ServerInv ==
  /\ env \in GameEnvs
  /\ Paired
  /\ status \in {"running", "dead"}
  /\ accepted \in 0..MaxClients
  /\ peer \in [Clients -> PeerStates]
  /\ \A c \in 1..accepted : peer[c] # "none"
  /\ \A c \in Clients : to_server[c] \in Seq(Keys[c])
  /\ Seated
  /\ Counted
  /\ Marked

\* Sending connects nobody, and nobody leaves by it.
LEMMA SendingKeeps ==
  ASSUME NEW p \in [Clients -> PeerStates], NEW msgs
  PROVE  /\ AfterSending(p, msgs) \in [Clients -> PeerStates]
         /\ \A c \in Clients : /\ HasLeft(AfterSending(p, msgs), c) <=> HasLeft(p, c)
                               /\ AfterSending(p, msgs)[c] = "none" <=> p[c] = "none"
                               /\ AfterSending(p, msgs)[c] = "open" <=> p[c] = "open"
BY DEF AfterSending, HasLeft, PeerStates

\* A square is marked or not.
LEMMA CheckBoardResult ==
  ASSUME NEW e \in GameEnvs, IsDigit(e.one_byte)
  PROVE  /\ CheckBoard(e) \in GameEnvs
         /\ CheckBoard(e).current_player = e.current_player
         /\ CheckBoard(e).fd_current_player = e.fd_current_player
         /\ CheckBoard(e).fd_client_X = e.fd_client_X
         /\ CheckBoard(e).fd_client_O = e.fd_client_O
         /\ CheckBoard(e).play_count = e.play_count
         /\ CheckBoard(e).response_type = INVALID => CheckBoard(e) = [e EXCEPT !.response_type = INVALID]
         /\ e.game_board = BlankBoard => CheckBoard(e).response_type = ACCEPTED
<1> DEFINE position == e.one_byte - OFFSET
<1>1. e.one_byte \in Int /\ position \in Cells
  BY DEF GameEnvs, IsDigit, OFFSET, LOWER_0, UPPER_8, Cells
<1>2. ACCEPTED # INVALID
  BY DEF ACCEPTED, INVALID
<1> HIDE DEF position
<1>3. CASE e.game_board[position] = BLANK_SPACE
  <2> DEFINE board == [e.game_board EXCEPT ![position] = e.current_player]
  <2>1. board \in [Cells -> {X, O, BLANK_SPACE}]
    BY <1>1 DEF GameEnvs
  <2>2. CheckBoard(e) = [e EXCEPT !.game_board = board, !.response_type = ACCEPTED]
    BY <1>3 DEF CheckBoard, position, GameEnvs
  <2> HIDE DEF board
  <2> QED BY <1>2, <2>1, <2>2 DEF GameEnvs
<1>4. CASE e.game_board[position] # BLANK_SPACE
  <2>1. CheckBoard(e) = [e EXCEPT !.response_type = INVALID]
    BY <1>4 DEF CheckBoard, position
  <2>2. e.game_board # BlankBoard
    BY <1>1, <1>4 DEF BlankBoard
  <2> QED BY <2>1, <2>2 DEF GameEnvs
<1> QED BY <1>3, <1>4

\* The turn passes to the other seat, with the mark of that seat.
LEMMA SwitchResult ==
  ASSUME NEW e \in GameEnvs, e.play_count # 9, e.fd_current_player \in {e.fd_client_X, e.fd_client_O},
         e.fd_client_X # e.fd_client_O
  PROVE  /\ SwitchPlayers(e) \in GameEnvs
         /\ SwitchPlayers(e).fd_client_X = e.fd_client_X
         /\ SwitchPlayers(e).fd_client_O = e.fd_client_O
         /\ SwitchPlayers(e).fd_current_player \in {e.fd_client_X, e.fd_client_O}
         /\ SwitchPlayers(e).fd_current_player # e.fd_current_player
         /\ SwitchPlayers(e).current_player
              = IF SwitchPlayers(e).fd_current_player = e.fd_client_X THEN X ELSE O
         /\ SwitchPlayers(e).game_board = e.game_board
         /\ SwitchPlayers(e).one_byte = e.one_byte
<1> DEFINE f == [e EXCEPT !.play_count = @ + 1]
<1>1. e.play_count + 1 \in 0..9
  BY DEF GameEnvs
<1>2. /\ f \in GameEnvs /\ f.fd_current_player = e.fd_current_player
      /\ f.fd_client_X = e.fd_client_X /\ f.fd_client_O = e.fd_client_O
      /\ f.game_board = e.game_board /\ f.one_byte = e.one_byte
  BY <1>1 DEF GameEnvs
<1>3. SwitchPlayers(e) = IF e.fd_current_player = e.fd_client_X
                           THEN [f EXCEPT !.fd_current_player = f.fd_client_O, !.current_player = O]
                           ELSE [f EXCEPT !.fd_current_player = f.fd_client_X, !.current_player = X]
  BY <1>2 DEF SwitchPlayers
<1> HIDE DEF f
<1>4. ASSUME NEW fd \in {f.fd_client_X, f.fd_client_O}, NEW mark \in {X, O}
      PROVE  LET g == [f EXCEPT !.fd_current_player = fd, !.current_player = mark]
             IN  /\ g \in GameEnvs /\ g.fd_client_X = e.fd_client_X
                 /\ g.fd_client_O = e.fd_client_O /\ g.fd_current_player = fd
                 /\ g.current_player = mark /\ g.game_board = e.game_board
                 /\ g.one_byte = e.one_byte
  BY <1>2 DEF GameEnvs
<1> QED BY <1>2, <1>3, <1>4

\* What a step of the server leaves.
LEMMA Left ==
  ASSUME peer \in [Clients -> PeerStates], NEW r, NEW handler, Leaves(r),
         FsmTransition(FirstTable, to_id, r.ret) = handler
  PROVE  /\ to_id' = r.ret /\ perform' = handler
         /\ env' = IF handler = "waiting_for_client" THEN [r.env EXCEPT !.one_byte = 0] ELSE r.env
         /\ status' \in {"running", "dead"}
         /\ peer' \in [Clients -> PeerStates]
         /\ \A c \in Clients : /\ HasLeft(peer', c) <=> HasLeft(peer, c)
                               /\ peer'[c] = "none" <=> peer[c] = "none"
                               /\ peer'[c] = "open" <=> peer[c] = "open"
         /\ NobodyHasLeft' <=> NobodyHasLeft
<1>1. peer' = AfterSending(peer, r.out)
  BY DEF Leaves
<1>2. /\ peer' \in [Clients -> PeerStates]
      /\ \A c \in Clients : /\ HasLeft(peer', c) <=> HasLeft(peer, c)
                            /\ peer'[c] = "none" <=> peer[c] = "none"
                            /\ peer'[c] = "open" <=> peer[c] = "open"
  BY <1>1, SendingKeeps
<1>3. NobodyHasLeft' <=> NobodyHasLeft
  BY <1>2 DEF NobodyHasLeft
<1>4. /\ to_id' = r.ret /\ perform' = handler
      /\ env' = IF handler = "waiting_for_client" THEN [r.env EXCEPT !.one_byte = 0] ELSE r.env
      /\ status' \in {"running", "dead"}
  BY DEF Leaves, Entered
<1> QED BY <1>2, <1>3, <1>4

\* What the server holds at first.
LEMMA ServerInit == Init => ServerInv
<1> SUFFICES ASSUME Init PROVE ServerInv
  OBVIOUS
<1>1. env \in GameEnvs
  BY DEF Init, NewEnv, GameEnvs, BlankBoard
<1>2. to_id = ACCEPT_PLAYER_X /\ perform = "server_on"
  BY RowsFound DEF Init
<1>3. accepted = 0 /\ accepted \in 0..MaxClients
  BY MaxClientsAssumption DEF Init
<1>4. peer \in [Clients -> PeerStates]
  BY DEF Init, PeerStates
<1>5. \A c \in Clients : to_server[c] \in Seq(Keys[c])
  BY DEF Init
<1>6. status \in {"running", "dead"}
  BY DEF Init
<1>7. \A c \in 1..accepted : peer[c] # "none"
  BY <1>3
<1> QED BY <1>1, <1>2, <1>3, <1>4, <1>5, <1>6, <1>7 DEF ServerInv, Paired, Seated, Counted, Marked

\* Bytes that users type.
LEMMA KeysAreBytes == \A c \in Clients : \A byte \in Keys[c] : byte \in 1..127
BY KeysAssumption

\* A client's step does not touch the server.
LEMMA ServerClientStep ==
  ASSUME ServerInv, NEW c \in Clients, ClientStep(c)
  PROVE  ServerInv'
<1> USE DEF ServerInv
<1>1. UNCHANGED server
  BY DEF ClientStep, Connect, Receive, Type, Leave
<1>2. \A d \in Clients : to_server'[d] \in Seq(Keys[d])
  <2>1. CASE Connect(c) \/ Receive(c) \/ Leave(c)
    BY <2>1 DEF Connect, Receive, Leave
  <2>2. ASSUME NEW byte \in Keys[c], Type(c, byte) PROVE \A d \in Clients : to_server'[d] \in Seq(Keys[d])
    <3>1. to_server' = [to_server EXCEPT ![c] = Append(to_server[c], byte)]
      BY <2>2 DEF Type
    <3>2. Append(to_server[c], byte) \in Seq(Keys[c])
      <4>1. to_server[c] \in Seq(Keys[c]) /\ byte \in Keys[c]
        OBVIOUS
      <4>2. \A S : \A s \in Seq(S), b \in S : Append(s, b) \in Seq(S)
        OBVIOUS
      <4> QED BY ONLY <4>1, <4>2
    <3>3. \A d \in Clients : to_server'[d] \in {to_server[d], Append(to_server[c], byte)}
                             /\ (d # c => to_server'[d] = to_server[d])
      <4> HIDE DEF ServerInv
      <4> SUFFICES ASSUME NEW d \in Clients
                   PROVE  to_server'[d] \in {to_server[d], Append(to_server[c], byte)}
                          /\ (d # c => to_server'[d] = to_server[d])
        OBVIOUS
      <4> QED BY <3>1
    <3> QED BY <3>2, <3>3
  <2> QED BY <2>1, <2>2 DEF ClientStep
<1>3. /\ peer' \in [Clients -> PeerStates]
      /\ \A d \in Clients : peer[d] # "none" => peer'[d] # "none"
      /\ \A d \in Clients : HasLeft(peer, d) => HasLeft(peer', d)
  <2>0. \A p \in {peer, [peer EXCEPT ![c] = "open"], [peer EXCEPT ![c] = "closed"]} :
          /\ p \in [Clients -> PeerStates]
          /\ \A d \in Clients : peer[d] # "none" => p[d] # "none"
    BY DEF PeerStates
  <2>1. peer' \in {peer, [peer EXCEPT ![c] = "closed"]} \/ (peer[c] = "none" /\ peer' = [peer EXCEPT ![c] = "open"])
    BY DEF ClientStep, Connect, Receive, Type, Leave, ClientBecomes
  <2>2. \A d \in Clients : HasLeft(peer, d) => HasLeft(peer', d)
    BY <2>1 DEF HasLeft
  <2> QED BY <2>0, <2>1, <2>2
<1>4. \A d \in 1..accepted : d \in Clients
  BY MaxClientsAssumption DEF Clients
<1>5. (\A d \in 1..accepted : peer[d] # "none")'
  BY <1>1, <1>3, <1>4 DEF server
<1>6. ~NobodyHasLeft => ~NobodyHasLeft'
  BY <1>3 DEF NobodyHasLeft
<1>7. Marked'
  BY <1>1, <1>6 DEF server, Marked, Matched, IsBlank
<1>8. Paired' /\ Seated' /\ Counted'
  BY <1>1 DEF server, Paired, Seated, Counted
<1> QED BY <1>1, <1>2, <1>3, <1>5, <1>7, <1>8 DEF server

\* The clients that are seated have been accepted.
LEMMA SeatsAreClients ==
  ASSUME accepted \in 0..MaxClients
  PROVE  \A c \in 1..accepted : c \in Clients /\ c # 0
BY MaxClientsAssumption DEF Clients

\* What is the same in every step that ends with this result, and has not read or
\* accepted anything.
LEMMA StaysTyped ==
  ASSUME ServerInv, NEW r, Leaves(r)
  PROVE  /\ status' \in {"running", "dead"} /\ peer' \in [Clients -> PeerStates]
         /\ \A c \in 1..accepted : peer'[c] # "none"
         /\ NobodyHasLeft' <=> NobodyHasLeft
<1>1. \A c \in 1..accepted : c \in Clients
  BY SeatsAreClients DEF ServerInv
<1> QED BY <1>1, Left DEF ServerInv

\* server_on.
LEMMA ServerAcceptsX ==
  ASSUME ServerInv, NEW c \in Clients, AcceptX(c)
  PROVE  ServerInv'
<1> DEFINE e == [env EXCEPT !.fd_client_X = c, !.fd_current_player = c, !.current_player = X]
           r == ServerOn(env, c)
<1>1. perform = "server_on" /\ to_id = ACCEPT_PLAYER_X /\ Leaves(r) /\ c = accepted + 1
      /\ peer[c] # "none" /\ accepted' = c /\ to_server' = to_server
  BY DEF AcceptX, Accepts, Dispatches, ServerInv, Paired
<1>2. r.ret = ACCEPT_PLAYER_O /\ r.env = e
  BY DEF ServerOn, Result
<1>3. e \in GameEnvs /\ e.fd_client_X = c /\ e.fd_current_player = c /\ e.current_player = X
  BY DEF ServerInv, GameEnvs
<1> HIDE DEF r, e
<1>4. to_id' = ACCEPT_PLAYER_O /\ perform' = "connect_player_o" /\ env' = e
      /\ \A d \in Clients : peer'[d] = "none" <=> peer[d] = "none"
  BY <1>1, <1>2, RowsFound, Left DEF ServerInv
<1>5. accepted' \in 0..MaxClients /\ c \in 1..accepted' /\ \A d \in 1..accepted' : d \in Clients /\ peer'[d] # "none"
  <2>1. \A d \in 1..c : d \in 1..accepted \/ d = c
    BY <1>1 DEF ServerInv
  <2> QED BY <1>1, <1>4, <2>1, SeatsAreClients, MaxClientsAssumption DEF ServerInv, Clients
<1>6. Seated'
  BY <1>3, <1>4, <1>5 DEF Seated
<1>7. Marked' /\ Counted' /\ Paired'
  BY <1>3, <1>4 DEF Marked, Matched, Counted, Paired
<1>8. \A d \in Clients : to_server'[d] \in Seq(Keys[d])
  BY <1>1 DEF ServerInv
<1> QED BY <1>1, <1>3, <1>4, <1>5, <1>6, <1>7, <1>8, StaysTyped DEF ServerInv

\* connect_player_o.
LEMMA ServerAcceptsO ==
  ASSUME ServerInv, NEW c \in Clients, AcceptO(c)
  PROVE  ServerInv'
<1> DEFINE e == [env EXCEPT !.fd_client_O = c]
           r == ConnectPlayerO(env, c)
<1>1. perform = "connect_player_o" /\ to_id = ACCEPT_PLAYER_O /\ Leaves(r) /\ c = accepted + 1
      /\ peer[c] # "none" /\ accepted' = c /\ to_server' = to_server
  BY DEF AcceptO, Accepts, Dispatches, ServerInv, Paired
<1>2. r.ret = READY /\ r.env = e
  BY DEF ConnectPlayerO, Result
<1>3. /\ e \in GameEnvs /\ e.fd_client_O = c /\ e.fd_client_X = env.fd_client_X
      /\ e.fd_current_player = env.fd_current_player /\ e.current_player = env.current_player
  BY DEF ServerInv, GameEnvs
<1> HIDE DEF r, e
<1>4. to_id' = READY /\ perform' = "send_assignment" /\ env' = e
      /\ \A d \in Clients : peer'[d] = "none" <=> peer[d] = "none"
  BY <1>1, <1>2, RowsFound, Left DEF ServerInv
<1>5. accepted' \in 0..MaxClients /\ c \in 1..accepted' /\ \A d \in 1..accepted' : d \in Clients /\ peer'[d] # "none"
  <2>1. \A d \in 1..c : d \in 1..accepted \/ d = c
    BY <1>1 DEF ServerInv
  <2> QED BY <1>1, <1>4, <2>1, SeatsAreClients, MaxClientsAssumption DEF ServerInv, Clients
<1>6. env.fd_client_X \in 1..accepted /\ env.fd_current_player = env.fd_client_X
  BY <1>1 DEF ServerInv, Seated
<1>7. env.fd_client_X \in 1..accepted' /\ env.fd_client_X # c
  BY <1>1, <1>6 DEF ServerInv
<1>8. Seated'
  BY <1>3, <1>4, <1>5, <1>6, <1>7 DEF Seated
<1>9. Marked'
  <2>1. Matched \/ (~NobodyHasLeft /\ env.current_player = O)
    BY <1>1 DEF ServerInv, Marked
  <2>2. Matched => Matched'
    BY <1>3, <1>4 DEF Matched
  <2>3. NobodyHasLeft' <=> NobodyHasLeft
    BY <1>1, StaysTyped
  <2> QED BY <1>3, <1>4, <2>1, <2>2, <2>3 DEF Marked
<1>10. Counted' /\ Paired'
  BY <1>4 DEF Counted, Paired
<1>11. \A d \in Clients : to_server'[d] \in Seq(Keys[d])
  BY <1>1 DEF ServerInv
<1> QED BY <1>1, <1>3, <1>4, <1>5, <1>8, <1>9, <1>10, <1>11, StaysTyped DEF ServerInv

\* What is left of a stream when its first byte has been read.
LEMMA ReadKeepsTypes ==
  ASSUME ServerInv, NEW c \in Clients, to_server[c] # << >>,
         to_server' = [to_server EXCEPT ![c] = Tail(@)]
  PROVE  /\ \A d \in Clients : to_server'[d] \in Seq(Keys[d])
         /\ Head(to_server[c]) \in 1..127
<1>1. \A S : \A s \in Seq(S) : s # << >> => Head(s) \in S /\ Tail(s) \in Seq(S)
  OBVIOUS
<1>2. to_server[c] \in Seq(Keys[c])
  BY DEF ServerInv
<1>3. Head(to_server[c]) \in Keys[c] /\ Tail(to_server[c]) \in Seq(Keys[c])
  BY ONLY <1>1, <1>2, to_server[c] # << >>
<1>4. Head(to_server[c]) \in 1..127
  BY <1>3, KeysAreBytes
<1>5. \A d \in Clients : to_server[d] \in Seq(Keys[d])
  BY DEF ServerInv
<1>6. ASSUME NEW d \in Clients PROVE to_server'[d] \in Seq(Keys[d])
  <2>1. \/ to_server'[d] = to_server[d]
        \/ d = c /\ to_server'[d] = Tail(to_server[c])
        \/ d \notin DOMAIN to_server
    BY ONLY to_server' = [to_server EXCEPT ![c] = Tail(@)]
  <2>2. DOMAIN to_server' = DOMAIN to_server
    OBVIOUS
  <2> QED BY <1>3, <1>5, <2>1
<1> QED BY <1>4, <1>6

\* A byte is kept.
LEMMA ByteEnv ==
  ASSUME NEW e \in GameEnvs, NEW byte \in 0..127
  PROVE  LET f == [e EXCEPT !.one_byte = byte]
         IN  /\ f \in GameEnvs /\ f.current_player = e.current_player
             /\ f.fd_current_player = e.fd_current_player
             /\ f.fd_client_X = e.fd_client_X /\ f.fd_client_O = e.fd_client_O
             /\ f.game_board = e.game_board /\ f.response_type = e.response_type
BY DEF GameEnvs

\* waiting_for_client, when a byte comes.
LEMMA ServerReadsByte ==
  ASSUME ServerInv, NEW c \in Clients, ReadByte(c)
  PROVE  ServerInv'
<1>2. Head(to_server[c]) \in 1..127 /\ \A d \in Clients : to_server'[d] \in Seq(Keys[d])
  BY ReadKeepsTypes DEF ReadByte
<1> PICK byte \in 1..127 : byte = Head(to_server[c])
  BY <1>2
<1> DEFINE e == [env EXCEPT !.one_byte = byte]
           r == WaitingForClient(env, byte)
<1>1. perform = "waiting_for_client" /\ to_id = WAIT /\ Leaves(r) /\ accepted' = accepted
  BY DEF ReadByte, Dispatches, ServerInv, Paired
<1>3. r.ret = VALIDATE /\ r.env = e
  BY DEF WaitingForClient, Result
<1>4. /\ e \in GameEnvs /\ e.fd_client_O = env.fd_client_O /\ e.fd_client_X = env.fd_client_X
      /\ e.fd_current_player = env.fd_current_player /\ e.current_player = env.current_player
      /\ e.game_board = env.game_board
  <2>1. env \in GameEnvs /\ byte \in 0..127
    BY DEF ServerInv
  <2> QED BY <2>1, ByteEnv
<1> HIDE DEF r, e
<1>5. to_id' = VALIDATE /\ perform' = "validate_input" /\ env' = e
  BY <1>1, <1>3, RowsFound, Left DEF ServerInv
<1>6. Seated'
  BY <1>1, <1>4, <1>5 DEF ServerInv, Seated
<1>7. Marked'
  <2>1. Matched \/ (~NobodyHasLeft /\ env.current_player = O /\ IsBlank)
    BY <1>1 DEF ServerInv, Marked
  <2>2. (Matched => Matched') /\ (IsBlank => IsBlank')
    BY <1>4, <1>5 DEF Matched, IsBlank
  <2>3. NobodyHasLeft' <=> NobodyHasLeft
    BY <1>1, StaysTyped
  <2> QED BY <1>4, <1>5, <2>1, <2>2, <2>3 DEF Marked
<1>8. Counted' /\ Paired'
  BY <1>5 DEF Counted, Paired
<1> QED BY <1>1, <1>2, <1>4, <1>5, <1>6, <1>7, <1>8, StaysTyped DEF ServerInv

\* waiting_for_client, when the player has left.
LEMMA ServerReadsEnd ==
  ASSUME ServerInv, NEW c \in Clients, ReadEnd(c)
  PROVE  ServerInv'
<1> DEFINE e == PlayerLost(env)
           r == WaitingForClient(env, 0)
<1>1. perform = "waiting_for_client" /\ to_id = WAIT /\ Leaves(r) /\ accepted' = accepted
      /\ to_server' = to_server /\ ~NobodyHasLeft
  BY DEF ReadEnd, Dispatches, ServerInv, Paired, NobodyHasLeft
<1>2. r.ret = ACCEPT_PLAYER_O /\ r.env = e
  BY DEF WaitingForClient, Result
<1>3. /\ env.fd_client_X \in 1..accepted /\ env.fd_client_O \in 1..accepted
      /\ env.fd_client_O # env.fd_client_X
      /\ env.fd_current_player \in {env.fd_client_X, env.fd_client_O}
  BY <1>1 DEF ServerInv, Seated
<1>4. /\ e \in GameEnvs /\ e.fd_client_X \in {env.fd_client_X, env.fd_client_O}
      /\ e.fd_current_player = e.fd_client_X
      /\ e.current_player = env.current_player
  BY <1>3 DEF PlayerLost, ServerInv, GameEnvs
<1> HIDE DEF r, e
<1>5. to_id' = ACCEPT_PLAYER_O /\ perform' = "connect_player_o" /\ env' = e
  BY <1>1, <1>2, RowsFound, Left DEF ServerInv
<1>6. Seated'
  BY <1>1, <1>3, <1>4, <1>5 DEF Seated
<1>7. Marked'
  <2>1. env.current_player \in {X, O}
    BY DEF ServerInv, GameEnvs
  <2>2. NobodyHasLeft' <=> NobodyHasLeft
    BY <1>1, StaysTyped
  <2> QED BY <1>1, <1>4, <1>5, <2>1, <2>2 DEF Marked, Matched
<1>8. Counted' /\ Paired'
  BY <1>5 DEF Counted, Paired
<1>9. \A d \in Clients : to_server'[d] \in Seq(Keys[d])
  BY <1>1 DEF ServerInv
<1> QED BY <1>1, <1>4, <1>5, <1>6, <1>7, <1>8, <1>9, StaysTyped DEF ServerInv

\* send_assignment.
LEMMA ServerAssigns ==
  ASSUME ServerInv, Runs("send_assignment", SendAssignment(env))
  PROVE  ServerInv'
<1> DEFINE f == [env EXCEPT !.game_board = BlankBoard]
           e == [f EXCEPT !.one_byte = 0]
           r == SendAssignment(env)
<1>1. perform = "send_assignment" /\ to_id = READY /\ Leaves(r) /\ accepted' = accepted
      /\ to_server' = to_server
  BY DEF Runs, Dispatches, ServerInv, Paired
<1>2. r.ret = WAIT /\ r.env = f
  BY DEF SendAssignment, Result
<1>3. /\ f \in GameEnvs /\ f.fd_client_O = env.fd_client_O /\ f.fd_client_X = env.fd_client_X
      /\ f.fd_current_player = env.fd_current_player /\ f.current_player = env.current_player
      /\ f.game_board = BlankBoard
  BY DEF ServerInv, GameEnvs, BlankBoard
<1> HIDE DEF r, f
<1>4. /\ e \in GameEnvs /\ e.fd_client_O = env.fd_client_O /\ e.fd_client_X = env.fd_client_X
      /\ e.fd_current_player = env.fd_current_player /\ e.current_player = env.current_player
      /\ e.game_board = BlankBoard
  <2>1. 0 \in 0..127
    OBVIOUS
  <2> HIDE DEF f
  <2> QED BY <2>1, <1>3, ByteEnv
<1> HIDE DEF e
<1>5. to_id' = WAIT /\ perform' = "waiting_for_client" /\ env' = e
  BY <1>1, <1>2, RowsFound, Left DEF ServerInv, e
<1>6. Seated'
  BY <1>1, <1>4, <1>5 DEF ServerInv, Seated
<1>7. Marked'
  <2>1. Matched \/ (~NobodyHasLeft /\ env.current_player = O)
    BY <1>1 DEF ServerInv, Marked
  <2>2. (Matched => Matched') /\ IsBlank'
    BY <1>4, <1>5 DEF Matched, IsBlank
  <2>3. NobodyHasLeft' <=> NobodyHasLeft
    BY <1>1, StaysTyped
  <2> QED BY <1>4, <1>5, <2>1, <2>2, <2>3 DEF Marked
<1>8. Counted' /\ Paired'
  BY <1>5 DEF Counted, Paired
<1>9. \A d \in Clients : to_server'[d] \in Seq(Keys[d])
  BY <1>1 DEF ServerInv
<1> QED BY <1>1, <1>4, <1>5, <1>6, <1>7, <1>8, <1>9, StaysTyped DEF ServerInv

\* What validate_input leaves: the same players and turn; a refused move changes nothing
\* else, and the ninth counted move does not go on.
LEMMA ValidateResult ==
  ASSUME NEW e \in GameEnvs
  PROVE  LET r == ValidateInput(e)
         IN  /\ r.env \in GameEnvs /\ r.out = << >> /\ r.ret \in {WAIT, GAMEOVER}
             /\ r.env.current_player = e.current_player
             /\ r.env.fd_current_player = e.fd_current_player
             /\ r.env.fd_client_X = e.fd_client_X /\ r.env.fd_client_O = e.fd_client_O
             /\ r.env.response_type = INVALID => r.env.game_board = e.game_board
             /\ r.ret = WAIT /\ r.env.response_type = ACCEPTED => r.env.play_count # 9
             /\ e.game_board = BlankBoard /\ r.ret = WAIT /\ r.env.response_type = INVALID
                  => r.env.game_board = BlankBoard
<1>1. ACCEPTED # INVALID /\ WAIT # GAMEOVER
  BY DEF ACCEPTED, INVALID, WAIT, GAMEOVER
<1>2. CASE ~IsDigit(e.one_byte)
  <2> DEFINE f == [e EXCEPT !.response_type = INVALID]
  <2>1. ValidateInput(e) = Result(f, << >>, WAIT)
    BY <1>2 DEF ValidateInput
  <2>2. /\ f \in GameEnvs /\ f.response_type = INVALID /\ f.current_player = e.current_player
        /\ f.fd_current_player = e.fd_current_player /\ f.fd_client_X = e.fd_client_X
        /\ f.fd_client_O = e.fd_client_O /\ f.game_board = e.game_board
    BY DEF GameEnvs
  <2> HIDE DEF f
  <2> QED BY <1>1, <2>1, <2>2 DEF Result
<1>3. CASE IsDigit(e.one_byte)
  <2> DEFINE f == CheckBoard(e)
  <2>1. ValidateInput(e) = CheckWin(f)
    BY <1>3 DEF ValidateInput
  <2>2. /\ f \in GameEnvs /\ f.current_player = e.current_player
        /\ f.fd_current_player = e.fd_current_player /\ f.fd_client_X = e.fd_client_X
        /\ f.fd_client_O = e.fd_client_O
        /\ f.response_type = INVALID => f = [e EXCEPT !.response_type = INVALID]
    BY <1>3, CheckBoardResult
  <2>3. f.response_type = INVALID => f.game_board = e.game_board
    BY <2>2 DEF GameEnvs
  <2> HIDE DEF f
  <2>4. /\ CheckWin(f).env = f /\ CheckWin(f).out = << >> /\ CheckWin(f).ret \in {WAIT, GAMEOVER}
        /\ CheckWin(f).ret = WAIT => f.play_count # 9
    BY <1>1 DEF CheckWin, Result, IsTie
  <2> QED BY <1>1, <2>1, <2>2, <2>3, <2>4
<1> QED BY <1>2, <1>3

\* validate_input.
LEMMA ServerValidates ==
  ASSUME ServerInv, Runs("validate_input", ValidateInput(env))
  PROVE  ServerInv'
<1> DEFINE r == ValidateInput(env)
<1>1. perform = "validate_input" /\ to_id = VALIDATE /\ Leaves(r) /\ accepted' = accepted
      /\ to_server' = to_server
  BY DEF Runs, Dispatches, ServerInv, Paired
<1>2. env \in GameEnvs
  BY DEF ServerInv
<1>3. /\ r.env \in GameEnvs /\ r.ret \in {WAIT, GAMEOVER}
      /\ r.env.current_player = env.current_player
      /\ r.env.fd_current_player = env.fd_current_player
      /\ r.env.fd_client_X = env.fd_client_X /\ r.env.fd_client_O = env.fd_client_O
      /\ r.ret = WAIT /\ r.env.response_type = ACCEPTED => r.env.play_count # 9
      /\ env.game_board = BlankBoard /\ r.ret = WAIT /\ r.env.response_type = INVALID
           => r.env.game_board = BlankBoard
  BY <1>2, ValidateResult
<1> HIDE DEF r
<1>4. /\ \/ to_id' = WAIT /\ perform' = "send_response_to_client" /\ r.ret = WAIT
         \/ to_id' = GAMEOVER /\ perform' = "game_over" /\ r.ret = GAMEOVER
      /\ env' = r.env
  BY <1>1, <1>3, RowsFound, Left DEF ServerInv
<1>5. Seated'
  BY <1>1, <1>3, <1>4 DEF ServerInv, Seated
<1>6. Marked'
  <2>1. Matched \/ (~NobodyHasLeft /\ env.current_player = O /\ IsBlank)
    BY <1>1 DEF ServerInv, Marked
  <2>2. Matched => Matched'
    BY <1>3, <1>4 DEF Matched
  <2>3. NobodyHasLeft' <=> NobodyHasLeft
    BY <1>1, StaysTyped
  <2>4. perform' = "send_response_to_client" /\ env'.response_type = INVALID /\ IsBlank => IsBlank'
    BY <1>3, <1>4 DEF IsBlank
  <2> QED BY <1>3, <1>4, <2>1, <2>2, <2>3, <2>4 DEF Marked
<1>7. Counted' /\ Paired'
  BY <1>3, <1>4 DEF Counted, Paired
<1>8. \A d \in Clients : to_server'[d] \in Seq(Keys[d])
  BY <1>1 DEF ServerInv
<1> QED BY <1>1, <1>3, <1>4, <1>5, <1>6, <1>7, <1>8, StaysTyped DEF ServerInv

\* send_response_to_client.
LEMMA ServerResponds ==
  ASSUME ServerInv, Runs("send_response_to_client", SendResponse(env))
  PROVE  ServerInv'
<1> DEFINE f == IF env.response_type = ACCEPTED THEN SwitchPlayers(env) ELSE env
           e == [f EXCEPT !.one_byte = 0]
           r == SendResponse(env)
<1>1. perform = "send_response_to_client" /\ to_id = WAIT /\ Leaves(r) /\ accepted' = accepted
      /\ to_server' = to_server
  BY DEF Runs, Dispatches, ServerInv, Paired
<1>2. r.ret = WAIT /\ r.env = f
  BY DEF SendResponse, Result
<1>3. /\ env \in GameEnvs /\ env.fd_client_O # env.fd_client_X
      /\ env.fd_current_player \in {env.fd_client_X, env.fd_client_O}
      /\ env.response_type = ACCEPTED => env.play_count # 9
      /\ env.response_type \in {ACCEPTED, INVALID}
  BY <1>1 DEF ServerInv, Seated, Counted, GameEnvs
<1>4. /\ f \in GameEnvs /\ f.fd_client_O = env.fd_client_O /\ f.fd_client_X = env.fd_client_X
      /\ f.fd_current_player \in {env.fd_client_X, env.fd_client_O}
      /\ \/ f.current_player = IF f.fd_current_player = env.fd_client_X THEN X ELSE O
         \/ env.response_type = INVALID /\ f = env
  BY <1>3, SwitchResult
<1> HIDE DEF r, f
<1>5. /\ e \in GameEnvs /\ e.fd_client_O = env.fd_client_O /\ e.fd_client_X = env.fd_client_X
      /\ e.fd_current_player = f.fd_current_player /\ e.current_player = f.current_player
      /\ e.game_board = f.game_board
  <2>1. 0 \in 0..127
    OBVIOUS
  <2> HIDE DEF f
  <2> QED BY <2>1, <1>4, ByteEnv
<1> HIDE DEF e
<1>6. to_id' = WAIT /\ perform' = "waiting_for_client" /\ env' = e
  BY <1>1, <1>2, RowsFound, Left DEF ServerInv, e
<1>7. Seated'
  BY <1>1, <1>4, <1>5, <1>6 DEF ServerInv, Seated
<1>8. Marked'
  <2>1. CASE f.current_player = IF f.fd_current_player = env.fd_client_X THEN X ELSE O
    BY <1>5, <1>6, <2>1 DEF Marked, Matched
  <2>2. CASE env.response_type = INVALID /\ f = env
    <3>1. Matched \/ (~NobodyHasLeft /\ env.current_player = O /\ IsBlank)
      BY <1>1, <2>2 DEF ServerInv, Marked
    <3>2. (Matched => Matched') /\ (IsBlank => IsBlank')
      BY <1>5, <1>6, <2>2 DEF Matched, IsBlank
    <3>3. NobodyHasLeft' <=> NobodyHasLeft
      BY <1>1, StaysTyped
    <3> QED BY <1>5, <1>6, <2>2, <3>1, <3>2, <3>3 DEF Marked
  <2> QED BY <1>4, <2>1, <2>2
<1>9. Counted' /\ Paired'
  BY <1>6 DEF Counted, Paired
<1>10. \A d \in Clients : to_server'[d] \in Seq(Keys[d])
  BY <1>1 DEF ServerInv
<1> QED BY <1>1, <1>5, <1>6, <1>7, <1>8, <1>9, <1>10, StaysTyped DEF ServerInv

\* game_over.
LEMMA ServerEndsGame ==
  ASSUME ServerInv, Runs("game_over", GameOver(env))
  PROVE  ServerInv'
<1> DEFINE r == GameOver(env)
<1>1. perform = "game_over" /\ to_id = GAMEOVER /\ Leaves(r) /\ accepted' = accepted
      /\ to_server' = to_server
  BY DEF Runs, Dispatches, ServerInv, Paired
<1>2. r.ret = READY /\ r.env = env
  BY DEF GameOver, Result
<1> HIDE DEF r
<1>3. to_id' = READY /\ perform' = "send_assignment" /\ env' = env
  BY <1>1, <1>2, RowsFound, Left DEF ServerInv
<1>4. Seated'
  BY <1>1, <1>3 DEF ServerInv, Seated
<1>5. Marked'
  <2>1. Matched \/ (~NobodyHasLeft /\ env.current_player = O)
    BY <1>1 DEF ServerInv, Marked
  <2>2. Matched => Matched'
    BY <1>3 DEF Matched
  <2>3. NobodyHasLeft' <=> NobodyHasLeft
    BY <1>1, StaysTyped
  <2> QED BY <1>3, <2>1, <2>2, <2>3 DEF Marked
<1>6. Counted' /\ Paired'
  BY <1>3 DEF Counted, Paired
<1>7. \A d \in Clients : to_server'[d] \in Seq(Keys[d])
  BY <1>1 DEF ServerInv
<1> QED BY <1>1, <1>3, <1>4, <1>5, <1>6, <1>7, StaysTyped DEF ServerInv

\* Every step keeps it.
LEMMA ServerStep == ServerInv /\ [Next]_vars => ServerInv'
<1> SUFFICES ASSUME ServerInv, [Next]_vars PROVE ServerInv'
  OBVIOUS
<1>1. CASE UNCHANGED vars
  BY <1>1 DEF vars, server, ServerInv, Paired, Seated, Counted, Marked, Matched, IsBlank,
     NobodyHasLeft, HasLeft
<1>2. CASE Server
  BY <1>2, ServerAcceptsX, ServerAcceptsO, ServerReadsByte, ServerReadsEnd, ServerAssigns,
     ServerValidates, ServerResponds, ServerEndsGame DEF Server
<1>3. ASSUME NEW c \in Clients, ClientStep(c) PROVE ServerInv'
  BY <1>3, ServerClientStep
<1> QED BY <1>1, <1>2, <1>3 DEF Next

\* What the server holds, always.
THEOREM ServerInvariance == Spec => []ServerInv
<1> QED BY ServerInit, ServerStep, PTL DEF Spec

\* The next mark is that of the seat of the player who is to make it, but for the first
\* move after O has left.
THEOREM MarksAreOfTheSeat == Spec => []MarksFollowSeats
<1>1. ServerInv => MarksFollowSeats
  BY DEF ServerInv, Seated, Marked, Matched, MarksFollowSeats, Awaiting, Dispatches, SeatOf
<1> QED BY <1>1, ServerInvariance, PTL

-----------------------------------------------------------------------------
(* Answers: no client is told that its move was accepted before it has     *)
(* made one.                                                               *)

\* A client that is asked, or that has made a move.
Ready(cl) == cl.phase = "prompt" \/ cl.proposed # NoPlay

\* At these starts the client will be ready: it is asked by the message before, or was
\* ready before it.  Every ACCEPTED is at one of them.
Answers(s, starts, ready) ==
  /\ \A i \in ready : i \in 1..(Len(s) + 1)
  /\ \A i \in starts : i <= Len(s) =>
       /\ i + Extent(s[i]) \in ready => PromptsAt(s, i) \/ (s[i] # ACCEPTED /\ i \in ready)
       /\ s[i] = ACCEPTED => i \in ready

\* What is on its way to this client are messages, which it can follow; if n is 1 it
\* will be ready when it has received them.
Flows(s, cl, n) ==
  \E starts, ready :
    /\ Framed(s, starts)
    /\ Answers(s, starts, ready)
    /\ 1 \in ready => Ready(cl)
    /\ n = 1 => Len(s) + 1 \in ready

\* Nothing flows at first.
LEMMA NothingFlows == Flows(<< >>, NewClient, 0)
<1>1. Framed(<< >>, {1})
  BY DEF Framed
<1>2. Answers(<< >>, {1}, {})
  BY DEF Answers
<1> HIDE DEF NewClient
<1> QED BY <1>1, <1>2 DEF Flows

\* A client that is ready when the other was can follow what the other could.
LEMMA FlowsToOther ==
  ASSUME NEW s, NEW cl, NEW other, NEW n, NEW m, Flows(s, cl, n), Ready(cl) => Ready(other),
         m = 1 => n = 1
  PROVE  Flows(s, other, m)
BY DEF Flows

\* A message may follow: an ACCEPTED if the client will be ready.
LEMMA FlowsJoin ==
  ASSUME NEW s \in Streams, NEW cl, NEW n, NEW k, Flows(s, cl, n),
         NEW m, IsMessage(m), NEW t, Joined(s, m, t),
         m[1] = ACCEPTED => n = 1,
         k = 1 => PromptsAt(m, 1) \/ (m[1] # ACCEPTED /\ n = 1)
  PROVE  Flows(t, cl, k)
<1>1. PICK starts, ready :
        /\ Framed(s, starts)
        /\ Answers(s, starts, ready)
        /\ 1 \in ready => Ready(cl)
        /\ n = 1 => Len(s) + 1 \in ready
  BY DEF Flows
<1>2. /\ Framed(t, starts \cup {Len(t) + 1})
      /\ \A i \in starts : i <= Len(s) => t[i] = s[i] /\ (PromptsAt(t, i) <=> PromptsAt(s, i))
      /\ t[Len(s) + 1] = m[1] /\ (PromptsAt(t, Len(s) + 1) <=> PromptsAt(m, 1))
      /\ Len(s) + 1 + Extent(m[1]) = Len(t) + 1
  BY ONLY <1>1, s \in Streams, IsMessage(m), Joined(s, m, t), JoinFramed
<1> PICK a \in Nat : a = Len(s)
  BY DEF Streams
<1>3. m[1] \in Codes
  BY DEF IsMessage, MessageAt
<1> PICK e \in {1, 2, 10} : e = Extent(m[1])
  BY <1>3, Extents
<1>4. Len(t) + 1 = a + 1 + e /\ Len(t) = a + e
  BY <1>2 DEF IsMessage, Joined
<1> DEFINE T == starts \cup {Len(t) + 1}
           R == ready \cup {i \in {Len(t) + 1} : k = 1}
<1>5. \A i \in ready : i \in 1..(a + 1)
  BY <1>1 DEF Answers
<1>6. \A i \in starts : i \in 1..(a + 1)
  BY <1>1 DEF Framed
<1>7. \A i \in R : i \in 1..(Len(t) + 1)
  BY <1>4, <1>5
<1>8. ASSUME NEW i \in T, i <= Len(t)
      PROVE  /\ i + Extent(t[i]) \in R => PromptsAt(t, i) \/ (t[i] # ACCEPTED /\ i \in R)
             /\ t[i] = ACCEPTED => i \in R
  <2>1. i \in starts
    BY <1>4, <1>8
  <2>2. CASE i <= a
    <3>1. /\ t[i] = s[i] /\ (PromptsAt(t, i) <=> PromptsAt(s, i))
          /\ i + Extent(s[i]) \in ready => PromptsAt(s, i) \/ (s[i] # ACCEPTED /\ i \in ready)
          /\ s[i] = ACCEPTED => i \in ready
      BY <1>1, <1>2, <2>1, <2>2 DEF Answers
    <3>2. i + Extent(s[i]) \in starts
      BY <1>1, <2>1, <2>2 DEF Framed
    <3>3. i + Extent(s[i]) # Len(t) + 1
      BY <1>4, <1>6, <3>2
    <3> QED BY <3>1, <3>3
  <2>3. CASE i = a + 1
    <3>1. t[i] = m[1] /\ (PromptsAt(t, i) <=> PromptsAt(m, 1))
      BY <1>2, <2>3
    <3>2. n = 1 => i \in R
      BY <1>1, <2>3
    <3>3. i + Extent(t[i]) = a + 1 + e
      BY <2>3, <3>1
    <3>4. i + Extent(t[i]) \in R => k = 1
      BY <1>4, <1>5, <3>3
    <3> QED BY <3>1, <3>2, <3>4
  <2> QED BY <1>6, <2>1, <2>2, <2>3
<1>9. Answers(t, T, R)
  BY <1>7, <1>8 DEF Answers
<1>10. (1 \in R => Ready(cl)) /\ (k = 1 => Len(t) + 1 \in R)
  <2>1. Len(t) + 1 # 1
    BY ONLY <1>4, a \in Nat, e \in {1, 2, 10}
  <2> QED BY <1>1, <2>1
<1> HIDE DEF R
<1> QED BY <1>2, <1>9, <1>10 DEF Flows

\* The first message may be received: an ACCEPTED finds the client ready.
LEMMA FlowsDrop ==
  ASSUME NEW s \in Streams, s # << >>, NEW cl, NEW n, Flows(s, cl, n), NEW t,
         Dropped(s, Extent(s[1]), t), NEW other,
         PromptsAt(s, 1) \/ (s[1] # ACCEPTED /\ Ready(cl)) => Ready(other)
  PROVE  Flows(t, other, n)
<1>1. PICK starts, ready :
        /\ Framed(s, starts)
        /\ Answers(s, starts, ready)
        /\ 1 \in ready => Ready(cl)
        /\ n = 1 => Len(s) + 1 \in ready
  BY DEF Flows
<1> DEFINE T == After(starts, Extent(s[1]), s)
<1>2. /\ Extent(s[1]) \in {1, 2, 10} /\ Extent(s[1]) <= Len(s) /\ s[1] \in Codes
      /\ Framed(t, T)
      /\ \A i \in T : i <= Len(t) =>
           t[i] = s[i + Extent(s[1])] /\ (PromptsAt(t, i) <=> PromptsAt(s, i + Extent(s[1])))
  BY <1>1, DropFramed
<1> PICK a \in Nat : a = Len(s)
  BY DEF Streams
<1> PICK e \in {1, 2, 10} : e = Extent(s[1])
  BY <1>2
<1>3. e <= a /\ Len(t) = a - e
  BY <1>2 DEF Dropped
<1> DEFINE R == {i \in 1..(a - e + 1) : i + e \in ready}
<1>4. \A i \in T : i \in 1..(a - e + 1) /\ i + e \in starts
  BY DEF After
<1>5. ASSUME NEW i \in T, i <= Len(t)
      PROVE  /\ i + Extent(t[i]) \in R => PromptsAt(t, i) \/ (t[i] # ACCEPTED /\ i \in R)
             /\ t[i] = ACCEPTED => i \in R
  <2>1. i \in 1..(a - e) /\ i + e \in starts /\ i + e <= a
    BY <1>3, <1>4, <1>5
  <2>2. t[i] = s[i + e] /\ (PromptsAt(t, i) <=> PromptsAt(s, i + e))
    BY <1>2, <1>5
  <2>3. /\ (i + e) + Extent(s[i + e]) \in ready =>
             PromptsAt(s, i + e) \/ (s[i + e] # ACCEPTED /\ i + e \in ready)
        /\ s[i + e] = ACCEPTED => i + e \in ready
    BY <1>1, <2>1 DEF Answers
  <2>4. MessageAt(s, i + e)
    BY <1>1, <2>1 DEF Framed
  <2> PICK x \in {1, 2, 10} : x = Extent(s[i + e])
    BY <2>4, Extents DEF MessageAt
  <2>5. i + x \in R => (i + e) + x \in ready
    <3>1. (i + x) + e = (i + e) + x
      BY <2>1
    <3> QED BY <3>1
  <2>6. i + e \in ready => i \in R
    BY <2>1
  <2> QED BY <2>2, <2>3, <2>5, <2>6
<1>6. Answers(t, T, R)
  BY <1>3, <1>5 DEF Answers
<1>7. 1 \in R => Ready(other)
  <2>1. 1 \in starts /\ 1 <= a
    BY <1>1, <1>3 DEF Framed
  <2>2. 1 + e \in ready => PromptsAt(s, 1) \/ (s[1] # ACCEPTED /\ 1 \in ready)
    BY <1>1, <2>1 DEF Answers
  <2> QED BY <1>1, <2>2
<1>8. n = 1 => Len(t) + 1 \in R
  BY <1>1, <1>3
<1> HIDE DEF R
<1> QED BY <1>2, <1>6, <1>7, <1>8 DEF Flows

\* The first message is there to its end, and an ACCEPTED finds the client ready.
LEMMA FlowsHead ==
  ASSUME NEW s \in Streams, s # << >>, NEW cl, NEW n, Flows(s, cl, n)
  PROVE  /\ MessageAt(s, 1)
         /\ s[1] = ACCEPTED => Ready(cl)
<1>1. PICK starts, ready :
        /\ Framed(s, starts)
        /\ Answers(s, starts, ready)
        /\ 1 \in ready => Ready(cl)
  BY DEF Flows
<1>2. 1 <= Len(s)
  BY DEF Streams
<1> QED BY <1>1, <1>2 DEF Framed, Answers

-----------------------------------------------------------------------------
(* What is sent to whom.                                                   *)

\* f collects the bytes for c.
Collects(f, c, msgs) ==
  f = [n \in 0..Len(msgs) |->
         IF n = 0 THEN << >>
         ELSE IF msgs[n].to = c THEN Append(f[n - 1], msgs[n].byte)
         ELSE f[n - 1]]

\* A function on an interval from 1 whose values are bytes is a stream.
LEMMA FunctionIsStream ==
  ASSUME NEW n \in Nat, NEW s, s = [i \in 1..n |-> s[i]], \A i \in 1..n : s[i] \in 1..127
  PROVE  s \in Streams /\ Len(s) = n
<1>1. s \in [1..n -> 1..127]
  OBVIOUS
<1>2. s \in Seq(1..127)
  BY <1>1, SeqDef
<1>3. Len(s) \in Nat /\ DOMAIN s = 1..Len(s) /\ DOMAIN s = 1..n
  BY ONLY <1>1, <1>2, LenProperties
<1>4. Len(s) = n
  <2> PICK k \in Nat : k = Len(s)
    BY <1>3
  <2>1. \A i : i \in 1..k <=> i \in 1..n
    BY <1>3
  <2>2. (k >= 1 => k \in 1..n) /\ (n >= 1 => n \in 1..k)
    BY ONLY <2>1, k \in Nat, n \in Nat
  <2> QED BY ONLY <2>2, k \in Nat, n \in Nat, k = Len(s)
<1> QED BY <1>2, <1>4 DEF Streams

\* Of so many messages, those after one position and up to another are for c.
InARow(c, msgs, length, from, until) ==
  /\ length \in Nat /\ from \in Nat /\ until \in Nat
  /\ from <= until /\ until <= length /\ Len(msgs) = length
  /\ \A i \in 1..length : msgs[i].byte \in 1..127
  /\ \A i \in 1..length : msgs[i].to = c <=> from < i /\ i <= until

\* The bytes for c are those of these messages.
BytesAre(c, msgs, from, until) ==
  LET bytes == BytesTo(c, msgs)
  IN  /\ bytes \in Streams /\ Len(bytes) = until - from
      /\ \A i \in 1..(until - from) : bytes[i] = msgs[from + i].byte

\* Messages for c that follow one another are its bytes: what collects them is a
\* function, and there is no least number of messages at which it differs.
LEMMA BytesInARow ==
  ASSUME NEW c, NEW msgs, NEW length, NEW from, NEW until, InARow(c, msgs, length, from, until)
  PROVE  BytesAre(c, msgs, from, until)
<1>0. /\ length \in Nat /\ from \in Nat /\ until \in Nat
      /\ from <= until /\ until <= length /\ Len(msgs) = length
      /\ \A i \in 1..length : msgs[i].byte \in 1..127
      /\ \A i \in 1..length : msgs[i].to = c <=> from < i /\ i <= until
  BY DEF InARow
<1> USE <1>0
<1> PICK n \in Nat : n = until - from
  OBVIOUS
<1>a. from + n = until
  OBVIOUS
<1>b. from + n <= length /\ \A i \in 1..length : msgs[i].to = c <=> from < i /\ i <= from + n
  BY <1>a
<1> USE <1>b
<1> DEFINE Count(k) == IF k <= from THEN 0 ELSE IF k <= from + n THEN k - from ELSE n
           Own(k) == [i \in 1..Count(k) |-> msgs[from + i].byte]
           w == [k \in 0..length |-> Own(k)]
<1>1. \A k \in 0..length : Count(k) \in 0..n
  OBVIOUS
<1>2. \A k \in 0..length : \A i \in 1..Count(k) : msgs[from + i].byte \in 1..127
  <2>1. \A k \in 0..length : \A i \in 1..Count(k) : from + i \in 1..length
    OBVIOUS
  <2> HIDE DEF Count
  <2> QED BY <2>1
<1>3. \A k \in 0..length : Own(k) \in Streams /\ Len(Own(k)) = Count(k)
  <2> SUFFICES ASSUME NEW k \in 0..length PROVE Own(k) \in Streams /\ Len(Own(k)) = Count(k)
    OBVIOUS
  <2> HIDE DEF Count
  <2> PICK m \in Nat : m = Count(k)
    BY <1>1
  <2>1. \A i \in 1..m : msgs[from + i].byte \in 1..127
    BY <1>2
  <2>2. Own(k) = [i \in 1..m |-> msgs[from + i].byte]
    OBVIOUS
  <2> HIDE DEF Own
  <2> PICK s : s = Own(k)
    OBVIOUS
  <2>3. s = [i \in 1..m |-> msgs[from + i].byte]
    BY <2>2
  <2>4. s = [i \in 1..m |-> s[i]] /\ \A i \in 1..m : s[i] \in 1..127
    BY <2>1, <2>3
  <2>5. s \in Streams /\ Len(s) = m
    BY <2>4, FunctionIsStream
  <2> QED BY <2>5
<1>4. ASSUME NEW k \in 1..length
      PROVE  Own(k) = IF msgs[k].to = c THEN Append(Own(k - 1), msgs[k].byte) ELSE Own(k - 1)
  <2>1. k - 1 \in 0..length /\ k \in 0..length
    OBVIOUS
  <2>2. CASE msgs[k].to = c
    <3>1. Count(k) = Count(k - 1) + 1 /\ from + Count(k) = k
      BY <2>2
    <3>2. Append(Own(k - 1), msgs[k].byte)
            = [i \in 1..(Count(k - 1) + 1) |-> IF i = Count(k - 1) + 1 THEN msgs[k].byte ELSE Own(k - 1)[i]]
      <4> PICK s \in Streams : s = Own(k - 1)
        BY <1>3, <2>1
      <4>1. Len(s) = Count(k - 1)
        BY <1>3, <2>1
      <4>2. Append(s, msgs[k].byte) = [i \in 1..(Len(s) + 1) |-> IF i = Len(s) + 1 THEN msgs[k].byte ELSE s[i]]
        BY DEF Streams
      <4> HIDE DEF Own, Count
      <4> QED BY <4>1, <4>2
    <3>3. \A i \in 1..Count(k) : (IF i = Count(k - 1) + 1 THEN msgs[k].byte ELSE Own(k - 1)[i]) = msgs[from + i].byte
      <4>0. Count(k - 1) \in 0..n
        <5> HIDE DEF Count
        <5> QED BY <1>1, <2>1
      <4> PICK m \in Nat : m = Count(k - 1)
        <5> HIDE DEF Count
        <5> QED BY <4>0
      <4>1. Count(k) = m + 1 /\ from + (m + 1) = k
        BY <3>1
      <4>2. \A i \in 1..m : Own(k - 1)[i] = msgs[from + i].byte
        <5> HIDE DEF Count
        <5> QED OBVIOUS
      <4> HIDE DEF Own, Count
      <4> QED BY <4>1, <4>2
    <3> HIDE DEF Count
    <3> QED BY <2>2, <3>1, <3>2, <3>3
  <2>3. CASE ~(msgs[k].to = c)
    <3>1. Count(k) = Count(k - 1)
      BY <2>3
    <3> HIDE DEF Count
    <3> QED BY <2>3, <3>1
  <2> QED BY <2>2, <2>3
<1>5. Own(0) = << >>
  OBVIOUS
<1>6. Collects(w, c, msgs)
  <2> DEFINE v == [k \in 0..Len(msgs) |->
                     IF k = 0 THEN << >>
                     ELSE IF msgs[k].to = c THEN Append(w[k - 1], msgs[k].byte)
                     ELSE w[k - 1]]
  <2>1. ASSUME NEW k \in 0..length PROVE v[k] = Own(k)
    <3>1. CASE k = 0
      <4> HIDE DEF Own, w
      <4> QED BY <1>5, <3>1
    <3>2. CASE k # 0
      <4>1. k \in 1..length /\ k - 1 \in 0..length
        BY <3>2
      <4> HIDE DEF Own
      <4> QED BY <1>4, <3>2, <4>1
    <3> QED BY <3>1, <3>2
  <2> HIDE DEF Own
  <2>2. v = w
    <3>1. v = [k \in 0..length |-> v[k]]
      OBVIOUS
    <3> HIDE DEF v
    <3> QED BY <2>1, <3>1
  <2> HIDE DEF w
  <2> QED BY <2>2 DEF Collects
<1> DEFINE own == CHOOSE f : Collects(f, c, msgs)
<1>7. Collects(own, c, msgs)
  <2> HIDE DEF w
  <2> QED BY <1>6
<1>8. BytesTo(c, msgs) = own[Len(msgs)]
  BY DEF BytesTo, Collects
<1> HIDE DEF own, w
<1> DEFINE bad == {k \in 0..length : own[k] # Own(k)}
<1>9. bad = {}
  <2> SUFFICES ASSUME bad # {} PROVE FALSE
    OBVIOUS
  <2>1. PICK k \in bad : \A j \in bad : k <= j
    <3>1. bad \subseteq Nat
      OBVIOUS
    <3> HIDE DEF bad
    <3> QED BY <3>1, SmallestOne
  <2>2. k \in 0..length /\ own[k] # Own(k)
    OBVIOUS
  <2> HIDE DEF Own
  <2>3. own[k] = IF k = 0 THEN << >>
                 ELSE IF msgs[k].to = c THEN Append(own[k - 1], msgs[k].byte)
                 ELSE own[k - 1]
    BY <1>7, <2>2 DEF Collects
  <2>4. CASE k = 0
    BY <1>5, <2>2, <2>3, <2>4
  <2>5. CASE k # 0
    <3>1. k \in 1..length /\ k - 1 \in 0..length /\ k - 1 \notin bad
      BY <2>1, <2>2, <2>5
    <3>2. own[k - 1] = Own(k - 1)
      BY <3>1
    <3> QED BY <1>4, <2>2, <2>3, <2>5, <3>1, <3>2
  <2> QED BY <2>4, <2>5
<1>10. length \in 0..length /\ length \notin bad
  <2> HIDE DEF bad
  <2> QED BY <1>9
<1>11. BytesTo(c, msgs) = Own(length)
  <2> HIDE DEF Own
  <2> QED BY <1>8, <1>10
<1>12. Count(length) = n
  OBVIOUS
<1>13. Own(length) \in Streams /\ Len(Own(length)) = n
  BY <1>3, <1>10, <1>12
<1>14. \A i \in 1..n : Own(length)[i] = msgs[from + i].byte
  <2> HIDE DEF Count
  <2> QED BY <1>12
<1> HIDE DEF Own
<1> QED BY <1>11, <1>13, <1>14 DEF BytesAre

\* Nothing is sent to a client for which there is no message.
LEMMA BytesToNobody ==
  ASSUME NEW c, NEW msgs, NEW length \in Nat, Len(msgs) = length,
         \A i \in 1..length : msgs[i].byte \in 1..127,
         \A i \in 1..length : msgs[i].to # c
  PROVE  BytesTo(c, msgs) = << >>
<1> PICK zero \in Nat : zero = 0
  OBVIOUS
<1>1. \A i \in 1..length : msgs[i].to = c <=> zero < i /\ i <= zero
  OBVIOUS
<1>2. InARow(c, msgs, length, zero, zero)
  BY <1>1 DEF InARow
<1>3. BytesTo(c, msgs) \in Streams /\ Len(BytesTo(c, msgs)) = zero - zero
  BY <1>2, BytesInARow DEF BytesAre
<1> PICK m \in Streams : m = BytesTo(c, msgs)
  BY <1>3
<1>4. Len(m) = 0
  BY <1>3
<1>5. m = << >>
  BY <1>4 DEF Streams
<1> QED BY <1>5

\* The messages the server sends.
LEMMA MessagesSent ==
  ASSUME NEW m \in Streams
  PROVE  /\ Len(m) = 1 /\ m[1] \in {INVALID, ACCEPTED, WIN, LOSE, TIE}
              => IsMessage(m) /\ (PromptsAt(m, 1) <=> m[1] = INVALID)
         /\ Len(m) = 2 /\ m[1] = WELCOME /\ m[2] \in {X, O}
              => IsMessage(m) /\ (PromptsAt(m, 1) <=> m[2] = X)
         /\ Len(m) = 10 /\ m[1] = INVITE /\ (\A n \in 1..9 : m[1 + n] \in Squares)
              => IsMessage(m) /\ PromptsAt(m, 1)
<1> USE DEF IsMessage, MessageAt, PromptsAt, Codes
<1>1. /\ WELCOME # INVITE /\ WELCOME # INVALID /\ INVITE # INVALID
      /\ \A code \in {INVALID, ACCEPTED, WIN, LOSE, TIE} : code # WELCOME /\ code # INVITE
  BY DEF WELCOME, INVITE, INVALID, ACCEPTED, WIN, LOSE, TIE
<1>2. Len(m) = 1 /\ m[1] \in {INVALID, ACCEPTED, WIN, LOSE, TIE}
        => IsMessage(m) /\ (PromptsAt(m, 1) <=> m[1] = INVALID)
  BY <1>1, Extents
<1>3. Len(m) = 2 /\ m[1] = WELCOME /\ m[2] \in {X, O}
        => IsMessage(m) /\ (PromptsAt(m, 1) <=> m[2] = X)
  BY <1>1, Extents
<1>4. Len(m) = 10 /\ m[1] = INVITE /\ (\A n \in 1..9 : m[1 + n] \in Squares)
        => IsMessage(m) /\ PromptsAt(m, 1)
  BY <1>1, Extents
<1> QED BY <1>2, <1>3, <1>4

\* What is a byte.
LEMMA BytesSent ==
  /\ \A code \in Codes : code \in 1..127
  /\ \A square \in Squares : square \in 1..127
BY DEF Codes, Squares, WELCOME, INVITE, INVALID, ACCEPTED, WIN, LOSE, TIE, X, O, BLANK_SPACE

\* send_assignment welcomes both players.
LEMMA AssignmentSent ==
  ASSUME NEW e, e.fd_client_X # e.fd_client_O, NEW c, NEW m, m = BytesTo(c, SendAssignment(e).out)
  PROVE  /\ c = e.fd_client_X => m \in Streams /\ Len(m) = 2 /\ m[1] = WELCOME /\ m[2] = X
         /\ c = e.fd_client_O => m \in Streams /\ Len(m) = 2 /\ m[1] = WELCOME /\ m[2] = O
         /\ c \notin {e.fd_client_X, e.fd_client_O} => m = << >>
<1> DEFINE msgs == SendAssignment(e).out
<1>1. /\ Len(msgs) = 4
      /\ msgs[1].to = e.fd_client_X /\ msgs[2].to = e.fd_client_X
      /\ msgs[3].to = e.fd_client_O /\ msgs[4].to = e.fd_client_O
      /\ msgs[1].byte = WELCOME /\ msgs[2].byte = X /\ msgs[3].byte = WELCOME /\ msgs[4].byte = O
  BY DEF SendAssignment, Result, Byte
<1> HIDE DEF msgs
<1>2. WELCOME \in 1..127 /\ X \in 1..127 /\ O \in 1..127
  BY DEF WELCOME, X, O
<1>3. \A i \in 1..4 : msgs[i].byte \in 1..127
  BY <1>1, <1>2
<1>4. CASE c = e.fd_client_X
  <2>1. \A i \in 1..4 : msgs[i].to = c <=> 0 < i /\ i <= 2
    BY <1>1, <1>4
  <2>2. InARow(c, msgs, 4, 0, 2)
    BY <1>1, <1>3, <2>1 DEF InARow
  <2>. BytesAre(c, msgs, 0, 2)
    BY ONLY <2>2, BytesInARow
  <2>3. /\ BytesTo(c, msgs) \in Streams /\ Len(BytesTo(c, msgs)) = 2
        /\ \A i \in 1..2 : BytesTo(c, msgs)[i] = msgs[i].byte
    BY DEF BytesAre
  <2>4. BytesTo(c, msgs)[1] = msgs[1].byte /\ BytesTo(c, msgs)[2] = msgs[2].byte
    BY <2>3
  <2> QED BY <1>1, <1>4, <2>3, <2>4 DEF msgs
<1>5. CASE c = e.fd_client_O
  <2>1. \A i \in 1..4 : msgs[i].to = c <=> 2 < i /\ i <= 4
    BY <1>1, <1>5
  <2>2. InARow(c, msgs, 4, 2, 4)
    BY <1>1, <1>3, <2>1 DEF InARow
  <2>. BytesAre(c, msgs, 2, 4)
    BY ONLY <2>2, BytesInARow
  <2>3. /\ BytesTo(c, msgs) \in Streams /\ Len(BytesTo(c, msgs)) = 2
        /\ \A i \in 1..2 : BytesTo(c, msgs)[i] = msgs[2 + i].byte
    BY DEF BytesAre
  <2>4. BytesTo(c, msgs)[1] = msgs[3].byte /\ BytesTo(c, msgs)[2] = msgs[4].byte
    BY <2>3
  <2> QED BY <1>1, <1>5, <2>3, <2>4 DEF msgs
<1>6. CASE c \notin {e.fd_client_X, e.fd_client_O}
  <2>1. \A i \in 1..4 : msgs[i].to # c
    BY <1>1, <1>6
  <2>2. BytesTo(c, msgs) = << >>
    BY ONLY <1>1, <1>3, <2>1, 4 \in Nat, BytesToNobody
  <2> QED BY <1>6, <2>2 DEF msgs
<1> QED BY <1>4, <1>5, <1>6

\* game_over tells both players the result.
LEMMA ResultsSent ==
  ASSUME NEW e, e.fd_client_X # e.fd_client_O, NEW c, NEW m, m = BytesTo(c, GameOver(e).out)
  PROVE  /\ c \in {e.fd_client_X, e.fd_client_O}
              => m \in Streams /\ Len(m) = 1 /\ m[1] \in {WIN, LOSE, TIE}
         /\ c \notin {e.fd_client_X, e.fd_client_O} => m = << >>
<1> DEFINE msgs == GameOver(e).out
<1>1. PICK x \in {WIN, LOSE, TIE}, o \in {WIN, LOSE, TIE} :
        msgs = << Byte(e.fd_client_X, x), Byte(e.fd_client_O, o) >>
  BY DEF GameOver, Result
<1>2. /\ Len(msgs) = 2
      /\ msgs[1].to = e.fd_client_X /\ msgs[2].to = e.fd_client_O
      /\ msgs[1].byte = x /\ msgs[2].byte = o
  BY <1>1 DEF Byte
<1> HIDE DEF msgs
<1>3. \A i \in 1..2 : msgs[i].byte \in 1..127
  <2>1. x \in 1..127 /\ o \in 1..127
    BY DEF WIN, LOSE, TIE
  <2> QED BY <1>2, <2>1
<1>4. CASE c = e.fd_client_X
  <2>1. \A i \in 1..2 : msgs[i].to = c <=> 0 < i /\ i <= 1
    BY <1>2, <1>4
  <2>2. InARow(c, msgs, 2, 0, 1)
    BY <1>2, <1>3, <2>1 DEF InARow
  <2>. BytesAre(c, msgs, 0, 1)
    BY ONLY <2>2, BytesInARow
  <2>3. /\ BytesTo(c, msgs) \in Streams /\ Len(BytesTo(c, msgs)) = 1
        /\ \A i \in 1..1 : BytesTo(c, msgs)[i] = msgs[i].byte
    BY DEF BytesAre
  <2>4. BytesTo(c, msgs)[1] = msgs[1].byte
    BY <2>3
  <2> QED BY <1>2, <1>4, <2>3, <2>4 DEF msgs
<1>5. CASE c = e.fd_client_O
  <2>1. \A i \in 1..2 : msgs[i].to = c <=> 1 < i /\ i <= 2
    BY <1>2, <1>5
  <2>2. InARow(c, msgs, 2, 1, 2)
    BY <1>2, <1>3, <2>1 DEF InARow
  <2>. BytesAre(c, msgs, 1, 2)
    BY ONLY <2>2, BytesInARow
  <2>3. /\ BytesTo(c, msgs) \in Streams /\ Len(BytesTo(c, msgs)) = 1
        /\ \A i \in 1..1 : BytesTo(c, msgs)[i] = msgs[1 + i].byte
    BY DEF BytesAre
  <2>4. BytesTo(c, msgs)[1] = msgs[2].byte
    BY <2>3
  <2> QED BY <1>2, <1>5, <2>3, <2>4 DEF msgs
<1>6. CASE c \notin {e.fd_client_X, e.fd_client_O}
  <2>1. \A i \in 1..2 : msgs[i].to # c
    BY <1>2, <1>6
  <2>2. BytesTo(c, msgs) = << >>
    BY ONLY <1>2, <1>3, <2>1, 2 \in Nat, BytesToNobody
  <2> QED BY <1>6, <2>2 DEF msgs
<1> QED BY <1>4, <1>5, <1>6

\* send_response_to_client refuses a move ...
LEMMA RefusalSent ==
  ASSUME NEW e, e.response_type # ACCEPTED, NEW c, NEW m, m = BytesTo(c, SendResponse(e).out)
  PROVE  /\ c = e.fd_current_player => m \in Streams /\ Len(m) = 1 /\ m[1] = INVALID
         /\ c # e.fd_current_player => m = << >>
<1> DEFINE msgs == SendResponse(e).out
<1>1. Len(msgs) = 1 /\ msgs[1].to = e.fd_current_player /\ msgs[1].byte = INVALID
  BY DEF SendResponse, Result, Byte
<1> HIDE DEF msgs
<1>2. \A i \in 1..1 : msgs[i].byte \in 1..127
  BY <1>1 DEF INVALID
<1>3. CASE c = e.fd_current_player
  <2>1. \A i \in 1..1 : msgs[i].to = c <=> 0 < i /\ i <= 1
    BY <1>1, <1>3
  <2>2. InARow(c, msgs, 1, 0, 1)
    BY <1>1, <1>2, <2>1 DEF InARow
  <2>. BytesAre(c, msgs, 0, 1)
    BY ONLY <2>2, BytesInARow
  <2>3. /\ BytesTo(c, msgs) \in Streams /\ Len(BytesTo(c, msgs)) = 1
        /\ \A i \in 1..1 : BytesTo(c, msgs)[i] = msgs[i].byte
    BY DEF BytesAre
  <2>4. BytesTo(c, msgs)[1] = msgs[1].byte
    BY <2>3
  <2> QED BY <1>1, <1>3, <2>3, <2>4 DEF msgs
<1>4. CASE c # e.fd_current_player
  <2>1. \A i \in 1..1 : msgs[i].to # c
    BY <1>1, <1>4
  <2>2. BytesTo(c, msgs) = << >>
    BY ONLY <1>1, <1>2, <2>1, 1 \in Nat, BytesToNobody
  <2> QED BY <1>4, <2>2 DEF msgs
<1> QED BY <1>3, <1>4

\* ... or accepts it, and invites the next player to move, with the board.
Invites(e, next, c, m) ==
  /\ c = e.fd_current_player => m \in Streams /\ Len(m) = 1 /\ m[1] = ACCEPTED
  /\ c = next.fd_current_player =>
       /\ m \in Streams /\ Len(m) = 10 /\ m[1] = INVITE
       /\ \A n \in 1..9 : m[1 + n] = next.game_board[n - 1]
  /\ c \notin {e.fd_current_player, next.fd_current_player} => m = << >>

\* This is what an accepted move brings about.
LEMMA InvitationSent ==
  ASSUME NEW e, e.response_type = ACCEPTED, NEW next, next = SwitchPlayers(e),
         next.fd_current_player # e.fd_current_player,
         next.game_board \in [Cells -> Squares],
         NEW c, NEW m, m = BytesTo(c, SendResponse(e).out)
  PROVE  Invites(e, next, c, m)
<1>0. \A n \in 1..9 : next.game_board[n - 1] \in Squares
  BY DEF Cells
<1> USE <1>0
<1> DEFINE squares == [n \in 1..9 |-> Byte(next.fd_current_player, next.game_board[n - 1])]
           first == << Byte(e.fd_current_player, ACCEPTED) >>
           invite == << Byte(next.fd_current_player, INVITE) >>
           msgs == first \o (invite \o squares)
<1>1. SendResponse(e).out = msgs
  BY DEF SendResponse, Result, Invitation
<1>2. /\ squares \in Seq([to : {next.fd_current_player}, byte : Squares]) /\ Len(squares) = 9
      /\ \A n \in 1..9 : squares[n] = Byte(next.fd_current_player, next.game_board[n - 1])
  BY DEF Byte
<1> HIDE DEF squares
<1> DEFINE all == [to : {next.fd_current_player, e.fd_current_player}, byte : Squares \cup {ACCEPTED, INVITE}]
<1>3. squares \in Seq(all) /\ invite \in Seq(all) /\ first \in Seq(all)
  <2>1. Byte(e.fd_current_player, ACCEPTED) \in all /\ Byte(next.fd_current_player, INVITE) \in all
    BY DEF Byte
  <2>2. \A n \in 1..9 : squares[n] \in all
    BY <1>2 DEF Byte
  <2> HIDE DEF all
  <2>3. squares \in Seq(all)
    <3>1. squares = [n \in 1..9 |-> squares[n]]
      BY <1>2
    <3> QED BY <2>2, <3>1
  <2> QED BY <2>1, <2>3
<1>4. Len(first) = 1 /\ Len(invite) = 1 /\ first[1] = Byte(e.fd_current_player, ACCEPTED)
      /\ invite[1] = Byte(next.fd_current_player, INVITE)
  OBVIOUS
<1> HIDE DEF all, first, invite
<1> DEFINE tail == invite \o squares
<1>5. /\ tail \in Seq(all) /\ Len(tail) = Len(invite) + Len(squares)
      /\ \A i \in 1..Len(invite) + Len(squares) : tail[i] = IF i <= Len(invite) THEN invite[i] ELSE squares[i - Len(invite)]
  BY ONLY <1>3, ConcatProperties
<1> HIDE DEF tail
<1>6. /\ msgs \in Seq(all) /\ Len(msgs) = Len(first) + Len(tail)
      /\ \A i \in 1..Len(first) + Len(tail) : msgs[i] = IF i <= Len(first) THEN first[i] ELSE tail[i - Len(first)]
  BY ONLY <1>3, <1>5, ConcatProperties DEF msgs, tail
<1> HIDE DEF msgs
<1>7. /\ Len(msgs) = 11 /\ msgs[1] = first[1] /\ msgs[2] = invite[1]
      /\ \A n \in 1..9 : msgs[2 + n] = squares[n]
  <2>1. Len(tail) = 10 /\ Len(msgs) = 11
    BY <1>2, <1>4, <1>5, <1>6
  <2>2. tail[1] = invite[1] /\ \A n \in 1..9 : tail[1 + n] = squares[n]
    BY <1>2, <1>4, <1>5
  <2>3. msgs[1] = first[1] /\ \A i \in 2..11 : msgs[i] = tail[i - 1]
    BY <1>4, <1>6, <2>1
  <2>4. msgs[2] = tail[1] /\ \A n \in 1..9 : msgs[2 + n] = tail[1 + n]
    <3>1. \A n \in 1..9 : 2 + n \in 2..11 /\ (2 + n) - 1 = 1 + n
      OBVIOUS
    <3> QED BY <2>3, <3>1
  <2> QED BY <2>1, <2>2, <2>3, <2>4
<1>8. /\ msgs[1].to = e.fd_current_player /\ msgs[1].byte = ACCEPTED
      /\ msgs[2].to = next.fd_current_player /\ msgs[2].byte = INVITE
      /\ \A n \in 1..9 : msgs[2 + n].to = next.fd_current_player /\ msgs[2 + n].byte = next.game_board[n - 1]
  BY <1>2, <1>4, <1>7 DEF Byte
<1>9. \A i \in 3..11 : msgs[i].to = next.fd_current_player /\ msgs[i].byte \in Squares
  <2> SUFFICES ASSUME NEW i \in 3..11
               PROVE msgs[i].to = next.fd_current_player /\ msgs[i].byte \in Squares
    OBVIOUS
  <2>1. i - 2 \in 1..9 /\ 2 + (i - 2) = i
    OBVIOUS
  <2> QED BY <1>8, <2>1
<1>10. \A i \in 1..11 : /\ msgs[i].byte \in 1..127
                        /\ msgs[i].to = IF i = 1 THEN e.fd_current_player ELSE next.fd_current_player
  <2>1. ACCEPTED \in 1..127 /\ INVITE \in 1..127 /\ \A square \in Squares : square \in 1..127
    BY BytesSent DEF Codes
  <2>2. \A i \in 1..11 : i = 1 \/ i = 2 \/ i \in 3..11
    OBVIOUS
  <2> QED BY <1>8, <1>9, <2>1, <2>2
<1>11. CASE c = e.fd_current_player
  <2>1. \A i \in 1..11 : msgs[i].to = c <=> 0 < i /\ i <= 1
    BY <1>10, <1>11
  <2>2. InARow(c, msgs, 11, 0, 1)
    BY <1>7, <1>10, <2>1 DEF InARow
  <2>. BytesAre(c, msgs, 0, 1)
    BY ONLY <2>2, BytesInARow
  <2>3. /\ BytesTo(c, msgs) \in Streams /\ Len(BytesTo(c, msgs)) = 1
        /\ \A i \in 1..1 : BytesTo(c, msgs)[i] = msgs[i].byte
    BY DEF BytesAre
  <2>4. BytesTo(c, msgs)[1] = msgs[1].byte
    BY <2>3
  <2> QED BY <1>1, <1>8, <1>11, <2>3, <2>4 DEF Invites
<1>12. CASE c = next.fd_current_player
  <2>1. \A i \in 1..11 : msgs[i].to = c <=> 1 < i /\ i <= 11
    BY <1>10, <1>12
  <2>2. InARow(c, msgs, 11, 1, 11)
    BY <1>7, <1>10, <2>1 DEF InARow
  <2>. BytesAre(c, msgs, 1, 11)
    BY ONLY <2>2, BytesInARow
  <2>3. /\ BytesTo(c, msgs) \in Streams /\ Len(BytesTo(c, msgs)) = 10
        /\ \A i \in 1..10 : BytesTo(c, msgs)[i] = msgs[1 + i].byte
    BY DEF BytesAre
  <2>4. BytesTo(c, msgs)[1] = msgs[2].byte
    BY <2>3
  <2>5. \A n \in 1..9 : BytesTo(c, msgs)[1 + n] = msgs[2 + n].byte
    <3>1. \A n \in 1..9 : 1 + n \in 1..10 /\ 1 + (1 + n) = 2 + n
      OBVIOUS
    <3> QED BY <2>3, <3>1
  <2> QED BY <1>1, <1>8, <1>12, <2>3, <2>4, <2>5 DEF Invites
<1>13. CASE c \notin {e.fd_current_player, next.fd_current_player}
  <2>1. \A i \in 1..11 : msgs[i].to # c
    BY <1>10, <1>13
  <2>2. BytesTo(c, msgs) = << >>
    BY ONLY <1>7, <1>10, <2>1, 11 \in Nat, BytesToNobody
  <2> QED BY <1>1, <1>13, <2>2 DEF Invites
<1> QED BY <1>11, <1>12, <1>13 DEF Invites

\* Nothing at all is sent.
LEMMA NothingSent == \A c : BytesTo(c, << >>) = << >>
<1> SUFFICES ASSUME NEW c PROVE BytesTo(c, << >>) = << >>
  OBVIOUS
<1> PICK none : none = << >>
  OBVIOUS
<1>1. Len(none) = 0 /\ 0 \in Nat /\ \A i \in 1..0 : none[i].byte \in 1..127 /\ none[i].to # c
  OBVIOUS
<1>2. BytesTo(c, none) = << >>
  BY ONLY <1>1, BytesToNobody
<1> QED BY <1>2

-----------------------------------------------------------------------------
(* The clients.                                                            *)

\* A client, which shows at least one square.
ClientRecords ==
  {cl \in [phase : Phases, identity : {0, X, O}, proposed : {NoPlay} \cup 0..9,
           board : Seq({0} \cup Squares)] : Len(cl.board) \in 1..9}

\* At first nothing is known.
LEMMA NewClientTyped == NewClient \in ClientRecords
<1> DEFINE board == [n \in 1..9 |-> BLANK_SPACE]
<1>1. board \in Seq({0} \cup Squares) /\ Len(board) = 9
  BY DEF Squares
<1>2. NewClient = [phase |-> "recv", identity |-> 0, proposed |-> NoPlay, board |-> board]
  BY DEF NewClient
<1> HIDE DEF board
<1> QED BY <1>1, <1>2 DEF ClientRecords, Phases

\* A move that was accepted is drawn, if it was proposed and there is a square for it.
LEMMA SetPlayResult ==
  ASSUME NEW cl \in ClientRecords
  PROVE  SetPlay(cl) \in ClientRecords /\ SetPlay(cl).phase \in {cl.phase, "gone"}
<1> DEFINE square == cl.proposed + 1
<1>1. cl.proposed \in {NoPlay} \cup 0..9 /\ cl.board \in Seq({0} \cup Squares)
      /\ cl.identity \in {0, X, O} /\ Len(cl.board) \in 1..9 /\ cl.phase \in Phases
  BY DEF ClientRecords
<1>2. CASE cl.proposed = NoPlay
  <2>1. SetPlay(cl) = [cl EXCEPT !.phase = "gone"]
    BY <1>2 DEF SetPlay
  <2> QED BY <2>1 DEF ClientRecords, Phases
<1>3. CASE cl.proposed # NoPlay /\ square \in DOMAIN cl.board
  <2> DEFINE board == [cl.board EXCEPT ![square] = cl.identity]
  <2>1. cl.identity \in {0} \cup Squares
    BY <1>1 DEF Squares
  <2>2. square \in 1..Len(cl.board)
    BY <1>1, <1>3
  <2>3. board \in Seq({0} \cup Squares) /\ Len(board) = Len(cl.board)
    <3> HIDE DEF square
    <3> QED BY <1>1, <2>1, <2>2, ExceptSeq
  <2>4. SetPlay(cl) = [cl EXCEPT !.board = board, !.proposed = NoPlay]
    <3>1. SetPlay(cl) = [cl EXCEPT !.board[square] = cl.identity, !.proposed = NoPlay]
      BY <1>3 DEF SetPlay
    <3> QED BY <3>1 DEF ClientRecords
  <2> HIDE DEF board
  <2> QED BY <1>1, <2>3, <2>4 DEF ClientRecords
<1>4. CASE cl.proposed # NoPlay /\ square \notin DOMAIN cl.board
  <2>1. SetPlay(cl) = [cl EXCEPT !.proposed = NoPlay]
    BY <1>4 DEF SetPlay
  <2> QED BY <2>1 DEF ClientRecords
<1> QED BY <1>2, <1>3, <1>4

\* A move that has been typed has been proposed, or ends the program.
LEMMA TypedResult ==
  ASSUME NEW cl \in ClientRecords, NEW byte \in 1..127
  PROVE  /\ Typed(cl, byte) \in ClientRecords
         /\ Typed(cl, byte).board = cl.board
         /\ \/ Typed(cl, byte).phase = "recv" /\ Typed(cl, byte).proposed # NoPlay
            \/ Typed(cl, byte).phase = "gone"
<1>1. CASE byte \in 48..57
  <2>1. byte - 48 \in 0..9 /\ byte - 48 # NoPlay
    BY <1>1 DEF NoPlay
  <2> PICK play \in 0..9 : play = byte - 48 /\ play # NoPlay
    BY <2>1
  <2>2. Typed(cl, byte) = [cl EXCEPT !.phase = "recv", !.proposed = play]
    BY <1>1 DEF Typed
  <2>3. [cl EXCEPT !.phase = "recv", !.proposed = play].proposed = play
    BY DEF ClientRecords
  <2> QED BY <2>1, <2>2, <2>3 DEF ClientRecords, Phases
<1>2. CASE byte \notin 48..57
  <2>1. Typed(cl, byte) = [cl EXCEPT !.phase = "gone"]
    BY <1>2 DEF Typed
  <2> QED BY <2>1 DEF ClientRecords, Phases
<1> QED BY <1>1, <1>2

\* The part of a message that is received: all of it, but of a board what has arrived.
Taken(s, n) ==
  IF s[1] = INVITE THEN n \in 1..9 ELSE n \in Nat /\ n + 1 = Extent(s[1])

\* What a client is when it has received its first message.
ReceivedAs(s, cl, n, new) ==
  /\ new \in ClientRecords
  /\ PromptsAt(s, 1) => new.phase = "prompt"
  /\ ~PromptsAt(s, 1) => new.phase \in {"recv", "gone"}
  /\ ~PromptsAt(s, 1) /\ s[1] # ACCEPTED => new.proposed = cl.proposed
  /\ s[1] = INVITE => Len(new.board) = n /\ \A i \in 1..n : new.board[i] = s[1 + i]
  /\ s[1] \notin {INVITE, ACCEPTED} => new.board = cl.board

\* It is what Received gives.
LEMMA ReceivedResult ==
  ASSUME NEW s \in Streams, s # << >>, MessageAt(s, 1), NEW cl \in ClientRecords, cl.phase = "recv",
         NEW n, Taken(s, n)
  PROVE  ReceivedAs(s, cl, n, Received(cl, SubSeq(s, 1, n + 1)))
<1> PICK k \in Nat : k = Len(s)
  BY DEF Streams
<1>1. s[1] \in Codes /\ Extent(s[1]) \in {1, 2, 10} /\ Extent(s[1]) <= k
  BY Extents DEF MessageAt
<1>2. n \in 0..9 /\ n + 1 <= k
  <2>1. CASE s[1] = INVITE
    BY <1>1, <2>1, Extents DEF Taken
  <2>2. CASE s[1] # INVITE
    BY <1>1, <2>2 DEF Taken
  <2> QED BY <2>1, <2>2
<1>3. PICK b : b = SubSeq(s, 1, n + 1)
  OBVIOUS
<1>4. \A i \in 1..k : s[i] \in 1..127
  BY DEF Streams
<1>5. b \in Streams /\ Len(b) = n + 1 /\ \A i \in 1..(n + 1) : b[i] = s[i]
  <2>1. b = [i \in 1..(n + 1) |-> s[i]]
    BY <1>2, <1>3
  <2> PICK l \in Nat : l = n + 1 /\ l <= k
    BY <1>2
  <2>2. b = [i \in 1..l |-> b[i]]
    BY <2>1
  <2>3. \A i \in 1..l : b[i] = s[i] /\ b[i] \in 1..127
    BY <1>4, <2>1
  <2>4. b \in Streams /\ Len(b) = l
    BY <2>2, <2>3, FunctionIsStream
  <2> QED BY <2>3, <2>4
<1>6. b # << >> /\ Head(b) = s[1] /\ b[1] = s[1]
  BY <1>2, <1>5 DEF Streams
<1>7. /\ WELCOME # INVITE /\ WELCOME # INVALID /\ INVITE # INVALID /\ ACCEPTED # WELCOME
      /\ ACCEPTED # INVITE /\ ACCEPTED # INVALID
  BY DEF WELCOME, INVITE, INVALID, ACCEPTED
<1>8. Received(cl, b) = CASE s[1] = WELCOME -> ProcessWelcome(cl, b[2])
                          [] s[1] = INVITE -> Prompted([cl EXCEPT !.board = Tail(b)])
                          [] s[1] = INVALID -> Prompted(cl)
                          [] s[1] = ACCEPTED -> SetPlay(cl)
                          [] OTHER -> cl
  BY <1>6 DEF Received
<1> HIDE DEF ReceivedAs
<1>9. \A new \in ClientRecords :
        /\ Prompted(new) \in ClientRecords /\ Prompted(new).phase = "prompt"
        /\ Prompted(new).board = new.board
  BY DEF Prompted, ClientRecords, Phases
<1>10. CASE s[1] = WELCOME
  <2>1. b[2] = s[2] /\ s[2] \in {X, O}
    <3>1. n = 1
      BY <1>7, <1>10, Extents DEF Taken
    <3> QED BY <1>5, <1>10, <3>1 DEF MessageAt
  <2> PICK mark \in {X, O} : mark = s[2]
    BY <2>1
  <2> DEFINE known == [cl EXCEPT !.identity = mark]
  <2>2. known \in ClientRecords /\ known.phase = "recv" /\ known.proposed = cl.proposed
        /\ known.board = cl.board
    BY DEF ClientRecords
  <2>3. Received(cl, b) = IF mark = X THEN Prompted(known) ELSE known
    <3>1. Received(cl, b) = ProcessWelcome(cl, mark)
      BY <1>7, <1>8, <1>10, <2>1
    <3> QED BY <3>1 DEF ProcessWelcome
  <2>4. PromptsAt(s, 1) <=> mark = X
    BY <1>7, <1>10 DEF PromptsAt
  <2> HIDE DEF known
  <2> QED BY <1>3, <1>7, <1>9, <1>10, <2>2, <2>3, <2>4 DEF ReceivedAs
<1>11. CASE s[1] = INVITE
  <2>1. n \in 1..9
    BY <1>11 DEF Taken
  <2>2. \A i \in 1..n : s[1 + i] \in Squares
    BY <1>11, <2>1 DEF MessageAt
  <2> PICK board : board = Tail(b)
    OBVIOUS
  <2>3. board \in Streams /\ Len(board) = n /\ \A i \in 1..n : board[i] = s[1 + i]
    <3>1. Tail(b) \in Streams /\ Len(Tail(b)) = Len(b) - 1
          /\ \A i \in 1..Len(Tail(b)) : Tail(b)[i] = b[i + 1]
      BY ONLY <1>5, <1>6, HeadTailProperties DEF Streams
    <3>2. board \in Streams /\ Len(board) = n /\ \A i \in 1..n : board[i] = b[i + 1]
      BY <1>2, <1>5, <3>1
    <3>3. \A i \in 1..n : i + 1 \in 1..(n + 1) /\ i + 1 = 1 + i
      BY <2>1
    <3> QED BY <1>5, <3>2, <3>3
  <2>4. board \in Seq({0} \cup Squares)
    <3>1. \A i \in 1..n : board[i] \in {0} \cup Squares
      BY <2>2, <2>3
    <3>2. board \in [1..n -> {0} \cup Squares]
      <4>1. DOMAIN board = 1..Len(board) /\ board \in [1..Len(board) -> 1..127]
        BY <2>3, LenProperties DEF Streams
      <4> QED BY <2>3, <3>1, <4>1
    <3>3. n \in Nat
      BY <2>1
    <3> QED BY ONLY <3>2, <3>3, SeqDef
  <2> DEFINE shown == [cl EXCEPT !.board = board]
  <2>5. shown \in ClientRecords /\ shown.board = board
    BY <2>1, <2>3, <2>4 DEF ClientRecords
  <2>6. Received(cl, b) = Prompted(shown)
    BY <1>7, <1>8, <1>11
  <2>7. PromptsAt(s, 1)
    BY <1>11 DEF PromptsAt
  <2> HIDE DEF shown
  <2> QED BY <1>3, <1>9, <1>11, <2>3, <2>5, <2>6, <2>7 DEF ReceivedAs
<1>12. CASE s[1] = INVALID
  <2>1. Received(cl, b) = Prompted(cl) /\ PromptsAt(s, 1)
    BY <1>7, <1>8, <1>12 DEF PromptsAt
  <2> QED BY <1>3, <1>7, <1>9, <1>12, <2>1 DEF ReceivedAs
<1>13. CASE s[1] = ACCEPTED
  <2>1. Received(cl, b) = SetPlay(cl) /\ ~PromptsAt(s, 1)
    BY <1>7, <1>8, <1>13 DEF PromptsAt
  <2> QED BY <1>3, <1>7, <1>13, <2>1, SetPlayResult DEF ReceivedAs
<1>14. CASE s[1] \notin {WELCOME, INVITE, INVALID, ACCEPTED}
  <2>1. Received(cl, b) = cl /\ ~PromptsAt(s, 1)
    BY <1>8, <1>14 DEF PromptsAt
  <2> QED BY <1>3, <1>14, <2>1 DEF ReceivedAs
<1> QED BY <1>10, <1>11, <1>12, <1>13, <1>14

\* A client whose program has ended is gone; one that has not connected is new, and
\* nothing has been sent either way.
Peers ==
  \A c \in Clients :
    /\ HasLeft(peer, c) => client[c].phase = "gone"
    /\ peer[c] = "none" => client[c] = NewClient /\ to_client[c] = << >> /\ to_server[c] = << >>

\* 1 for the client who is to be answered, or to be asked, before it makes a move: the one
\* that has the turn, but for X when it has still to be welcomed.
Owed(c) ==
  IF /\ c = env.fd_current_player
     /\ \/ perform \in {"waiting_for_client", "validate_input", "send_response_to_client", "game_over"}
        \/ perform = "send_assignment" /\ c # env.fd_client_X
  THEN 1 ELSE 0

\* Clients that are there can follow what is on its way to them.
Followed ==
  \A c \in Clients : peer[c] = "open" => Flows(to_client[c], client[c], Owed(c))

ClientsInv ==
  /\ client \in [Clients -> ClientRecords]
  /\ to_client \in [Clients -> Streams]
  /\ to_server \in [Clients -> Streams]
  /\ Peers
  /\ Followed

\* The clients at first.
LEMMA ClientsInit == Init => ClientsInv
<1> SUFFICES ASSUME Init PROVE ClientsInv
  OBVIOUS
<1>1. \A c \in Clients : /\ client[c] = NewClient /\ peer[c] = "none"
                         /\ to_client[c] = << >> /\ to_server[c] = << >>
  BY DEF Init
<1>2. << >> \in Streams
  BY DEF Streams
<1>3. client \in [Clients -> ClientRecords]
  BY NewClientTyped DEF Init
<1>4. to_client \in [Clients -> Streams] /\ to_server \in [Clients -> Streams]
  BY <1>2 DEF Init
<1>5. Peers
  BY <1>1 DEF Peers, HasLeft
<1>6. Followed
  BY <1>1 DEF Followed
<1> QED BY <1>3, <1>4, <1>5, <1>6 DEF ClientsInv

\* A client connects.
LEMMA ClientsConnect ==
  ASSUME ServerInv, ClientsInv, NEW c \in Clients, Connect(c)
  PROVE  ClientsInv'
<1>1. /\ peer[c] = "none" /\ peer' = [peer EXCEPT ![c] = "open"] /\ client' = client
      /\ to_client' = to_client /\ to_server' = to_server /\ env' = env /\ perform' = perform
  BY DEF Connect, server
<1>2. peer'[c] = "open" /\ \A d \in Clients \ {c} : peer'[d] = peer[d]
  BY <1>1 DEF ServerInv
<1>3. Peers'
  BY <1>1, <1>2 DEF ClientsInv, Peers, HasLeft
<1>4. ASSUME NEW d \in Clients, peer'[d] = "open" PROVE Flows(to_client[d], client[d], Owed(d))
  <2>1. CASE d = c
    <3>1. to_client[c] = << >> /\ client[c] = NewClient
      BY <1>1 DEF ClientsInv, Peers
    <3>2. Owed(c) # 1
      <4>1. c \notin 1..accepted
        BY <1>1 DEF ServerInv
      <4> QED BY <4>1 DEF Owed, ServerInv, Seated
    <3>3. Flows(<< >>, NewClient, 0) /\ (Owed(c) = 1 => 0 = 1)
      BY <3>2, NothingFlows
    <3> QED BY <2>1, <3>1, <3>3, FlowsToOther
  <2>2. CASE d # c
    BY <1>2, <1>4, <2>2 DEF ClientsInv, Followed
  <2> QED BY <2>1, <2>2
<1>5. Followed'
  BY <1>1, <1>4 DEF Followed, Owed
<1> QED BY <1>1, <1>3, <1>5 DEF ClientsInv

\* What a client's own step leaves, when it can still follow what it is sent.
LEMMA ClientBecomesOther ==
  ASSUME ServerInv, ClientsInv, NEW c \in Clients, peer[c] = "open",
         NEW new \in ClientRecords, ClientBecomes(c, new),
         NEW s \in Streams, to_client' = [to_client EXCEPT ![c] = s],
         NEW t \in Streams, to_server' = [to_server EXCEPT ![c] = t],
         UNCHANGED server,
         new.phase # "gone" => Flows(s, new, Owed(c))
  PROVE  ClientsInv'
<1>1. /\ client' = [client EXCEPT ![c] = new]
      /\ peer' = IF new.phase = "gone" THEN [peer EXCEPT ![c] = "closed"] ELSE peer
      /\ env' = env /\ perform' = perform
  BY DEF ClientBecomes, server
<1>2. /\ client' \in [Clients -> ClientRecords]
      /\ to_client' \in [Clients -> Streams]
      /\ to_server' \in [Clients -> Streams]
  BY <1>1 DEF ClientsInv
<1>3. /\ client'[c] = new /\ to_client'[c] = s
      /\ peer'[c] = IF new.phase = "gone" THEN "closed" ELSE "open"
  BY <1>1 DEF ClientsInv, ServerInv
<1>4. ASSUME NEW d \in Clients, d # c
      PROVE  /\ client'[d] = client[d] /\ to_client'[d] = to_client[d]
             /\ to_server'[d] = to_server[d] /\ peer'[d] = peer[d]
  BY <1>1, <1>4 DEF ClientsInv, ServerInv
<1>5. Peers'
  <2> SUFFICES ASSUME NEW d \in Clients
               PROVE  /\ HasLeft(peer', d) => client'[d].phase = "gone"
                      /\ peer'[d] = "none" => /\ client'[d] = NewClient
                                              /\ to_client'[d] = << >> /\ to_server'[d] = << >>
    BY DEF Peers
  <2>1. CASE d = c
    BY <1>3, <2>1 DEF HasLeft
  <2>2. CASE d # c
    BY <1>4, <2>2 DEF ClientsInv, Peers, HasLeft
  <2> QED BY <2>1, <2>2
<1>6. Followed'
  <2>1. \A d \in Clients : Owed(d)' = Owed(d)
    BY <1>1 DEF Owed
  <2> SUFFICES ASSUME NEW d \in Clients, peer'[d] = "open"
               PROVE  Flows(to_client'[d], client'[d], Owed(d))
    BY <2>1 DEF Followed
  <2>2. CASE d = c
    BY <1>3, <2>2
  <2>3. CASE d # c
    BY <1>4, <2>3 DEF ClientsInv, Followed
  <2> QED BY <2>2, <2>3
<1> QED BY <1>2, <1>5, <1>6 DEF ClientsInv

\* A user types a move.
LEMMA ClientsType ==
  ASSUME ServerInv, ClientsInv, NEW c \in Clients, NEW byte \in Keys[c], Type(c, byte)
  PROVE  ClientsInv'
<1> DEFINE new == Typed(client[c], byte)
           t == Append(to_server[c], byte)
<1>1. byte \in 1..127 /\ client[c] \in ClientRecords /\ to_client[c] \in Streams
      /\ to_server[c] \in Streams
  BY KeysAreBytes DEF ClientsInv
<1>2. /\ peer[c] = "open" /\ client[c].phase = "prompt" /\ ClientBecomes(c, new)
      /\ to_server' = [to_server EXCEPT ![c] = t]
      /\ to_client' = to_client /\ UNCHANGED server
  BY DEF Type
<1>3. t \in Streams
  BY <1>1 DEF Streams
<1>4. new \in ClientRecords /\ (new.phase # "gone" => Ready(new))
  BY <1>1, TypedResult DEF Ready
<1> HIDE DEF new, t
<1>5. to_client' = [to_client EXCEPT ![c] = to_client[c]]
  BY <1>2 DEF ClientsInv
<1>6. Flows(to_client[c], client[c], Owed(c))
  BY <1>2 DEF ClientsInv, Followed
<1>7. new.phase # "gone" => Flows(to_client[c], new, Owed(c))
  BY <1>4, <1>6, FlowsToOther
<1> QED BY <1>1, <1>2, <1>3, <1>4, <1>5, <1>7, ClientBecomesOther

\* A user ends the program.
LEMMA ClientsLeave ==
  ASSUME ServerInv, ClientsInv, NEW c \in Clients, Leave(c)
  PROVE  ClientsInv'
<1> DEFINE new == [client[c] EXCEPT !.phase = "gone"]
<1>1. client[c] \in ClientRecords /\ to_client[c] \in Streams /\ to_server[c] \in Streams
  BY DEF ClientsInv
<1>2. peer[c] = "open" /\ ClientBecomes(c, new) /\ to_client' = to_client /\ to_server' = to_server
      /\ UNCHANGED server
  BY DEF Leave
<1>3. new \in ClientRecords /\ new.phase = "gone"
  BY <1>1 DEF ClientRecords, Phases
<1> HIDE DEF new
<1>4. /\ to_client' = [to_client EXCEPT ![c] = to_client[c]]
      /\ to_server' = [to_server EXCEPT ![c] = to_server[c]]
  BY <1>2 DEF ClientsInv
<1> QED BY <1>1, <1>2, <1>3, <1>4, ClientBecomesOther

\* A message is received.
LEMMA ReceiveTakes ==
  ASSUME ServerInv, ClientsInv, NEW c \in Clients, Receive(c)
  PROVE  LET s == to_client[c]
         IN  /\ peer[c] = "open" /\ client[c].phase = "recv" /\ s # << >> /\ s \in Streams
             /\ MessageAt(s, 1)
             /\ \E n : \E new : /\ Taken(s, n) /\ ReceivedAs(s, client[c], n, new)
                                /\ ClientBecomes(c, new)
             /\ \E t \in Streams : /\ Dropped(s, Extent(s[1]), t)
                                   /\ to_client' = [to_client EXCEPT ![c] = t]
             /\ UNCHANGED << server, to_server >>
<1> PICK s \in Streams : s = to_client[c]
  BY DEF ClientsInv
<1>1. /\ peer[c] = "open" /\ client[c].phase = "recv" /\ s # << >>
      /\ UNCHANGED << server, to_server >>
  BY DEF Receive
<1>2. Head(s) = s[1]
  OBVIOUS
<1>3. /\ \E n \in IF s[1] = INVITE THEN Pieces[c] ELSE {Extent(s[1]) - 1} :
           ClientBecomes(c, Received(client[c], SubSeq(s, 1, n + 1)))
      /\ to_client' = [to_client EXCEPT ![c] = SubSeq(@, Extent(s[1]) + 1, Len(@))]
  BY <1>2 DEF Receive
<1>4. MessageAt(s, 1)
  <2>1. Flows(s, client[c], Owed(c))
    BY <1>1 DEF ClientsInv, Followed
  <2> QED BY <1>1, <2>1, FlowsHead
<1>5. Extent(s[1]) \in {1, 2, 10} /\ Extent(s[1]) <= Len(s)
  <2> PICK k \in Nat : k = Len(s)
    BY DEF Streams
  <2> QED BY <1>4, Extents DEF MessageAt
<1>6. \E n : \E new : Taken(s, n) /\ ReceivedAs(s, client[c], n, new) /\ ClientBecomes(c, new)
  <2>1. PICK n \in IF s[1] = INVITE THEN Pieces[c] ELSE {Extent(s[1]) - 1} :
             ClientBecomes(c, Received(client[c], SubSeq(s, 1, n + 1)))
    BY <1>3
  <2>2. Taken(s, n)
    BY <1>5, PiecesAssumption DEF Taken
  <2>3. client[c] \in ClientRecords
    BY DEF ClientsInv
  <2>4. ReceivedAs(s, client[c], n, Received(client[c], SubSeq(s, 1, n + 1)))
    BY <1>1, <1>4, <2>2, <2>3, ReceivedResult
  <2> QED BY <2>1, <2>2, <2>4
<1>7. \E t \in Streams : Dropped(s, Extent(s[1]), t) /\ to_client' = [to_client EXCEPT ![c] = t]
  <2> PICK e \in Nat : e = Extent(s[1]) /\ e <= Len(s)
    BY <1>5
  <2> DEFINE t == SubSeq(s, e + 1, Len(s))
  <2>1. Dropped(s, e, t)
    BY SubSeqDrops
  <2>2. to_client' = [to_client EXCEPT ![c] = t]
    BY <1>3
  <2>3. t \in Streams
    BY <2>1 DEF Dropped
  <2> HIDE DEF t
  <2> QED BY <2>1, <2>2, <2>3
<1> QED BY <1>1, <1>4, <1>6, <1>7

\* It leaves a client that can follow the rest.
LEMMA ClientsReceive ==
  ASSUME ServerInv, ClientsInv, NEW c \in Clients, Receive(c)
  PROVE  ClientsInv'
<1> PICK s \in Streams : s = to_client[c]
  BY DEF ClientsInv
<1>1. /\ peer[c] = "open" /\ client[c].phase = "recv" /\ s # << >> /\ MessageAt(s, 1)
      /\ \E n : \E new : Taken(s, n) /\ ReceivedAs(s, client[c], n, new) /\ ClientBecomes(c, new)
      /\ \E t \in Streams : Dropped(s, Extent(s[1]), t) /\ to_client' = [to_client EXCEPT ![c] = t]
      /\ UNCHANGED << server, to_server >>
  BY ReceiveTakes
<1> PICK n, new : Taken(s, n) /\ ReceivedAs(s, client[c], n, new) /\ ClientBecomes(c, new)
  BY <1>1
<1> PICK t \in Streams : Dropped(s, Extent(s[1]), t) /\ to_client' = [to_client EXCEPT ![c] = t]
  BY <1>1
<1>2. Flows(s, client[c], Owed(c))
  BY <1>1 DEF ClientsInv, Followed
<1>3. PromptsAt(s, 1) \/ (s[1] # ACCEPTED /\ Ready(client[c])) => Ready(new)
  BY <1>1 DEF Ready, ReceivedAs
<1>4. Flows(t, new, Owed(c))
  BY <1>1, <1>2, <1>3, FlowsDrop
<1>5. to_server[c] \in Streams /\ to_server' = [to_server EXCEPT ![c] = to_server[c]]
  BY <1>1 DEF ClientsInv
<1>6. new \in ClientRecords
  BY DEF ReceivedAs
<1> QED BY <1>1, <1>4, <1>5, <1>6, ClientBecomesOther

\* What a client is sent can be followed: nothing, and it is owed no more than before, or a
\* message, which is ACCEPTED only if it is owed that.
Delivers(m, before, after) ==
  \/ m = << >> /\ (after = 1 => before = 1)
  \/ /\ IsMessage(m)
     /\ m[1] = ACCEPTED => before = 1
     /\ after = 1 => PromptsAt(m, 1) \/ (m[1] # ACCEPTED /\ before = 1)

\* What a step of the server leaves of the streams.
LEMMA StreamsSent ==
  ASSUME peer \in [Clients -> PeerStates], to_client \in [Clients -> Streams], NEW r, Leaves(r),
         \A c \in Clients : BytesTo(c, r.out) \in Streams
  PROVE  /\ to_client' \in [Clients -> Streams]
         /\ \A c \in Clients : IF peer[c] = "open"
                                 THEN Joined(to_client[c], BytesTo(c, r.out), to_client'[c])
                                 ELSE to_client'[c] = to_client[c]
         /\ \A c \in Clients : BytesTo(c, r.out) = << >> => to_client'[c] = to_client[c]
<1>1. to_client' = [c \in Clients |-> to_client[c] \o IF peer[c] = "open" THEN BytesTo(c, r.out) ELSE << >>]
  BY DEF Leaves
<1>2. ASSUME NEW c \in Clients
      PROVE  /\ to_client'[c] \in Streams
             /\ IF peer[c] = "open" THEN Joined(to_client[c], BytesTo(c, r.out), to_client'[c])
                ELSE to_client'[c] = to_client[c]
             /\ BytesTo(c, r.out) = << >> => to_client'[c] = to_client[c]
  <2> PICK s \in Streams : s = to_client[c]
    OBVIOUS
  <2> PICK m \in Streams : m = BytesTo(c, r.out)
    OBVIOUS
  <2>1. to_client'[c] = s \o IF peer[c] = "open" THEN m ELSE << >>
    BY <1>1
  <2>2. s \o << >> = s
    BY ConcatEmptySeq DEF Streams
  <2>3. Joined(s, m, s \o m)
    BY ConcatJoins
  <2>4. s \o m \in Streams
    BY <2>3 DEF Joined
  <2> QED BY <2>1, <2>2, <2>3, <2>4
<1>3. to_client' \in [Clients -> Streams]
  <2>1. to_client' = [c \in Clients |-> to_client'[c]]
    BY <1>1
  <2> QED BY <1>2, <2>1
<1> QED BY <1>2, <1>3

\* A step of the server leaves clients that can follow, if it delivers what they can.
LEMMA ClientsServed ==
  ASSUME ServerInv, ClientsInv, NEW r, Leaves(r), client' = client,
         \A c \in Clients : BytesTo(c, r.out) \in Streams /\ Delivers(BytesTo(c, r.out), Owed(c), Owed(c)'),
         to_server' \in [Clients -> Streams],
         \A c \in Clients : peer[c] = "none" => to_server'[c] = to_server[c]
  PROVE  ClientsInv'
<1>1. /\ \A c \in Clients : /\ HasLeft(peer', c) <=> HasLeft(peer, c)
                            /\ peer'[c] = "none" <=> peer[c] = "none"
                            /\ peer'[c] = "open" <=> peer[c] = "open"
  BY Left DEF ServerInv
<1>2. /\ to_client' \in [Clients -> Streams]
      /\ \A c \in Clients : IF peer[c] = "open"
                              THEN Joined(to_client[c], BytesTo(c, r.out), to_client'[c])
                              ELSE to_client'[c] = to_client[c]
      /\ \A c \in Clients : BytesTo(c, r.out) = << >> => to_client'[c] = to_client[c]
  BY StreamsSent DEF ServerInv, ClientsInv
<1>3. Peers'
  <2> SUFFICES ASSUME NEW c \in Clients
               PROVE  /\ HasLeft(peer', c) => client'[c].phase = "gone"
                      /\ peer'[c] = "none" => /\ client'[c] = NewClient
                                              /\ to_client'[c] = << >> /\ to_server'[c] = << >>
    BY DEF Peers
  <2>1. peer[c] = "none" => to_client'[c] = to_client[c]
    BY <1>2
  <2> QED BY <1>1, <2>1 DEF ClientsInv, Peers
<1>4. ASSUME NEW c \in Clients, peer'[c] = "open"
      PROVE  Flows(to_client'[c], client'[c], Owed(c)')
  <2> PICK after : after = Owed(c)'
    OBVIOUS
  <2> PICK before : before = Owed(c)
    OBVIOUS
  <2> PICK m \in Streams : m = BytesTo(c, r.out)
    OBVIOUS
  <2> PICK s \in Streams : s = to_client[c]
    BY DEF ClientsInv
  <2> PICK t \in Streams : t = to_client'[c]
    BY <1>2
  <2>1. Delivers(m, before, after) /\ Flows(s, client[c], before)
    BY <1>1, <1>4 DEF ClientsInv, Followed
  <2>2. CASE m = << >> /\ (after = 1 => before = 1)
    <3>1. t = s
      BY <1>2, <2>2
    <3>2. Flows(s, client[c], after)
      BY <2>1, <2>2, FlowsToOther
    <3> QED BY <3>1, <3>2
  <2>3. CASE /\ IsMessage(m)
             /\ m[1] = ACCEPTED => before = 1
             /\ after = 1 => PromptsAt(m, 1) \/ (m[1] # ACCEPTED /\ before = 1)
    <3>1. Joined(s, m, t)
      BY <1>1, <1>2, <1>4
    <3>2. Flows(t, client[c], after)
      BY <2>1, <2>3, <3>1, FlowsJoin
    <3> QED BY <3>2
  <2> QED BY <2>1, <2>2, <2>3 DEF Delivers
<1>5. Followed'
  BY <1>4 DEF Followed
<1> QED BY <1>2, <1>3, <1>5 DEF ClientsInv

\* Nothing is delivered by the steps that send nothing, if nobody comes to be owed.
LEMMA ClientsServedNothing ==
  ASSUME ServerInv, ClientsInv, NEW r, Leaves(r), client' = client, r.out = << >>,
         \A c \in Clients : Owed(c)' = 1 => Owed(c) = 1,
         to_server' \in [Clients -> Streams],
         \A c \in Clients : peer[c] = "none" => to_server'[c] = to_server[c]
  PROVE  ClientsInv'
<1>1. \A c \in Clients : BytesTo(c, r.out) = << >> /\ << >> \in Streams
  BY NothingSent DEF Streams
<1>2. \A c \in Clients : /\ BytesTo(c, r.out) \in Streams
                         /\ Delivers(BytesTo(c, r.out), Owed(c), Owed(c)')
  BY <1>1 DEF Delivers
<1> QED BY <1>2, ClientsServed

\* Who is owed after a step.
LEMMA OwedAfter ==
  ASSUME NEW r, NEW handler, Leaves(r), FsmTransition(FirstTable, to_id, r.ret) = handler,
         peer \in [Clients -> PeerStates], r.env \in GameEnvs
  PROVE  /\ perform' = handler
         /\ env'.fd_current_player = r.env.fd_current_player /\ env'.fd_client_X = r.env.fd_client_X
<1>1. perform' = handler /\ env' \in {r.env, [r.env EXCEPT !.one_byte = 0]}
  BY Left
<1>2. LET f == [r.env EXCEPT !.one_byte = 0]
      IN  f.fd_current_player = r.env.fd_current_player /\ f.fd_client_X = r.env.fd_client_X
  <2>1. 0 \in 0..127
    OBVIOUS
  <2> QED BY <2>1, ByteEnv
<1> QED BY <1>1, <1>2

\* No bytes are a stream.
LEMMA NoBytes == << >> \in Streams
BY DEF Streams

\* A client is accepted, and nothing is sent.
LEMMA ClientsAccepted ==
  ASSUME ServerInv, ClientsInv, NEW c \in Clients, AcceptX(c) \/ AcceptO(c)
  PROVE  ClientsInv'
<1>1. CASE AcceptX(c)
  <2> DEFINE r == ServerOn(env, c)
  <2>1. Leaves(r) /\ to_id = ACCEPT_PLAYER_X /\ client' = client /\ to_server' = to_server
    BY <1>1 DEF AcceptX, Dispatches, ServerInv, Paired
  <2>2. r.out = << >> /\ r.ret = ACCEPT_PLAYER_O
    BY DEF ServerOn, Result
  <2> HIDE DEF r
  <2>3. perform' = "connect_player_o"
    BY <2>1, <2>2, RowsFound, Left DEF ServerInv
  <2>4. \A d \in Clients : Owed(d)' = 1 => Owed(d) = 1
    BY <2>3 DEF Owed
  <2> QED BY <2>1, <2>2, <2>4, ClientsServedNothing DEF ClientsInv
<1>2. CASE AcceptO(c)
  <2> DEFINE r == ConnectPlayerO(env, c)
             e == [env EXCEPT !.fd_client_O = c]
  <2>1. Leaves(r) /\ to_id = ACCEPT_PLAYER_O /\ client' = client /\ to_server' = to_server
        /\ env.fd_current_player = env.fd_client_X
    BY <1>2 DEF AcceptO, Dispatches, ServerInv, Paired, Seated
  <2>2. r.out = << >> /\ r.ret = READY /\ r.env = e
    BY DEF ConnectPlayerO, Result
  <2>3. e.fd_current_player = env.fd_current_player /\ e.fd_client_X = env.fd_client_X
    BY DEF ServerInv, GameEnvs
  <2> HIDE DEF r, e
  <2>4. perform' = "send_assignment" /\ env' = e
    BY <2>1, <2>2, RowsFound, Left DEF ServerInv
  <2>5. \A d \in Clients : Owed(d)' = 1 => Owed(d) = 1
    BY <2>1, <2>3, <2>4 DEF Owed
  <2> QED BY <2>1, <2>2, <2>5, ClientsServedNothing DEF ClientsInv
<1> QED BY <1>1, <1>2

\* What the player who has the turn sent is read.
LEMMA StreamRead ==
  ASSUME ServerInv, ClientsInv, perform = "waiting_for_client", NEW c \in Clients,
         c = env.fd_current_player, to_server[c] # << >>,
         to_server' = [to_server EXCEPT ![c] = Tail(@)]
  PROVE  /\ to_server' \in [Clients -> Streams]
         /\ \A d \in Clients : peer[d] = "none" => to_server'[d] = to_server[d]
         /\ \A d \in Clients : d # c => to_server'[d] = to_server[d]
         /\ to_server'[c] = Tail(to_server[c])
<1>1. to_server[c] \in Streams
  BY DEF ClientsInv
<1>2. Tail(to_server[c]) \in Streams
  BY <1>1 DEF Streams
<1>3. to_server' = [to_server EXCEPT ![c] = Tail(to_server[c])]
  OBVIOUS
<1>4. peer[c] # "none"
  BY DEF ServerInv, Seated
<1> PICK t \in Streams : t = Tail(to_server[c])
  BY <1>2
<1> QED BY <1>3, <1>4 DEF ClientsInv

\* The server reads a byte, or that there will be none.
LEMMA ClientsRead ==
  ASSUME ServerInv, ClientsInv, NEW c \in Clients, ReadByte(c) \/ ReadEnd(c)
  PROVE  ClientsInv'
<1>1. CASE ReadByte(c)
  <2>1. Head(to_server[c]) \in 1..127
    BY <1>1, ReadKeepsTypes DEF ReadByte
  <2> PICK byte \in 1..127 : byte = Head(to_server[c])
    BY <2>1
  <2> DEFINE r == WaitingForClient(env, byte)
             e == [env EXCEPT !.one_byte = byte]
  <2>2. /\ Leaves(r) /\ to_id = WAIT /\ perform = "waiting_for_client" /\ client' = client
        /\ c = env.fd_current_player /\ to_server[c] # << >>
        /\ to_server' = [to_server EXCEPT ![c] = Tail(@)]
    BY <1>1 DEF ReadByte, Dispatches, ServerInv, Paired
  <2>3. r.out = << >> /\ r.ret = VALIDATE /\ r.env = e
    BY DEF WaitingForClient, Result
  <2>4. e.fd_current_player = env.fd_current_player /\ e.fd_client_X = env.fd_client_X
    <3>1. env \in GameEnvs /\ byte \in 0..127
      BY DEF ServerInv
    <3> QED BY <3>1, ByteEnv
  <2> HIDE DEF r, e
  <2>5. perform' = "validate_input" /\ env' = e
    BY <2>2, <2>3, RowsFound, Left DEF ServerInv
  <2>6. \A d \in Clients : Owed(d)' = 1 => Owed(d) = 1
    BY <2>2, <2>4, <2>5 DEF Owed
  <2>7. /\ to_server' \in [Clients -> Streams]
        /\ \A d \in Clients : peer[d] = "none" => to_server'[d] = to_server[d]
    BY <2>2, StreamRead
  <2> QED BY <2>2, <2>3, <2>6, <2>7, ClientsServedNothing
<1>2. CASE ReadEnd(c)
  <2> DEFINE r == WaitingForClient(env, 0)
  <2>1. Leaves(r) /\ to_id = WAIT /\ client' = client /\ to_server' = to_server
    BY <1>2 DEF ReadEnd, Dispatches, ServerInv, Paired
  <2>2. r.out = << >> /\ r.ret = ACCEPT_PLAYER_O
    BY DEF WaitingForClient, Result
  <2> HIDE DEF r
  <2>3. perform' = "connect_player_o"
    BY <2>1, <2>2, RowsFound, Left DEF ServerInv
  <2>4. \A d \in Clients : Owed(d)' = 1 => Owed(d) = 1
    BY <2>3 DEF Owed
  <2> QED BY <2>1, <2>2, <2>4, ClientsServedNothing DEF ClientsInv
<1> QED BY <1>1, <1>2

\* Both players are welcomed.
LEMMA ClientsAssigned ==
  ASSUME ServerInv, ClientsInv, Runs("send_assignment", SendAssignment(env))
  PROVE  ClientsInv'
<1> DEFINE r == SendAssignment(env)
           f == [env EXCEPT !.game_board = BlankBoard]
<1>1. /\ Leaves(r) /\ perform = "send_assignment" /\ to_id = READY
      /\ client' = client /\ to_server' = to_server
      /\ env.fd_client_O # env.fd_client_X
      /\ env.fd_current_player \in {env.fd_client_X, env.fd_client_O}
  BY DEF Runs, Dispatches, ServerInv, Paired, Seated
<1>2. r.ret = WAIT /\ r.env = f
  BY DEF SendAssignment, Result
<1>3. /\ f \in GameEnvs /\ f.fd_client_X = env.fd_client_X
      /\ f.fd_current_player = env.fd_current_player
  BY DEF ServerInv, GameEnvs, BlankBoard
<1> HIDE DEF r, f
<1>4. /\ perform' = "waiting_for_client" /\ env'.fd_current_player = env.fd_current_player
      /\ env'.fd_client_X = env.fd_client_X
  BY <1>1, <1>2, <1>3, RowsFound, OwedAfter DEF ServerInv
<1>5. ASSUME NEW c \in Clients
      PROVE  BytesTo(c, r.out) \in Streams /\ Delivers(BytesTo(c, r.out), Owed(c), Owed(c)')
  <2> PICK after : after = Owed(c)'
    OBVIOUS
  <2> PICK before : before = Owed(c)
    OBVIOUS
  <2> PICK m : m = BytesTo(c, r.out)
    OBVIOUS
  <2>1. after = 1 <=> c = env.fd_current_player
    BY <1>4 DEF Owed
  <2>2. before = 1 <=> c = env.fd_current_player /\ c # env.fd_client_X
    BY <1>1 DEF Owed
  <2>3. /\ c = env.fd_client_X => m \in Streams /\ Len(m) = 2 /\ m[1] = WELCOME /\ m[2] = X
        /\ c = env.fd_client_O => m \in Streams /\ Len(m) = 2 /\ m[1] = WELCOME /\ m[2] = O
        /\ c \notin {env.fd_client_X, env.fd_client_O} => m = << >>
    BY <1>1, AssignmentSent DEF r
  <2>4. WELCOME # ACCEPTED
    BY DEF WELCOME, ACCEPTED
  <2>5. CASE c = env.fd_client_X
    <3>1. m \in Streams /\ IsMessage(m) /\ PromptsAt(m, 1)
      BY <2>3, <2>5, MessagesSent
    <3> QED BY <2>3, <2>4, <2>5, <3>1 DEF Delivers
  <2>6. CASE c = env.fd_client_O
    <3>1. m \in Streams /\ IsMessage(m)
      BY <2>3, <2>6, MessagesSent
    <3> QED BY <1>1, <2>1, <2>2, <2>3, <2>4, <2>6, <3>1 DEF Delivers
  <2>7. CASE c \notin {env.fd_client_X, env.fd_client_O}
    <3>1. m = << >> /\ m \in Streams /\ after # 1
      BY <1>1, <2>1, <2>3, <2>7, NoBytes
    <3> QED BY <3>1 DEF Delivers
  <2> QED BY <2>5, <2>6, <2>7
<1> QED BY <1>1, <1>5, ClientsServed DEF ClientsInv

\* A move is looked at, and nothing is sent.
LEMMA ClientsValidated ==
  ASSUME ServerInv, ClientsInv, Runs("validate_input", ValidateInput(env))
  PROVE  ClientsInv'
<1> DEFINE r == ValidateInput(env)
<1>1. /\ Leaves(r) /\ perform = "validate_input" /\ to_id = VALIDATE
      /\ client' = client /\ to_server' = to_server /\ env \in GameEnvs
  BY DEF Runs, Dispatches, ServerInv, Paired
<1>2. /\ r.out = << >> /\ r.ret \in {WAIT, GAMEOVER} /\ r.env \in GameEnvs
      /\ r.env.fd_current_player = env.fd_current_player /\ r.env.fd_client_X = env.fd_client_X
  BY <1>1, ValidateResult
<1> HIDE DEF r
<1>3. /\ perform' \in {"send_response_to_client", "game_over"}
      /\ env'.fd_current_player = env.fd_current_player /\ env'.fd_client_X = env.fd_client_X
  BY <1>1, <1>2, RowsFound, OwedAfter DEF ServerInv
<1>4. \A c \in Clients : Owed(c)' = 1 => Owed(c) = 1
  BY <1>1, <1>3 DEF Owed
<1> QED BY <1>1, <1>2, <1>4, ClientsServedNothing DEF ClientsInv

\* The player is told whether the move is accepted; if it is the next one is invited.
LEMMA ClientsAnswered ==
  ASSUME ServerInv, ClientsInv, Runs("send_response_to_client", SendResponse(env))
  PROVE  ClientsInv'
<1> DEFINE r == SendResponse(env)
<1>1. /\ Leaves(r) /\ perform = "send_response_to_client" /\ to_id = WAIT
      /\ client' = client /\ to_server' = to_server /\ env \in GameEnvs
      /\ env.fd_client_O # env.fd_client_X
      /\ env.fd_current_player \in {env.fd_client_X, env.fd_client_O}
      /\ env.response_type = ACCEPTED => env.play_count # 9
  BY DEF Runs, Dispatches, ServerInv, Paired, Seated, Counted
<1>2. r.ret = WAIT
  BY DEF SendResponse, Result
<1>3. \A c : Owed(c) = 1 <=> c = env.fd_current_player
  BY <1>1 DEF Owed
<1>4. CASE env.response_type # ACCEPTED
  <2>1. r.env = env
    BY <1>4 DEF SendResponse, Result
  <2> HIDE DEF r
  <2>2. perform' = "waiting_for_client" /\ env'.fd_current_player = env.fd_current_player
    BY <1>1, <1>2, <2>1, RowsFound, OwedAfter DEF ServerInv
  <2>3. ASSUME NEW c \in Clients
        PROVE  BytesTo(c, r.out) \in Streams /\ Delivers(BytesTo(c, r.out), Owed(c), Owed(c)')
    <3> PICK after : after = Owed(c)'
      OBVIOUS
    <3> PICK m : m = BytesTo(c, r.out)
      OBVIOUS
    <3>1. after = 1 <=> c = env.fd_current_player
      BY <2>2 DEF Owed
    <3>2. /\ c = env.fd_current_player => m \in Streams /\ Len(m) = 1 /\ m[1] = INVALID
          /\ c # env.fd_current_player => m = << >>
      BY <1>4, RefusalSent DEF r
    <3>3. CASE c = env.fd_current_player
      <4>1. m \in Streams /\ IsMessage(m) /\ PromptsAt(m, 1)
        BY <3>2, <3>3, MessagesSent
      <4> QED BY <1>3, <3>3, <4>1 DEF Delivers
    <3>4. CASE c # env.fd_current_player
      <4>1. m = << >> /\ m \in Streams /\ after # 1
        BY <3>1, <3>2, <3>4, NoBytes
      <4> QED BY <4>1 DEF Delivers
    <3> QED BY <3>3, <3>4
  <2> QED BY <1>1, <2>3, ClientsServed DEF ClientsInv
<1>5. CASE env.response_type = ACCEPTED
  <2> PICK next : next = SwitchPlayers(env)
    OBVIOUS
  <2>1. r.env = next
    BY <1>5 DEF SendResponse, Result
  <2>2. /\ next \in GameEnvs /\ next.fd_current_player # env.fd_current_player
    BY <1>1, <1>5, SwitchResult
  <2>3. next.game_board \in [Cells -> Squares]
    BY <2>2 DEF GameEnvs, Squares
  <2> HIDE DEF r
  <2>4. perform' = "waiting_for_client" /\ env'.fd_current_player = next.fd_current_player
    BY <1>1, <1>2, <2>1, <2>2, RowsFound, OwedAfter DEF ServerInv
  <2>5. ASSUME NEW c \in Clients
        PROVE  BytesTo(c, r.out) \in Streams /\ Delivers(BytesTo(c, r.out), Owed(c), Owed(c)')
    <3> PICK after : after = Owed(c)'
      OBVIOUS
    <3> PICK m : m = BytesTo(c, r.out)
      OBVIOUS
    <3>1. after = 1 <=> c = next.fd_current_player
      BY <2>4 DEF Owed
    <3>2. /\ c = env.fd_current_player => m \in Streams /\ Len(m) = 1 /\ m[1] = ACCEPTED
          /\ c = next.fd_current_player =>
               /\ m \in Streams /\ Len(m) = 10 /\ m[1] = INVITE
               /\ \A n \in 1..9 : m[1 + n] = next.game_board[n - 1]
          /\ c \notin {env.fd_current_player, next.fd_current_player} => m = << >>
      <4>1. m = BytesTo(c, SendResponse(env).out)
        BY DEF r
      <4>2. Invites(env, next, c, m)
        BY ONLY <1>5, <2>2, <2>3, <4>1, next = SwitchPlayers(env), InvitationSent
      <4> QED BY <4>2 DEF Invites
    <3>3. CASE c = env.fd_current_player
      <4>1. m \in Streams /\ IsMessage(m)
        BY <3>2, <3>3, MessagesSent
      <4> QED BY <1>3, <2>2, <3>1, <3>3, <4>1 DEF Delivers
    <3>4. CASE c = next.fd_current_player
      <4>1. \A n \in 1..9 : m[1 + n] \in Squares
        BY <2>3, <3>2, <3>4 DEF Cells
      <4>2. m \in Streams /\ IsMessage(m) /\ PromptsAt(m, 1)
        BY <3>2, <3>4, <4>1, MessagesSent
      <4>3. m[1] # ACCEPTED
        BY <3>2, <3>4 DEF INVITE, ACCEPTED
      <4> QED BY <4>2, <4>3 DEF Delivers
    <3>5. CASE c \notin {env.fd_current_player, next.fd_current_player}
      <4>1. m = << >> /\ m \in Streams /\ after # 1
        BY <3>1, <3>2, <3>5, NoBytes
      <4> QED BY <4>1 DEF Delivers
    <3> QED BY <3>3, <3>4, <3>5
  <2> QED BY <1>1, <2>5, ClientsServed DEF ClientsInv
<1> QED BY <1>4, <1>5

\* Both players are told the result.
LEMMA ClientsTold ==
  ASSUME ServerInv, ClientsInv, Runs("game_over", GameOver(env))
  PROVE  ClientsInv'
<1> DEFINE r == GameOver(env)
<1>1. /\ Leaves(r) /\ perform = "game_over" /\ to_id = GAMEOVER
      /\ client' = client /\ to_server' = to_server /\ env \in GameEnvs
      /\ env.fd_client_O # env.fd_client_X
      /\ env.fd_current_player \in {env.fd_client_X, env.fd_client_O}
  BY DEF Runs, Dispatches, ServerInv, Paired, Seated
<1>2. r.ret = READY /\ r.env = env
  BY DEF GameOver, Result
<1> HIDE DEF r
<1>3. /\ perform' = "send_assignment" /\ env'.fd_current_player = env.fd_current_player
      /\ env'.fd_client_X = env.fd_client_X
  BY <1>1, <1>2, RowsFound, OwedAfter DEF ServerInv
<1>4. ASSUME NEW c \in Clients
      PROVE  BytesTo(c, r.out) \in Streams /\ Delivers(BytesTo(c, r.out), Owed(c), Owed(c)')
  <2> PICK after : after = Owed(c)'
    OBVIOUS
  <2> PICK before : before = Owed(c)
    OBVIOUS
  <2> PICK m : m = BytesTo(c, r.out)
    OBVIOUS
  <2>1. after = 1 => before = 1
    BY <1>1, <1>3 DEF Owed
  <2>2. /\ c \in {env.fd_client_X, env.fd_client_O}
             => m \in Streams /\ Len(m) = 1 /\ m[1] \in {WIN, LOSE, TIE}
        /\ c \notin {env.fd_client_X, env.fd_client_O} => m = << >>
    BY <1>1, ResultsSent DEF r
  <2>3. CASE c \in {env.fd_client_X, env.fd_client_O}
    <3>1. m \in Streams /\ IsMessage(m)
      BY <2>2, <2>3, MessagesSent
    <3>2. m[1] # ACCEPTED
      BY <2>2, <2>3 DEF ACCEPTED, WIN, LOSE, TIE
    <3> QED BY <2>1, <3>1, <3>2 DEF Delivers
  <2>4. CASE c \notin {env.fd_client_X, env.fd_client_O}
    <3>1. m = << >> /\ m \in Streams
      BY <2>2, <2>4, NoBytes
    <3> QED BY <2>1, <3>1 DEF Delivers
  <2> QED BY <2>3, <2>4
<1> QED BY <1>1, <1>4, ClientsServed DEF ClientsInv

\* Every step keeps it.
LEMMA ClientsStep == ServerInv /\ ClientsInv /\ [Next]_vars => ClientsInv'
<1> SUFFICES ASSUME ServerInv, ClientsInv, [Next]_vars PROVE ClientsInv'
  OBVIOUS
<1>1. CASE UNCHANGED vars
  BY <1>1 DEF vars, server, ClientsInv, Peers, Followed, Owed, HasLeft
<1>2. CASE Server
  BY <1>2, ClientsAccepted, ClientsRead, ClientsAssigned, ClientsValidated, ClientsAnswered,
     ClientsTold DEF Server
<1>3. ASSUME NEW c \in Clients, ClientStep(c) PROVE ClientsInv'
  BY <1>3, ClientsConnect, ClientsReceive, ClientsLeave, ClientsType DEF ClientStep
<1> QED BY <1>1, <1>2, <1>3 DEF Next

\* What the clients hold, always.
THEOREM ClientsInvariance == Spec => []ClientsInv
<1>1. ServerInv /\ ClientsInv /\ [Next]_vars => ClientsInv'
  BY ClientsStep
<1> QED BY <1>1, ClientsInit, ServerInvariance, PTL DEF Spec

\* Every variable has its type.
THEOREM TypeCorrect == Spec => []TypeOK
<1>1. ServerInv /\ ClientsInv => TypeOK
  <2> SUFFICES ASSUME ServerInv, ClientsInv PROVE TypeOK
    OBVIOUS
  <2>1. to_id \in ACCEPT_PLAYER_X..GAMEOVER /\ perform \in ServerHandlers
    BY DEF ServerInv, Paired, ServerHandlers, ACCEPT_PLAYER_X, ACCEPT_PLAYER_O, READY, WAIT,
       VALIDATE, GAMEOVER
  <2>2. \A c \in Clients : /\ client[c].phase \in Phases
                           /\ client[c].identity \in {0, X, O}
                           /\ client[c].proposed \in {NoPlay} \cup 0..9
                           /\ Len(client[c].board) \in 1..9
    BY DEF ClientsInv, ClientRecords
  <2>3. \A c \in Clients : to_client[c] \in Seq(1..127) /\ to_server[c] \in Seq(Keys[c])
    BY DEF ServerInv, ClientsInv, Streams
  <2> QED BY <2>1, <2>2, <2>3 DEF TypeOK, ServerInv
<1> QED BY <1>1, ServerInvariance, ClientsInvariance, PTL

\* Whoever leaves, and however many moves are sent ahead of their turn, a client is never
\* told that its move was accepted when it has proposed none.
THEOREM AcceptedMovesWereProposed == Spec => []AcceptedWasProposed
<1>1. ServerInv /\ ClientsInv => AcceptedWasProposed
  <2> SUFFICES ASSUME ServerInv, ClientsInv, NEW c \in Clients, client[c].phase = "recv",
                      to_client[c] # << >>, Head(to_client[c]) = ACCEPTED
               PROVE  client[c].proposed # NoPlay
    BY DEF AcceptedWasProposed
  <2> PICK s \in Streams : s = to_client[c]
    BY DEF ClientsInv
  <2>1. peer[c] = "open"
    BY DEF ServerInv, ClientsInv, Peers, HasLeft, PeerStates
  <2>2. Flows(s, client[c], Owed(c))
    BY <2>1 DEF ClientsInv, Followed
  <2>3. s[1] = ACCEPTED
    OBVIOUS
  <2>4. Ready(client[c])
    BY <2>2, <2>3, FlowsHead
  <2> QED BY <2>4 DEF Ready
<1> QED BY <1>1, ServerInvariance, ClientsInvariance, PTL

-----------------------------------------------------------------------------
(* Turns: as long as nobody leaves, at most one client is asked, shows its *)
(* user the board, or has sent a move, and all else on its way is quiet.   *)

\* None of the messages on their way asks for a move.
QuietStream(s) ==
  \E starts : Framed(s, starts) /\ \A i \in starts : i <= Len(s) => ~PromptsAt(s, i)

\* A client that does not ask its user, whose moves have been read, and who will not be
\* asked by what is on its way.
Idle(cl, typed, s) == cl.phase # "prompt" /\ typed = << >> /\ QuietStream(s)

\* The client shows the board, or as much of it as it received, unless the board is blank.
Shows(cl, board) ==
  board = BlankBoard \/ SeqExt!IsPrefix(cl.board, [n \in 1..9 |-> board[n - 1]])

\* The last message on its way, and no other, will ask the client for a move, and it
\* will show the board then.
Asks(cl, s, board) ==
  \E q, m \in Streams :
    /\ QuietStream(q) /\ IsMessage(m) /\ PromptsAt(m, 1) /\ Joined(q, m, s)
    /\ m[1] = INVITE => \A n \in 1..9 : m[1 + n] = board[n - 1]
    /\ m[1] = INVALID => q = << >> /\ Shows(cl, board)
    /\ m[1] = WELCOME => board = BlankBoard

\* The client is to move: its user is asked, has answered, or will be asked.
Holds(cl, typed, s, board) ==
  \/ cl.phase = "prompt" /\ typed = << >> /\ s = << >> /\ Shows(cl, board)
  \/ cl.phase # "prompt" /\ Len(typed) = 1 /\ s = << >> /\ Shows(cl, board)
  \/ cl.phase # "prompt" /\ typed = << >> /\ Asks(cl, s, board)

\* Nothing is quiet.
LEMMA QuietNothing == QuietStream(<< >>)
<1>1. Framed(<< >>, {1})
  BY DEF Framed
<1>2. \A i \in {1} : ~(i <= Len(<< >>))
  OBVIOUS
<1> QED BY <1>1, <1>2 DEF QuietStream

\* A stream stays quiet when a message follows that does not ask for a move.
LEMMA QuietJoin ==
  ASSUME NEW s \in Streams, QuietStream(s), NEW m, IsMessage(m), ~PromptsAt(m, 1),
         NEW t, Joined(s, m, t)
  PROVE  QuietStream(t)
<1>1. PICK starts : Framed(s, starts) /\ \A i \in starts : i <= Len(s) => ~PromptsAt(s, i)
  BY DEF QuietStream
<1>2. /\ Framed(t, starts \cup {Len(t) + 1})
      /\ \A i \in starts : i <= Len(s) => t[i] = s[i] /\ (PromptsAt(t, i) <=> PromptsAt(s, i))
      /\ PromptsAt(t, Len(s) + 1) <=> PromptsAt(m, 1)
  BY ONLY <1>1, s \in Streams, IsMessage(m), Joined(s, m, t), JoinFramed
<1> PICK a \in Nat : a = Len(s)
  BY DEF Streams
<1>3. \A i \in starts : i \in 1..(a + 1)
  BY <1>1 DEF Framed
<1>4. Len(t) \in Nat
  BY DEF Joined, Streams
<1>5. \A i \in starts \cup {Len(t) + 1} : i <= Len(t) => ~PromptsAt(t, i)
  <2> SUFFICES ASSUME NEW i \in starts, i <= Len(t) PROVE ~PromptsAt(t, i)
    BY <1>4
  <2>1. CASE i <= a
    BY <1>1, <1>2, <2>1
  <2>2. CASE i = a + 1
    BY <1>2, <2>2
  <2> QED BY <1>3, <2>1, <2>2
<1> QED BY <1>2, <1>5 DEF QuietStream

\* What is left of a quiet stream is quiet, and its first message does not ask.
LEMMA QuietDrop ==
  ASSUME NEW s \in Streams, s # << >>, QuietStream(s)
  PROVE  /\ ~PromptsAt(s, 1) /\ MessageAt(s, 1)
         /\ Extent(s[1]) \in {1, 2, 10} /\ Extent(s[1]) <= Len(s)
         /\ \A t : Dropped(s, Extent(s[1]), t) => QuietStream(t)
<1>1. PICK starts : Framed(s, starts) /\ \A i \in starts : i <= Len(s) => ~PromptsAt(s, i)
  BY DEF QuietStream
<1> PICK a \in Nat : a = Len(s)
  BY DEF Streams
<1>2. 1 <= a /\ 1 \in starts
  BY <1>1 DEF Framed, Streams
<1>3. ~PromptsAt(s, 1) /\ MessageAt(s, 1)
  BY <1>1, <1>2 DEF Framed
<1>4. Extent(s[1]) \in {1, 2, 10} /\ Extent(s[1]) <= a
  BY <1>3, Extents DEF MessageAt
<1>5. ASSUME NEW t, Dropped(s, Extent(s[1]), t) PROVE QuietStream(t)
  <2> DEFINE T == After(starts, Extent(s[1]), s)
  <2>1. /\ Framed(t, T)
        /\ \A i \in T : i <= Len(t) => (PromptsAt(t, i) <=> PromptsAt(s, i + Extent(s[1])))
    BY <1>1, <1>5, DropFramed
  <2> PICK e \in {1, 2, 10} : e = Extent(s[1])
    BY <1>4
  <2>2. Len(t) = a - e
    BY <1>5 DEF Dropped
  <2>3. ASSUME NEW i \in T, i <= Len(t) PROVE ~PromptsAt(t, i)
    <3>1. i \in 1..(a - e + 1) /\ i + e \in starts
      BY DEF After
    <3>2. i + e <= a
      BY <2>2, <2>3, <3>1
    <3> QED BY <1>1, <2>1, <2>3, <3>1, <3>2
  <2> QED BY <2>1, <2>3 DEF QuietStream
<1> QED BY <1>3, <1>4, <1>5

\* Of a quiet stream and one message after it, the first message is the last one, or one
\* of the stream.
LEMMA QuietThenOne ==
  ASSUME NEW q \in Streams, NEW m \in Streams, QuietStream(q), IsMessage(m),
         NEW s \in Streams, Joined(q, m, s), NEW t \in Streams, Dropped(s, Extent(s[1]), t)
  PROVE  /\ q = << >> => /\ t = << >> /\ s[1] = m[1] /\ (PromptsAt(s, 1) <=> PromptsAt(m, 1))
                         /\ \A n \in 1..9 : m[1] = INVITE => s[1 + n] = m[1 + n]
         /\ q # << >> => /\ ~PromptsAt(s, 1)
                         /\ \E p \in Streams : QuietStream(p) /\ Joined(p, m, t)
<1> PICK a \in Nat : a = Len(q)
  BY DEF Streams
<1>1. m[1] \in Codes /\ Extent(m[1]) \in {1, 2, 10} /\ Len(m) = Extent(m[1])
  BY Extents DEF IsMessage, MessageAt
<1> PICK b \in {1, 2, 10} : b = Len(m)
  BY <1>1
<1>2. Len(s) = a + b /\ (\A i \in 1..a : s[i] = q[i]) /\ \A i \in 1..b : s[a + i] = m[i]
  BY DEF Joined
<1>3. CASE q = << >>
  <2>1. a = 0
    BY <1>3
  <2>2. \A i \in 1..b : s[i] = m[i]
    BY <1>2, <2>1
  <2>3. s[1] = m[1] /\ (b >= 2 => s[2] = m[2])
    BY <2>2
  <2>4. Len(t) = 0
    BY <1>1, <1>2, <2>1, <2>3 DEF Dropped
  <2>5. t = << >>
    BY <2>4 DEF Streams
  <2>6. m[1] = WELCOME => b = 2
    BY <1>1, Extents
  <2>7. PromptsAt(s, 1) <=> PromptsAt(m, 1)
    BY <2>3, <2>6 DEF PromptsAt
  <2>8. \A n \in 1..9 : m[1] = INVITE => s[1 + n] = m[1 + n]
    <3>1. m[1] = INVITE => b = 10
      BY <1>1, Extents
    <3>2. \A n \in 1..9 : 1 + n \in 1..10
      OBVIOUS
    <3> QED BY <2>2, <3>1, <3>2
  <2> QED BY <1>3, <2>3, <2>5, <2>7, <2>8
<1>4. CASE q # << >>
  <2>1. /\ ~PromptsAt(q, 1) /\ MessageAt(q, 1)
        /\ Extent(q[1]) \in {1, 2, 10} /\ Extent(q[1]) <= a
        /\ \A p : Dropped(q, Extent(q[1]), p) => QuietStream(p)
    BY <1>4, QuietDrop
  <2> PICK e \in {1, 2, 10} : e = Extent(q[1])
    BY <2>1
  <2>2. 1 <= e /\ e <= a
    BY <2>1
  <2>3. s[1] = q[1] /\ (e >= 2 => s[2] = q[2])
    BY <1>2, <2>2
  <2>4. q[1] = WELCOME => e = 2
    BY Extents
  <2>5. ~PromptsAt(s, 1)
    BY <2>1, <2>3, <2>4 DEF PromptsAt
  <2> DEFINE p == SubSeq(q, e + 1, Len(q))
  <2>6. Dropped(q, e, p)
    BY <2>2, SubSeqDrops
  <2> HIDE DEF p
  <2>7. p \in Streams /\ Len(p) = a - e /\ \A i \in 1..(a - e) : p[i] = q[i + e]
    BY <2>6 DEF Dropped
  <2>8. Len(t) = (a + b) - e /\ \A i \in 1..((a + b) - e) : t[i] = s[i + e]
    BY <1>2, <2>3 DEF Dropped
  <2>9. \A i \in 1..(a - e) : t[i] = p[i]
    <3> SUFFICES ASSUME NEW i \in 1..(a - e) PROVE t[i] = p[i]
      OBVIOUS
    <3>1. i \in 1..((a + b) - e) /\ i + e \in 1..a
      BY <2>2
    <3> QED BY <1>2, <2>7, <2>8, <3>1
  <2>10. \A i \in 1..b : t[(a - e) + i] = m[i]
    <3> SUFFICES ASSUME NEW i \in 1..b PROVE t[(a - e) + i] = m[i]
      OBVIOUS
    <3> PICK j \in Int : j = (a - e) + i
      OBVIOUS
    <3>1. j \in 1..((a + b) - e) /\ j + e = a + i
      BY ONLY <2>2, a \in Nat, e \in {1, 2, 10}, b \in {1, 2, 10}, i \in 1..b, j = (a - e) + i
    <3>2. t[j] = s[a + i]
      BY <2>8, <3>1
    <3> QED BY <1>2, <3>2
  <2>11. Joined(p, m, t)
    <3>1. Len(t) = (a - e) + b
      BY <2>2, <2>8
    <3> QED BY <2>7, <2>9, <2>10, <3>1 DEF Joined
  <2> QED BY <1>4, <2>1, <2>5, <2>6, <2>7, <2>11
<1> QED BY <1>3, <1>4

\* The client shows the first squares of the board.
ShowsPart(cl, n, board) == Len(cl.board) = n /\ \A i \in 1..n : cl.board[i] = board[i - 1]

\* A board that is received is shown, as far as it was.
LEMMA InvitedShows ==
  ASSUME NEW cl \in ClientRecords, NEW n \in 1..9, NEW board, ShowsPart(cl, n, board)
  PROVE  Shows(cl, board)
<1> USE DEF ShowsPart
<1> DEFINE t == [i \in 1..9 |-> board[i - 1]]
<1> PICK s : s = cl.board
  OBVIOUS
<1>1. s \in Seq({0} \cup Squares) /\ Len(s) = n
  BY DEF ClientRecords
<1>2. Len(t) = 9 /\ \A i \in 1..n : t[i] = board[i - 1]
  OBVIOUS
<1>3. SubSeq(s, 1, n) = [i \in 1..n |-> s[i]]
  BY <1>1
<1>4. SubSeq(t, 1, n) = [i \in 1..n |-> t[i]]
  OBVIOUS
<1>5. \A i \in 1..n : s[i] = t[i]
  BY <1>2
<1> HIDE DEF t
<1>6. SubSeq(s, 1, n) = SubSeq(t, 1, n)
  BY <1>3, <1>4, <1>5
<1>7. SeqExt!IsPrefix(s, t)
  BY <1>1, <1>2, <1>6 DEF SeqExt!IsPrefix
<1> QED BY <1>7 DEF Shows, t

\* An idle client remains so when it receives a message.
LEMMA IdleReceives ==
  ASSUME NEW s \in Streams, s # << >>, NEW cl, NEW typed, Idle(cl, typed, s),
         NEW n, NEW new, ReceivedAs(s, cl, n, new), NEW t \in Streams, Dropped(s, Extent(s[1]), t)
  PROVE  Idle(new, typed, t)
<1>1. ~PromptsAt(s, 1) /\ QuietStream(t)
  BY QuietDrop DEF Idle
<1>2. new.phase # "prompt"
  BY <1>1 DEF ReceivedAs
<1> QED BY <1>1, <1>2 DEF Idle

\* So does the one that is to move; and if the message asks for the move, it shows the board.
LEMMA HoldsReceives ==
  ASSUME NEW s \in Streams, s # << >>, NEW cl, NEW typed, NEW board, Holds(cl, typed, s, board),
         NEW n, Taken(s, n), NEW new, ReceivedAs(s, cl, n, new),
         NEW t \in Streams, Dropped(s, Extent(s[1]), t)
  PROVE  Holds(new, typed, t, board)
<1>1. cl.phase # "prompt" /\ typed = << >> /\ Asks(cl, s, board)
  BY DEF Holds
<1>2. PICK q \in Streams, m \in Streams :
        /\ QuietStream(q) /\ IsMessage(m) /\ PromptsAt(m, 1) /\ Joined(q, m, s)
        /\ m[1] = INVITE => \A i \in 1..9 : m[1 + i] = board[i - 1]
        /\ m[1] = INVALID => q = << >> /\ Shows(cl, board)
        /\ m[1] = WELCOME => board = BlankBoard
  BY <1>1 DEF Asks
<1>3. /\ q = << >> => /\ t = << >> /\ s[1] = m[1] /\ (PromptsAt(s, 1) <=> PromptsAt(m, 1))
                      /\ \A i \in 1..9 : m[1] = INVITE => s[1 + i] = m[1 + i]
      /\ q # << >> => /\ ~PromptsAt(s, 1)
                      /\ \E p \in Streams : QuietStream(p) /\ Joined(p, m, t)
  BY ONLY <1>2, q \in Streams, m \in Streams, s \in Streams, t \in Streams,
     Dropped(s, Extent(s[1]), t), QuietThenOne
<1>4. CASE q = << >>
  <2>1. t = << >> /\ s[1] = m[1] /\ PromptsAt(s, 1)
    BY <1>2, <1>3, <1>4
  <2>2. new.phase = "prompt" /\ new \in ClientRecords
    BY <2>1 DEF ReceivedAs
  <2>3. m[1] \in {INVITE, INVALID, WELCOME}
    BY <1>2 DEF PromptsAt
  <2>4. CASE m[1] = INVITE
    <3>1. n \in 1..9 /\ Len(new.board) = n /\ \A i \in 1..n : new.board[i] = s[1 + i]
      BY <2>1, <2>4 DEF Taken, ReceivedAs
    <3>2. \A i \in 1..9 : s[1 + i] = board[i - 1]
      BY <1>2, <1>3, <1>4, <2>4
    <3>3. \A i \in 1..n : new.board[i] = board[i - 1]
      <4> SUFFICES ASSUME NEW i \in 1..n PROVE new.board[i] = board[i - 1]
        OBVIOUS
      <4>1. i \in 1..9
        BY ONLY <3>1, i \in 1..n
      <4> QED BY ONLY <3>1, <3>2, <4>1, i \in 1..n
    <3>4. Shows(new, board)
      <4>1. ShowsPart(new, n, board)
        BY ONLY <3>1, <3>3 DEF ShowsPart
      <4> QED BY ONLY <2>2, <3>1, <4>1, InvitedShows
    <3> QED BY <1>1, <2>1, <2>2, <3>4 DEF Holds
  <2>5. CASE m[1] = INVALID
    <3>1. new.board = cl.board
      BY <2>1, <2>5 DEF ReceivedAs, INVALID, INVITE, ACCEPTED
    <3>2. Shows(new, board)
      BY <1>2, <2>5, <3>1 DEF Shows
    <3> QED BY <1>1, <2>1, <2>2, <3>2 DEF Holds
  <2>6. CASE m[1] = WELCOME
    <3>1. Shows(new, board)
      BY <1>2, <2>6 DEF Shows
    <3> QED BY <1>1, <2>1, <2>2, <3>1 DEF Holds
  <2> QED BY <2>3, <2>4, <2>5, <2>6
<1>5. CASE q # << >>
  <2>1. PICK p \in Streams : QuietStream(p) /\ Joined(p, m, t)
    BY <1>3, <1>5
  <2>2. new.phase # "prompt"
    BY <1>3, <1>5 DEF ReceivedAs
  <2>3. Asks(new, t, board)
    <3>1. /\ QuietStream(p) /\ IsMessage(m) /\ PromptsAt(m, 1) /\ Joined(p, m, t)
          /\ m[1] = INVITE => \A i \in 1..9 : m[1 + i] = board[i - 1]
          /\ m[1] = INVALID => p = << >> /\ Shows(new, board)
          /\ m[1] = WELCOME => board = BlankBoard
      BY <1>2, <1>5, <2>1
    <3> QED BY ONLY <3>1, p \in Streams, m \in Streams DEF Asks
  <2> QED BY <1>1, <2>2, <2>3 DEF Holds
<1> QED BY <1>4, <1>5

\* The same of the clients.
IsIdle(c) == Idle(client[c], to_server[c], to_client[c])

ShowsBoard(c) == Shows(client[c], env.game_board)

IsToMove(c) == Holds(client[c], to_server[c], to_client[c], env.game_board)

\* As long as nobody has left everybody is idle while the server works.  When it waits
\* either the player whose turn it is is to move, or O is to begin a game and will not.
Turns ==
  NobodyHasLeft =>
    /\ perform # "waiting_for_client" => \A c \in Clients : IsIdle(c)
    /\ perform \in {"validate_input", "send_response_to_client"}
         => to_client[env.fd_current_player] = << >>
    /\ \/ perform = "validate_input"
       \/ perform = "send_response_to_client" /\ env.response_type = INVALID
       => ShowsBoard(env.fd_current_player)
    /\ perform = "waiting_for_client" =>
         \/ /\ env.fd_current_player = env.fd_client_O /\ IsBlank
            /\ \A c \in Clients : c # env.fd_client_X => IsIdle(c)
         \/ /\ IsToMove(env.fd_current_player)
            /\ \A c \in Clients : c # env.fd_current_player => IsIdle(c)

\* Whoever has left has left for good.
LEMMA LeavingIsFinal ==
  ASSUME ServerInv, [Next]_vars, ~NobodyHasLeft
  PROVE  ~NobodyHasLeft'
<1>1. CASE UNCHANGED vars
  BY <1>1 DEF vars, NobodyHasLeft, HasLeft
<1>2. CASE Server
  <2>1. \E r : Leaves(r)
    BY <1>2 DEF Server, AcceptX, AcceptO, ReadByte, ReadEnd, Runs
  <2> QED BY <2>1, StaysTyped
<1>3. ASSUME NEW c \in Clients, ClientStep(c) PROVE ~NobodyHasLeft'
  <2>1. \/ peer' \in {peer, [peer EXCEPT ![c] = "closed"]}
        \/ peer[c] = "none" /\ peer' = [peer EXCEPT ![c] = "open"]
    BY <1>3 DEF ClientStep, Connect, Receive, Type, Leave, ClientBecomes
  <2>2. PICK d \in Clients : HasLeft(peer, d)
    BY DEF NobodyHasLeft
  <2>3. HasLeft(peer', d)
    BY <2>1, <2>2 DEF HasLeft, ServerInv, PeerStates
  <2> QED BY <2>3 DEF NobodyHasLeft
<1> QED BY <1>1, <1>2, <1>3 DEF Next

\* At first.
LEMMA TurnsInit == Init => Turns
<1> SUFFICES ASSUME Init PROVE Turns
  OBVIOUS
<1>1. perform = "server_on"
  BY RowsFound DEF Init
<1>2. ASSUME NEW c \in Clients PROVE IsIdle(c)
  <2>1. client[c] = NewClient /\ to_server[c] = << >> /\ to_client[c] = << >>
    BY DEF Init
  <2>2. NewClient.phase # "prompt"
    BY DEF NewClient
  <2> QED BY <2>1, <2>2, QuietNothing DEF IsIdle, Idle
<1> QED BY <1>1, <1>2 DEF Turns

\* A client's step that leaves it idle, or to move, leaves the turns.
LEMMA TurnsOfOther ==
  ASSUME ServerInv, ClientsInv, Turns, NobodyHasLeft, NEW c \in Clients, UNCHANGED server,
         \A d \in Clients : d # c => /\ client'[d] = client[d] /\ to_client'[d] = to_client[d]
                                     /\ to_server'[d] = to_server[d],
         IsIdle(c) => IsIdle(c)',
         IsToMove(c) => IsToMove(c)',
         perform \in {"validate_input", "send_response_to_client"} => c # env.fd_current_player
  PROVE  Turns'
<1>1. env' = env /\ perform' = perform
  BY DEF server
<1>2. \A d \in Clients : IsIdle(d) => IsIdle(d)'
  <2> SUFFICES ASSUME NEW d \in Clients, IsIdle(d), d # c PROVE IsIdle(d)'
    OBVIOUS
  <2> QED BY DEF IsIdle
<1>3. \A d \in Clients : IsToMove(d) => IsToMove(d)'
  <2> SUFFICES ASSUME NEW d \in Clients, IsToMove(d), d # c PROVE IsToMove(d)'
    OBVIOUS
  <2> QED BY <1>1 DEF IsToMove
<1>4. perform \notin {"server_on", "connect_player_o"} => env.fd_current_player \in Clients
  BY SeatsAreClients DEF ServerInv, Seated
<1>5. perform # "waiting_for_client" => \A d \in Clients : IsIdle(d)'
  BY <1>2 DEF Turns
<1>6. perform \in {"validate_input", "send_response_to_client"} =>
        to_client'[env.fd_current_player] = << >>
  BY <1>4 DEF Turns
<1>7. \/ perform = "validate_input"
      \/ perform = "send_response_to_client" /\ env.response_type = INVALID
      => Shows(client'[env.fd_current_player], env.game_board)
  BY <1>4 DEF Turns, ShowsBoard
<1>8. perform = "waiting_for_client" =>
        \/ /\ env.fd_current_player = env.fd_client_O /\ IsBlank
           /\ \A d \in Clients : d # env.fd_client_X => IsIdle(d)'
        \/ /\ IsToMove(env.fd_current_player)'
           /\ \A d \in Clients : d # env.fd_current_player => IsIdle(d)'
  <2> SUFFICES ASSUME perform = "waiting_for_client"
               PROVE \/ /\ env.fd_current_player = env.fd_client_O /\ IsBlank
                        /\ \A d \in Clients : d # env.fd_client_X => IsIdle(d)'
                     \/ /\ IsToMove(env.fd_current_player)'
                        /\ \A d \in Clients : d # env.fd_current_player => IsIdle(d)'
    OBVIOUS
  <2> PICK player \in Clients : player = env.fd_current_player
    BY <1>4
  <2>1. IsToMove(player) => IsToMove(player)'
    BY <1>3
  <2>2. IsToMove(env.fd_current_player)' <=> IsToMove(player)'
    BY <1>1 DEF IsToMove
  <2> QED BY <1>2, <2>1, <2>2 DEF Turns
<1> QED BY <1>1, <1>5, <1>6, <1>7, <1>8 DEF Turns, ShowsBoard, IsBlank

\* A client connects.
LEMMA TurnsConnect ==
  ASSUME ServerInv, ClientsInv, Turns, NobodyHasLeft, NEW c \in Clients, Connect(c)
  PROVE  Turns'
<1>1. UNCHANGED << server, client, to_client, to_server >>
  BY DEF Connect
<1>2. \A d \in Clients : (IsIdle(d)' <=> IsIdle(d)) /\ (IsToMove(d)' <=> IsToMove(d))
  BY <1>1 DEF IsIdle, IsToMove, server
<1>3. perform \in {"validate_input", "send_response_to_client"} => c # env.fd_current_player
  <2>1. c \notin 1..accepted
    BY DEF Connect, ServerInv
  <2> QED BY <2>1 DEF ServerInv, Seated
<1>4. (IsIdle(c) => IsIdle(c)') /\ (IsToMove(c) => IsToMove(c)')
  BY <1>2
<1> QED BY <1>1, <1>3, <1>4, TurnsOfOther

\* A message is received.
LEMMA TurnsReceive ==
  ASSUME ServerInv, ClientsInv, Turns, NobodyHasLeft, NEW c \in Clients, Receive(c)
  PROVE  Turns'
<1> PICK s \in Streams : s = to_client[c]
  BY DEF ClientsInv
<1>1. /\ peer[c] = "open" /\ client[c].phase = "recv" /\ s # << >> /\ MessageAt(s, 1)
      /\ \E n : \E new : Taken(s, n) /\ ReceivedAs(s, client[c], n, new) /\ ClientBecomes(c, new)
      /\ \E t \in Streams : Dropped(s, Extent(s[1]), t) /\ to_client' = [to_client EXCEPT ![c] = t]
      /\ UNCHANGED << server, to_server >>
  BY ReceiveTakes
<1> PICK n, new : Taken(s, n) /\ ReceivedAs(s, client[c], n, new) /\ ClientBecomes(c, new)
  BY <1>1
<1> PICK t \in Streams : Dropped(s, Extent(s[1]), t) /\ to_client' = [to_client EXCEPT ![c] = t]
  BY <1>1
<1>2. /\ client'[c] = new /\ to_client'[c] = t /\ to_server'[c] = to_server[c] /\ env' = env
      /\ \A d \in Clients : d # c => /\ client'[d] = client[d] /\ to_client'[d] = to_client[d]
                                     /\ to_server'[d] = to_server[d]
  BY <1>1 DEF ClientsInv, ClientBecomes, server
<1>3. IsIdle(c) => IsIdle(c)'
  <2> SUFFICES ASSUME IsIdle(c) PROVE Idle(client'[c], to_server'[c], to_client'[c])
    BY DEF IsIdle
  <2>1. Idle(client[c], to_server[c], s)
    BY DEF IsIdle
  <2>2. Idle(new, to_server[c], t)
    BY <1>1, <2>1, IdleReceives
  <2> QED BY <1>2, <2>2
<1>4. IsToMove(c) => IsToMove(c)'
  <2> SUFFICES ASSUME IsToMove(c)
               PROVE  Holds(client'[c], to_server'[c], to_client'[c], env'.game_board)
    BY DEF IsToMove
  <2>1. Holds(client[c], to_server[c], s, env.game_board)
    BY DEF IsToMove
  <2>2. Holds(new, to_server[c], t, env.game_board)
    BY <1>1, <2>1, HoldsReceives
  <2> QED BY <1>2, <2>2
<1>5. perform \in {"validate_input", "send_response_to_client"} => c # env.fd_current_player
  BY <1>1 DEF Turns
<1> QED BY <1>1, <1>2, <1>3, <1>4, <1>5, TurnsOfOther

\* A user types a move.
LEMMA TurnsType ==
  ASSUME ServerInv, ClientsInv, Turns, NobodyHasLeft, NobodyHasLeft',
         NEW c \in Clients, NEW byte \in Keys[c], Type(c, byte)
  PROVE  Turns'
<1> DEFINE new == Typed(client[c], byte)
           t == Append(to_server[c], byte)
<1>1. byte \in 1..127 /\ client[c] \in ClientRecords /\ to_server[c] \in Streams
  BY KeysAreBytes DEF ClientsInv
<1>2. /\ client[c].phase = "prompt" /\ ClientBecomes(c, new)
      /\ to_server' = [to_server EXCEPT ![c] = t]
      /\ to_client' = to_client /\ UNCHANGED server
  BY DEF Type
<1>3. new.board = client[c].board /\ new.phase \in {"recv", "gone"}
  BY <1>1, TypedResult
<1>4. to_server[c] = << >> => Len(t) = 1
  BY <1>1
<1> HIDE DEF new, t
<1>5. /\ client'[c] = new /\ to_client'[c] = to_client[c] /\ to_server'[c] = t /\ env' = env
      /\ \A d \in Clients : d # c => /\ client'[d] = client[d] /\ to_client'[d] = to_client[d]
                                     /\ to_server'[d] = to_server[d]
  BY <1>2 DEF ClientsInv, ClientBecomes, server
<1>6. ~IsIdle(c)
  BY <1>2 DEF IsIdle, Idle
<1>7. IsToMove(c) => IsToMove(c)'
  <2> SUFFICES ASSUME IsToMove(c)
               PROVE  Holds(client'[c], to_server'[c], to_client'[c], env'.game_board)
    BY DEF IsToMove
  <2>1. to_server[c] = << >> /\ to_client[c] = << >> /\ Shows(client[c], env.game_board)
    BY <1>2 DEF IsToMove, Holds
  <2>2. Shows(new, env.game_board)
    BY <1>3, <2>1 DEF Shows
  <2>3. new.phase # "prompt"
    BY <1>3
  <2> QED BY <1>4, <1>5, <2>1, <2>2, <2>3 DEF Holds
<1>8. perform \in {"validate_input", "send_response_to_client"} => c # env.fd_current_player
  BY <1>6 DEF Turns
<1> QED BY <1>2, <1>5, <1>6, <1>7, <1>8, TurnsOfOther

-----------------------------------------------------------------------------
(* What the server's steps leave of the turns.                             *)

\* An idle client to whom nothing is sent that asks for a move remains idle.
LEMMA IdleSent ==
  ASSUME ServerInv, ClientsInv, NEW r, Leaves(r), client' = client,
         \A d \in Clients : BytesTo(d, r.out) \in Streams,
         NEW c \in Clients, IsIdle(c), to_server'[c] = to_server[c],
         NEW m \in Streams, m = BytesTo(c, r.out), m = << >> \/ (IsMessage(m) /\ ~PromptsAt(m, 1))
  PROVE  IsIdle(c)'
<1> PICK s \in Streams : s = to_client[c]
  BY DEF ClientsInv
<1>1. /\ IF peer[c] = "open" THEN Joined(s, m, to_client'[c]) ELSE to_client'[c] = s
      /\ m = << >> => to_client'[c] = s
  BY StreamsSent DEF ServerInv, ClientsInv
<1>2. client[c].phase # "prompt" /\ to_server[c] = << >> /\ QuietStream(s)
  BY DEF IsIdle, Idle
<1>3. QuietStream(to_client'[c])
  <2>1. CASE to_client'[c] = s
    BY <1>2, <2>1
  <2>2. CASE m # << >> /\ peer[c] = "open"
    <3>1. IsMessage(m) /\ ~PromptsAt(m, 1) /\ Joined(s, m, to_client'[c])
      BY <1>1, <2>2
    <3> QED BY <1>2, <3>1, QuietJoin
  <2> QED BY <1>1, <2>1, <2>2
<1> QED BY <1>2, <1>3 DEF IsIdle, Idle

\* An idle client that is sent a message which asks for a move, with the board if it is not
\* blank or if the client does not show it, is to move.
LEMMA AskedSent ==
  ASSUME ServerInv, ClientsInv, NEW r, Leaves(r), client' = client,
         \A d \in Clients : BytesTo(d, r.out) \in Streams,
         NEW c \in Clients, IsIdle(c), peer[c] = "open", to_server'[c] = to_server[c],
         NEW board, board = env'.game_board,
         NEW m \in Streams, m = BytesTo(c, r.out), IsMessage(m), PromptsAt(m, 1),
         m[1] = INVITE => \A n \in 1..9 : m[1 + n] = board[n - 1],
         m[1] = INVALID => to_client[c] = << >> /\ Shows(client[c], board),
         m[1] = WELCOME => board = BlankBoard
  PROVE  IsToMove(c)'
<1> PICK s \in Streams : s = to_client[c]
  BY DEF ClientsInv
<1>1. Joined(s, m, to_client'[c])
  BY StreamsSent DEF ServerInv, ClientsInv
<1>2. client[c].phase # "prompt" /\ to_server[c] = << >> /\ QuietStream(s)
  BY DEF IsIdle, Idle
<1>3. Asks(client[c], to_client'[c], board)
  <2>1. /\ QuietStream(s) /\ IsMessage(m) /\ PromptsAt(m, 1) /\ Joined(s, m, to_client'[c])
        /\ m[1] = INVITE => \A n \in 1..9 : m[1 + n] = board[n - 1]
        /\ m[1] = INVALID => s = << >> /\ Shows(client[c], board)
        /\ m[1] = WELCOME => board = BlankBoard
    BY <1>1, <1>2
  <2> QED BY ONLY <2>1, s \in Streams, m \in Streams DEF Asks
<1>4. Holds(client'[c], to_server'[c], to_client'[c], board)
  BY <1>2, <1>3 DEF Holds
<1> QED BY <1>4 DEF IsToMove

\* The players are there, if nobody has left.
LEMMA PlayersAreThere ==
  ASSUME ServerInv, NobodyHasLeft, NEW c \in 1..accepted
  PROVE  c \in Clients /\ peer[c] = "open"
BY SeatsAreClients DEF ServerInv, NobodyHasLeft, HasLeft, PeerStates

\* When nothing is sent, everybody else stays idle.
LEMMA IdleUnsent ==
  ASSUME ServerInv, ClientsInv, NEW r, Leaves(r), client' = client, r.out = << >>,
         NEW c \in Clients, IsIdle(c), to_server'[c] = to_server[c]
  PROVE  IsIdle(c)' /\ to_client'[c] = to_client[c]
<1>1. \A d \in Clients : BytesTo(d, r.out) = << >>
  BY NothingSent
<1>2. \A d \in Clients : BytesTo(d, r.out) \in Streams
  BY <1>1, NoBytes
<1> PICK m \in Streams : m = BytesTo(c, r.out)
  BY <1>2
<1>3. m = << >>
  BY <1>1
<1>4. IsIdle(c)'
  BY <1>2, <1>3, IdleSent
<1>5. to_client'[c] = to_client[c]
  BY <1>1, <1>2, StreamsSent DEF ServerInv, ClientsInv
<1> QED BY <1>4, <1>5

\* A client is accepted.
LEMMA TurnsAccepted ==
  ASSUME ServerInv, ClientsInv, Turns, NobodyHasLeft, NEW c \in Clients, AcceptX(c) \/ AcceptO(c)
  PROVE  Turns'
<1>1. CASE AcceptX(c)
  <2> DEFINE r == ServerOn(env, c)
  <2>1. Leaves(r) /\ to_id = ACCEPT_PLAYER_X /\ client' = client /\ to_server' = to_server
        /\ perform = "server_on"
    BY <1>1 DEF AcceptX, Dispatches, ServerInv, Paired
  <2>2. r.out = << >> /\ r.ret = ACCEPT_PLAYER_O
    BY DEF ServerOn, Result
  <2> HIDE DEF r
  <2>3. perform' = "connect_player_o"
    BY <2>1, <2>2, RowsFound, Left DEF ServerInv
  <2>4. \A d \in Clients : IsIdle(d)'
    BY <2>1, <2>2, IdleUnsent DEF Turns
  <2> QED BY <2>3, <2>4 DEF Turns
<1>2. CASE AcceptO(c)
  <2> DEFINE r == ConnectPlayerO(env, c)
  <2>1. Leaves(r) /\ to_id = ACCEPT_PLAYER_O /\ client' = client /\ to_server' = to_server
        /\ perform = "connect_player_o"
    BY <1>2 DEF AcceptO, Dispatches, ServerInv, Paired
  <2>2. r.out = << >> /\ r.ret = READY
    BY DEF ConnectPlayerO, Result
  <2> HIDE DEF r
  <2>3. perform' = "send_assignment"
    BY <2>1, <2>2, RowsFound, Left DEF ServerInv
  <2>4. \A d \in Clients : IsIdle(d)'
    BY <2>1, <2>2, IdleUnsent DEF Turns
  <2> QED BY <2>3, <2>4 DEF Turns
<1> QED BY <1>1, <1>2

\* A byte is read: it is the only one, and all are idle until it is answered.
LEMMA TurnsRead ==
  ASSUME ServerInv, ClientsInv, Turns, NobodyHasLeft, NEW c \in Clients, ReadByte(c)
  PROVE  Turns'
<1>1. Head(to_server[c]) \in 1..127
  BY ReadKeepsTypes DEF ReadByte
<1> PICK byte \in 1..127 : byte = Head(to_server[c])
  BY <1>1
<1> DEFINE r == WaitingForClient(env, byte)
           e == [env EXCEPT !.one_byte = byte]
<1>2. /\ Leaves(r) /\ to_id = WAIT /\ perform = "waiting_for_client" /\ client' = client
      /\ c = env.fd_current_player /\ to_server[c] # << >>
      /\ to_server' = [to_server EXCEPT ![c] = Tail(@)]
  BY DEF ReadByte, Dispatches, ServerInv, Paired
<1>3. r.out = << >> /\ r.ret = VALIDATE /\ r.env = e
  BY DEF WaitingForClient, Result
<1>4. e.fd_current_player = env.fd_current_player /\ e.game_board = env.game_board
  <2>1. env \in GameEnvs /\ byte \in 0..127
    BY DEF ServerInv
  <2> QED BY <2>1, ByteEnv
<1> HIDE DEF r, e
<1>5. perform' = "validate_input" /\ env' = e
  BY <1>2, <1>3, RowsFound, Left DEF ServerInv
<1>6. /\ \A d \in Clients : d # c => to_server'[d] = to_server[d]
      /\ to_server'[c] = Tail(to_server[c])
  BY <1>2, StreamRead
<1>7. IsToMove(c) /\ \A d \in Clients : d # c => IsIdle(d)
  <2>1. ~IsIdle(c)
    BY <1>2 DEF IsIdle, Idle
  <2>2. env.fd_client_O # env.fd_client_X
    BY <1>2 DEF ServerInv, Seated
  <2> QED BY <1>2, <2>1, <2>2 DEF Turns
<1>8. /\ client[c].phase # "prompt" /\ Len(to_server[c]) = 1 /\ to_client[c] = << >>
      /\ Shows(client[c], env.game_board)
  BY <1>2, <1>7 DEF IsToMove, Holds
<1>9. to_server'[c] = << >>
  <2> PICK s \in Streams : s = to_server[c]
    BY DEF ClientsInv
  <2>1. s # << >> => Tail(s) \in Streams /\ Len(Tail(s)) = Len(s) - 1
    BY DEF Streams
  <2> PICK t : t = Tail(s)
    OBVIOUS
  <2>2. t \in Streams /\ Len(t) = 0
    BY <1>2, <1>8, <2>1
  <2>3. t = << >>
    BY <2>2 DEF Streams
  <2> QED BY <1>6, <2>3
<1>10. to_client'[c] = to_client[c]
  <2>1. \A d \in Clients : BytesTo(d, r.out) = << >>
    BY <1>3, NothingSent
  <2>2. \A d \in Clients : BytesTo(d, r.out) \in Streams
    BY <2>1, NoBytes
  <2> QED BY <1>2, <2>1, <2>2, StreamsSent DEF ServerInv, ClientsInv
<1>11. IsIdle(c)'
  BY <1>2, <1>8, <1>9, <1>10, QuietNothing DEF IsIdle, Idle
<1>12. \A d \in Clients : IsIdle(d)'
  BY <1>2, <1>3, <1>6, <1>7, <1>11, IdleUnsent
<1>13. env'.fd_current_player = c /\ env'.game_board = env.game_board
  BY <1>2, <1>4, <1>5
<1>14. Shows(client'[c], env'.game_board) /\ to_client'[c] = << >>
  BY <1>2, <1>8, <1>10, <1>13
<1> QED BY <1>5, <1>12, <1>13, <1>14 DEF Turns, ShowsBoard

\* A move is looked at.
LEMMA TurnsValidated ==
  ASSUME ServerInv, ClientsInv, Turns, NobodyHasLeft, Runs("validate_input", ValidateInput(env))
  PROVE  Turns'
<1> DEFINE r == ValidateInput(env)
<1>1. /\ Leaves(r) /\ perform = "validate_input" /\ to_id = VALIDATE
      /\ client' = client /\ to_server' = to_server /\ env \in GameEnvs
  BY DEF Runs, Dispatches, ServerInv, Paired
<1>2. /\ r.out = << >> /\ r.ret \in {WAIT, GAMEOVER} /\ r.env \in GameEnvs
      /\ r.env.fd_current_player = env.fd_current_player
      /\ r.env.response_type = INVALID => r.env.game_board = env.game_board
  BY <1>1, ValidateResult
<1> HIDE DEF r
<1>3. /\ perform' \in {"send_response_to_client", "game_over"}
      /\ env' = r.env
  BY <1>1, <1>2, RowsFound, Left DEF ServerInv
<1> PICK player \in Clients : player = env.fd_current_player
  BY <1>1, SeatsAreClients DEF ServerInv, Seated
<1>4. \A c \in Clients : IsIdle(c)' /\ to_client'[c] = to_client[c]
  BY <1>1, <1>2, IdleUnsent DEF Turns
<1>5. to_client[player] = << >> /\ Shows(client[player], env.game_board)
  BY <1>1 DEF Turns, ShowsBoard
<1>6. env'.fd_current_player = player /\ to_client'[player] = << >>
  BY <1>2, <1>3, <1>4, <1>5
<1>7. env'.response_type = INVALID => Shows(client'[player], env'.game_board)
  BY <1>1, <1>2, <1>3, <1>5
<1> QED BY <1>3, <1>4, <1>6, <1>7 DEF Turns, ShowsBoard

\* Both players are told the result, and nobody is asked for a move.
LEMMA TurnsTold ==
  ASSUME ServerInv, ClientsInv, Turns, NobodyHasLeft, Runs("game_over", GameOver(env))
  PROVE  Turns'
<1> DEFINE r == GameOver(env)
<1>1. /\ Leaves(r) /\ perform = "game_over" /\ to_id = GAMEOVER
      /\ client' = client /\ to_server' = to_server /\ env.fd_client_O # env.fd_client_X
  BY DEF Runs, Dispatches, ServerInv, Paired, Seated
<1>2. r.ret = READY
  BY DEF GameOver, Result
<1>3. \A c \in Clients : LET m == BytesTo(c, r.out)
                         IN  m \in Streams /\ (m = << >> \/ (IsMessage(m) /\ ~PromptsAt(m, 1)))
  <2> SUFFICES ASSUME NEW c \in Clients, NEW m, m = BytesTo(c, r.out)
               PROVE  m \in Streams /\ (m = << >> \/ (IsMessage(m) /\ ~PromptsAt(m, 1)))
    OBVIOUS
  <2>1. /\ c \in {env.fd_client_X, env.fd_client_O}
             => m \in Streams /\ Len(m) = 1 /\ m[1] \in {WIN, LOSE, TIE}
        /\ c \notin {env.fd_client_X, env.fd_client_O} => m = << >>
    BY <1>1, ResultsSent
  <2>2. INVALID \notin {WIN, LOSE, TIE}
    BY DEF INVALID, WIN, LOSE, TIE
  <2> QED BY <2>1, <2>2, MessagesSent, NoBytes
<1> HIDE DEF r
<1>4. perform' = "send_assignment"
  BY <1>1, <1>2, RowsFound, Left DEF ServerInv
<1>5. ASSUME NEW c \in Clients PROVE IsIdle(c)'
  <2> PICK m \in Streams : m = BytesTo(c, r.out)
    BY <1>3
  <2>1. m = << >> \/ (IsMessage(m) /\ ~PromptsAt(m, 1))
    BY <1>3
  <2>2. IsIdle(c) /\ to_server'[c] = to_server[c] /\ \A d \in Clients : BytesTo(d, r.out) \in Streams
    BY <1>1, <1>3 DEF Turns
  <2> QED BY <1>1, <2>1, <2>2, IdleSent
<1> QED BY <1>4, <1>5 DEF Turns

\* Both players are welcomed, on a blank board; X is asked for its move.
LEMMA TurnsAssigned ==
  ASSUME ServerInv, ClientsInv, Turns, NobodyHasLeft,
         Runs("send_assignment", SendAssignment(env))
  PROVE  Turns'
<1> DEFINE r == SendAssignment(env)
           f == [env EXCEPT !.game_board = BlankBoard]
           e == [f EXCEPT !.one_byte = 0]
<1>1. /\ Leaves(r) /\ perform = "send_assignment" /\ to_id = READY
      /\ client' = client /\ to_server' = to_server
      /\ env.fd_client_X # env.fd_client_O
      /\ env.fd_client_X \in 1..accepted /\ env.fd_client_O \in 1..accepted
      /\ env.fd_current_player \in {env.fd_client_X, env.fd_client_O}
  BY DEF Runs, Dispatches, ServerInv, Paired, Seated
<1>2. r.ret = WAIT /\ r.env = f
  BY DEF SendAssignment, Result
<1>3. /\ f \in GameEnvs /\ f.fd_client_X = env.fd_client_X /\ f.fd_client_O = env.fd_client_O
      /\ f.fd_current_player = env.fd_current_player /\ f.game_board = BlankBoard
  BY DEF ServerInv, GameEnvs, BlankBoard
<1> HIDE DEF f
<1>4. /\ e.fd_client_X = env.fd_client_X /\ e.fd_client_O = env.fd_client_O
      /\ e.fd_current_player = env.fd_current_player /\ e.game_board = BlankBoard
  <2>1. 0 \in 0..127
    OBVIOUS
  <2> QED BY <1>3, <2>1, ByteEnv
<1>5. \A c \in Clients : \A m : m = BytesTo(c, r.out) =>
        /\ c = env.fd_client_X => m \in Streams /\ IsMessage(m) /\ m[1] = WELCOME /\ PromptsAt(m, 1)
        /\ c = env.fd_client_O => m \in Streams /\ IsMessage(m) /\ ~PromptsAt(m, 1)
        /\ c \notin {env.fd_client_X, env.fd_client_O} => m \in Streams /\ m = << >>
  <2> SUFFICES ASSUME NEW c \in Clients, NEW m, m = BytesTo(c, r.out)
               PROVE
        /\ c = env.fd_client_X => m \in Streams /\ IsMessage(m) /\ m[1] = WELCOME /\ PromptsAt(m, 1)
        /\ c = env.fd_client_O => m \in Streams /\ IsMessage(m) /\ ~PromptsAt(m, 1)
        /\ c \notin {env.fd_client_X, env.fd_client_O} => m \in Streams /\ m = << >>
    OBVIOUS
  <2>1. /\ c = env.fd_client_X => m \in Streams /\ Len(m) = 2 /\ m[1] = WELCOME /\ m[2] = X
        /\ c = env.fd_client_O => m \in Streams /\ Len(m) = 2 /\ m[1] = WELCOME /\ m[2] = O
        /\ c \notin {env.fd_client_X, env.fd_client_O} => m = << >>
    BY <1>1, AssignmentSent
  <2>2. X # O
    BY DEF X, O
  <2> QED BY <2>1, <2>2, MessagesSent, NoBytes
<1> HIDE DEF r, e
<1>6. perform' = "waiting_for_client" /\ env' = e
  BY <1>1, <1>2, RowsFound, Left DEF ServerInv, e
<1>7. \A c \in Clients : BytesTo(c, r.out) \in Streams
  BY <1>5
<1>8. ASSUME NEW c \in Clients, c # env.fd_client_X PROVE IsIdle(c)'
  <2> PICK m \in Streams : m = BytesTo(c, r.out)
    BY <1>7
  <2>1. m = << >> \/ (IsMessage(m) /\ ~PromptsAt(m, 1))
    BY <1>5, <1>8
  <2>2. IsIdle(c) /\ to_server'[c] = to_server[c]
    BY <1>1 DEF Turns
  <2> QED BY <1>1, <1>7, <2>1, <2>2, IdleSent
<1> PICK x \in Clients : x = env.fd_client_X /\ peer[x] = "open"
  BY <1>1, PlayersAreThere
<1> PICK board : board = env'.game_board
  OBVIOUS
<1>9. board = BlankBoard
  BY <1>4, <1>6
<1>10. IsToMove(x)'
  <2> PICK m \in Streams : m = BytesTo(x, r.out)
    BY <1>7
  <2>1. IsMessage(m) /\ PromptsAt(m, 1) /\ m[1] = WELCOME
    BY <1>5
  <2>2. IsIdle(x) /\ to_server'[x] = to_server[x]
    BY <1>1 DEF Turns
  <2>3. m[1] # INVITE /\ m[1] # INVALID
    BY <2>1 DEF WELCOME, INVITE, INVALID
  <2> QED BY <1>1, <1>7, <1>9, <2>1, <2>2, <2>3, AskedSent
<1>11. CASE env.fd_current_player = x
  <2>1. env'.fd_current_player = x
    BY <1>4, <1>6, <1>11
  <2>2. IsToMove(env.fd_current_player)'
    BY <1>10, <2>1 DEF IsToMove
  <2> QED BY <1>6, <1>8, <2>1, <2>2 DEF Turns
<1>12. CASE env.fd_current_player = env.fd_client_O
  <2>1. env'.fd_current_player = env'.fd_client_O /\ env'.fd_client_X = x /\ IsBlank'
    BY <1>4, <1>6, <1>9, <1>12 DEF IsBlank
  <2> QED BY <1>6, <1>8, <2>1 DEF Turns
<1> QED BY <1>1, <1>11, <1>12

\* A refused player is asked again.
LEMMA TurnsRefused ==
  ASSUME ServerInv, ClientsInv, Turns, NobodyHasLeft, env.response_type # ACCEPTED,
         Runs("send_response_to_client", SendResponse(env))
  PROVE  Turns'
<1> DEFINE r == SendResponse(env)
           e == [env EXCEPT !.one_byte = 0]
<1>1. /\ Leaves(r) /\ perform = "send_response_to_client" /\ to_id = WAIT
      /\ client' = client /\ to_server' = to_server
      /\ env.fd_current_player \in 1..accepted
      /\ env.response_type = INVALID
  BY DEF Runs, Dispatches, ServerInv, Paired, Seated, GameEnvs
<1>2. r.ret = WAIT /\ r.env = env
  BY DEF SendResponse, Result
<1>3. e.fd_current_player = env.fd_current_player /\ e.game_board = env.game_board
  <2>1. env \in GameEnvs /\ 0 \in 0..127
    BY DEF ServerInv
  <2> QED BY <2>1, ByteEnv
<1> PICK player \in Clients : player = env.fd_current_player /\ peer[player] = "open"
  BY <1>1, PlayersAreThere
<1>4. \A c \in Clients : \A m : m = BytesTo(c, r.out) =>
        /\ c = player => m \in Streams /\ Len(m) = 1 /\ m[1] = INVALID
        /\ c # player => m = << >>
  BY RefusalSent
<1> HIDE DEF r, e
<1>5. perform' = "waiting_for_client" /\ env' = e
  BY <1>1, <1>2, RowsFound, Left DEF ServerInv, e
<1>6. \A c \in Clients : BytesTo(c, r.out) \in Streams
  BY <1>4, NoBytes
<1>7. ASSUME NEW c \in Clients, c # player PROVE IsIdle(c)'
  <2> PICK m \in Streams : m = BytesTo(c, r.out)
    BY <1>6
  <2>1. m = << >>
    BY <1>4, <1>7
  <2>2. IsIdle(c) /\ to_server'[c] = to_server[c]
    BY <1>1 DEF Turns
  <2> QED BY <1>1, <1>6, <2>1, <2>2, IdleSent
<1> PICK board : board = env'.game_board
  OBVIOUS
<1>8. to_client[player] = << >> /\ Shows(client[player], board)
  BY <1>1, <1>3, <1>5 DEF Turns, ShowsBoard
<1>9. IsToMove(player)'
  <2> PICK m \in Streams : m = BytesTo(player, r.out)
    BY <1>6
  <2>1. m[1] = INVALID /\ IsMessage(m) /\ PromptsAt(m, 1)
    BY <1>4, MessagesSent
  <2>2. IsIdle(player) /\ to_server'[player] = to_server[player]
    BY <1>1 DEF Turns
  <2>3. m[1] # INVITE /\ m[1] # WELCOME
    BY <2>1 DEF WELCOME, INVITE, INVALID
  <2> QED BY <1>1, <1>6, <1>8, <2>1, <2>2, <2>3, AskedSent
<1>10. env'.fd_current_player = player
  BY <1>3, <1>5
<1>11. IsToMove(env.fd_current_player)'
  BY <1>9, <1>10 DEF IsToMove
<1> QED BY <1>5, <1>7, <1>10, <1>11 DEF Turns

\* The other player is asked, with the board as it is after an accepted move.
LEMMA TurnsAnswered ==
  ASSUME ServerInv, ClientsInv, Turns, NobodyHasLeft, env.response_type = ACCEPTED,
         Runs("send_response_to_client", SendResponse(env))
  PROVE  Turns'
<1> PICK next : next = SwitchPlayers(env)
  OBVIOUS
<1> DEFINE r == SendResponse(env)
           e == [next EXCEPT !.one_byte = 0]
<1>1. /\ Leaves(r) /\ perform = "send_response_to_client" /\ to_id = WAIT
      /\ client' = client /\ to_server' = to_server /\ env \in GameEnvs
      /\ env.fd_client_O # env.fd_client_X
      /\ env.fd_client_X \in 1..accepted /\ env.fd_client_O \in 1..accepted
      /\ env.fd_current_player \in {env.fd_client_X, env.fd_client_O}
      /\ env.play_count # 9
  BY DEF Runs, Dispatches, ServerInv, Paired, Seated, Counted
<1>2. r.ret = WAIT /\ r.env = next
  BY DEF SendResponse, Result
<1>3. /\ next \in GameEnvs /\ next.fd_current_player # env.fd_current_player
      /\ next.fd_current_player \in {env.fd_client_X, env.fd_client_O}
  BY <1>1, SwitchResult
<1>4. next.game_board \in [Cells -> Squares]
  BY <1>3 DEF GameEnvs, Squares
<1>5. e.fd_current_player = next.fd_current_player /\ e.game_board = next.game_board
  <2>1. 0 \in 0..127
    OBVIOUS
  <2> QED BY <1>3, <2>1, ByteEnv
<1> PICK player \in Clients : player = next.fd_current_player /\ peer[player] = "open"
  BY <1>1, <1>3, PlayersAreThere
<1>6. ASSUME NEW c \in Clients, NEW m, m = BytesTo(c, r.out) PROVE Invites(env, next, c, m)
  <2>1. m = BytesTo(c, SendResponse(env).out)
    BY <1>6
  <2> QED
    BY ONLY <1>3, <1>4, <2>1, env.response_type = ACCEPTED, next = SwitchPlayers(env), InvitationSent
<1> HIDE DEF r, e
<1>7. perform' = "waiting_for_client" /\ env' = e
  BY <1>1, <1>2, RowsFound, Left DEF ServerInv, e
<1>8. \A c \in Clients : BytesTo(c, r.out) \in Streams
  BY <1>6, NoBytes DEF Invites
<1>9. ASSUME NEW c \in Clients, c # player PROVE IsIdle(c)'
  <2> PICK m \in Streams : m = BytesTo(c, r.out)
    BY <1>8
  <2>1. m = << >> \/ (Len(m) = 1 /\ m[1] = ACCEPTED)
    BY <1>6, <1>9 DEF Invites
  <2>2. ACCEPTED # INVALID
    BY DEF ACCEPTED, INVALID
  <2>3. m = << >> \/ (IsMessage(m) /\ ~PromptsAt(m, 1))
    BY <2>1, <2>2, MessagesSent
  <2>4. IsIdle(c) /\ to_server'[c] = to_server[c]
    BY <1>1 DEF Turns
  <2> QED BY <1>1, <1>8, <2>3, <2>4, IdleSent
<1> PICK board : board = env'.game_board
  OBVIOUS
<1>10. board = next.game_board
  BY <1>5, <1>7
<1>11. IsToMove(player)'
  <2> PICK m \in Streams : m = BytesTo(player, r.out)
    BY <1>8
  <2>1. Len(m) = 10 /\ m[1] = INVITE /\ \A n \in 1..9 : m[1 + n] = next.game_board[n - 1]
    BY <1>6 DEF Invites
  <2>2. \A n \in 1..9 : m[1 + n] \in Squares
    BY <1>4, <2>1 DEF Cells
  <2>3. IsMessage(m) /\ PromptsAt(m, 1)
    BY <2>1, <2>2, MessagesSent
  <2>4. IsIdle(player) /\ to_server'[player] = to_server[player]
    BY <1>1 DEF Turns
  <2>5. m[1] # INVALID /\ m[1] # WELCOME
    BY <2>1 DEF WELCOME, INVITE, INVALID
  <2>6. \A n \in 1..9 : m[1 + n] = board[n - 1]
    BY <1>10, <2>1
  <2> QED BY <1>1, <1>8, <2>3, <2>4, <2>5, <2>6, AskedSent
<1>12. env'.fd_current_player = player
  BY <1>5, <1>7
<1>13. IsToMove(env.fd_current_player)'
  BY <1>11, <1>12 DEF IsToMove
<1> QED BY <1>7, <1>9, <1>12, <1>13 DEF Turns

\* Every step keeps the turns.
LEMMA TurnsStep == ServerInv /\ ClientsInv /\ Turns /\ [Next]_vars => Turns'
<1> SUFFICES ASSUME ServerInv, ClientsInv, Turns, [Next]_vars, NobodyHasLeft' PROVE Turns'
  BY DEF Turns
<1>1. NobodyHasLeft
  BY LeavingIsFinal
<1>2. CASE UNCHANGED vars
  BY <1>2 DEF vars, server, Turns, IsIdle, IsToMove, ShowsBoard, IsBlank, NobodyHasLeft, HasLeft
<1>3. CASE Server
  <2>1. ASSUME NEW c \in Clients, AcceptX(c) \/ AcceptO(c) PROVE Turns'
    BY <1>1, <2>1, TurnsAccepted
  <2>2. ASSUME NEW c \in Clients, ReadByte(c) PROVE Turns'
    BY <1>1, <2>2, TurnsRead
  <2>3. ASSUME NEW c \in Clients, ReadEnd(c) PROVE Turns'
    BY <1>1, <2>3 DEF ReadEnd, NobodyHasLeft
  <2>4. CASE Runs("send_assignment", SendAssignment(env))
    BY <1>1, <2>4, TurnsAssigned
  <2>5. CASE Runs("validate_input", ValidateInput(env))
    BY <1>1, <2>5, TurnsValidated
  <2>6. CASE Runs("send_response_to_client", SendResponse(env))
    BY <1>1, <2>6, TurnsRefused, TurnsAnswered
  <2>7. CASE Runs("game_over", GameOver(env))
    BY <1>1, <2>7, TurnsTold
  <2> QED BY <1>3, <2>1, <2>2, <2>3, <2>4, <2>5, <2>6, <2>7 DEF Server
<1>4. ASSUME NEW c \in Clients, ClientStep(c) PROVE Turns'
  <2>1. CASE Connect(c)
    BY <1>1, <2>1, TurnsConnect
  <2>2. CASE Receive(c)
    BY <1>1, <2>2, TurnsReceive
  <2>3. CASE Leave(c)
    <3>1. HasLeft(peer', c)
      <4>1. peer' = [peer EXCEPT ![c] = "closed"]
        BY <2>3 DEF Leave, ClientBecomes, ClientsInv, ClientRecords
      <4> QED BY <4>1 DEF ServerInv, HasLeft
    <3> QED BY <3>1 DEF NobodyHasLeft
  <2>4. ASSUME NEW byte \in Keys[c], Type(c, byte) PROVE Turns'
    BY <1>1, <2>4, TurnsType
  <2> QED BY <1>4, <2>1, <2>2, <2>3, <2>4 DEF ClientStep
<1> QED BY <1>2, <1>3, <1>4 DEF Next

\* The turns, always.
THEOREM TurnsInvariance == Spec => []Turns
<1>1. ServerInv /\ ClientsInv /\ Turns /\ [Next]_vars => Turns'
  BY TurnsStep
<1> QED BY <1>1, TurnsInit, ServerInvariance, ClientsInvariance, PTL DEF Spec

\* As long as nobody has left, a client at its prompt shows the board on which its move
\* will be played, or as much of it as recv returned, unless the board is blank.
THEOREM PromptsShowTheBoard == Spec => []PromptShowsTheBoard
<1>1. ServerInv /\ ClientsInv /\ Turns => PromptShowsTheBoard
  <2> SUFFICES ASSUME ServerInv, ClientsInv, Turns, NobodyHasLeft, ~IsBlank,
                      NEW c \in Clients, client[c].phase = "prompt"
               PROVE  SeqExt!IsPrefix(client[c].board, [n \in 1..9 |-> env.game_board[n - 1]])
    BY DEF PromptShowsTheBoard
  <2>1. ~IsIdle(c)
    BY DEF IsIdle, Idle
  <2>2. c = env.fd_current_player /\ IsToMove(c)
    BY <2>1 DEF Turns
  <2> QED BY <2>2 DEF IsToMove, Holds, Shows, IsBlank
<1> QED BY <1>1, ServerInvariance, ClientsInvariance, TurnsInvariance, PTL
=============================================================================
