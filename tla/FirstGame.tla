----------------------------- MODULE FirstGame -----------------------------
(***************************************************************************)
(* The first server and its clients.  Clients connect, and are accepted in *)
(* that order; each direction of a connection is a stream of bytes.  The   *)
(* server blocks in accept or in a read from the player whose turn it is.  *)
(* A client blocks in recv or at its prompt; it may leave at any time.     *)
(***************************************************************************)
EXTENDS TerminalClient, Sockets

SeqExt == INSTANCE SequencesExt

CONSTANTS MaxClients,  \* bound: how many clients ever connect
          Careless,    \* those who may leave, or type what is no digit
          Keys,        \* the bytes each user may type
          Pieces,      \* bound: how many bytes of a board each recv(9) may return
          MaxUnread    \* bound: nobody types while more bytes wait for a client

Clients == 1..MaxClients

ASSUME MaxClientsAssumption == MaxClients \in Nat
ASSUME CarelessAssumption == Careless \subseteq Clients
ASSUME KeysAssumption == Keys \in [Clients -> SUBSET (1..127)]
ASSUME PiecesAssumption == Pieces \in [Clients -> SUBSET (1..9)]
ASSUME MaxUnreadAssumption == MaxUnread \in Nat

VARIABLES env,        \* the server's GameEnvironment
          to_id,      \* fsm_run's to_id
          perform,    \* fsm_run's perform: the handler about to run
          status,     \* is the server alive?
          accepted,   \* how many clients the server has accepted
          client,     \* the state of each client
          peer,       \* the client's end of each connection
          to_client,  \* sent to the client, not received
          to_server   \* sent to the server, not read

server == << env, to_id, perform, status, accepted >>

vars == << server, client, peer, to_client, to_server >>

Init ==
  /\ env = NewEnv
  /\ to_id = ACCEPT_PLAYER_X
  /\ perform = FsmTransition(FirstTable, FSM_INIT, to_id)
  /\ status = "running"
  /\ accepted = 0
  /\ client = [c \in Clients |-> NewClient]
  /\ peer = [c \in Clients |-> "none"]
  /\ to_client = [c \in Clients |-> << >>]
  /\ to_server = [c \in Clients |-> << >>]

-----------------------------------------------------------------------------
(* The server.                                                             *)

\* The bytes among these messages that are for c.
BytesTo(c, msgs) ==
  LET own[n \in 0..Len(msgs)] ==
        IF n = 0 THEN << >>
        ELSE IF msgs[n].to = c THEN Append(own[n - 1], msgs[n].byte)
        ELSE own[n - 1]
  IN  own[Len(msgs)]

\* The handler's messages go out, and fsm_run turns to the next pair of ids.
Leaves(result) ==
  /\ to_id' = result.ret
  /\ perform' = FsmTransition(FirstTable, to_id, result.ret)
  /\ env' = Entered(perform', result.env)
  /\ to_client' = [c \in Clients |-> to_client[c] \o
                     IF peer[c] = "open" THEN BytesTo(c, result.out) ELSE << >>]
  /\ peer' = AfterSending(peer, result.out)
  /\ status' = "running" \/ (RaisesSigpipe(peer, result.out) /\ status' = "dead")

Dispatches(handler) == status = "running" /\ perform = handler

\* The next client in the backlog, who may have left already.
Accepts(c) ==
  /\ c = accepted + 1
  /\ peer[c] # "none"
  /\ accepted' = c

AcceptX(c) ==
  /\ Dispatches("server_on")
  /\ Accepts(c)
  /\ Leaves(ServerOn(env, c))
  /\ UNCHANGED << client, to_server >>

AcceptO(c) ==
  /\ Dispatches("connect_player_o")
  /\ Accepts(c)
  /\ Leaves(ConnectPlayerO(env, c))
  /\ UNCHANGED << client, to_server >>

ReadByte(c) ==
  /\ Dispatches("waiting_for_client")
  /\ c = env.fd_current_player
  /\ to_server[c] # << >>
  /\ to_server' = [to_server EXCEPT ![c] = Tail(@)]
  /\ Leaves(WaitingForClient(env, Head(to_server[c])))
  /\ UNCHANGED << client, accepted >>

ReadEnd(c) ==
  /\ Dispatches("waiting_for_client")
  /\ c = env.fd_current_player
  /\ to_server[c] = << >> /\ HasLeft(peer, c)
  /\ Leaves(WaitingForClient(env, 0))
  /\ UNCHANGED << client, accepted, to_server >>

\* The handlers that neither accept nor read.
Runs(handler, result) ==
  /\ Dispatches(handler)
  /\ Leaves(result)
  /\ UNCHANGED << client, accepted, to_server >>

Server ==
  \/ \E c \in Clients : AcceptX(c) \/ AcceptO(c) \/ ReadByte(c) \/ ReadEnd(c)
  \/ Runs("send_assignment", SendAssignment(env))
  \/ Runs("validate_input", ValidateInput(env))
  \/ Runs("send_response_to_client", SendResponse(env))
  \/ Runs("game_over", GameOver(env))

-----------------------------------------------------------------------------
(* The clients.                                                            *)

Connect(c) ==
  /\ peer[c] = "none"
  /\ \A other \in Clients : other < c => peer[other] # "none"
  /\ peer' = [peer EXCEPT ![c] = "open"]
  /\ UNCHANGED << server, client, to_client, to_server >>

\* A client whose program has ended has closed its connection.
ClientBecomes(c, new) ==
  /\ client' = [client EXCEPT ![c] = new]
  /\ peer' = IF new.phase = "gone" THEN [peer EXCEPT ![c] = "closed"] ELSE peer

\* A message is received.  recv(9) returns whatever part of the board has arrived;
\* the bytes it leaves are squares, later taken for messages and ignored.
Receive(c) ==
  /\ peer[c] = "open"
  /\ client[c].phase = "recv"
  /\ to_client[c] # << >>
  /\ LET message == Head(to_client[c])
     IN  /\ \E n \in IF message = INVITE THEN Pieces[c] ELSE {Extent(message) - 1} :
              ClientBecomes(c, Received(client[c], SubSeq(to_client[c], 1, n + 1)))
         /\ to_client' = [to_client EXCEPT ![c] = SubSeq(@, Extent(message) + 1, Len(@))]
  /\ UNCHANGED << server, to_server >>

Type(c, byte) ==
  /\ peer[c] = "open"
  /\ client[c].phase = "prompt"
  /\ c \in Careless \/ byte \in 48..57
  /\ \A other \in Clients : Len(to_client[other]) <= MaxUnread
  /\ ClientBecomes(c, Typed(client[c], byte))
  /\ to_server' = [to_server EXCEPT ![c] = Append(@, byte)]
  /\ UNCHANGED << server, to_client >>

Leave(c) ==
  /\ c \in Careless
  /\ peer[c] = "open"
  /\ ClientBecomes(c, [client[c] EXCEPT !.phase = "gone"])
  /\ UNCHANGED << server, to_client, to_server >>

ClientStep(c) == Connect(c) \/ Receive(c) \/ Leave(c) \/ \E byte \in Keys[c] : Type(c, byte)

Next == status = "running" /\ (Server \/ \E c \in Clients : ClientStep(c))

\* The server and the clients' programs go on when they are not blocked; users may
\* type, connect and leave, or not.
Fairness ==
  /\ WF_vars(Server)
  /\ \A c \in Clients : WF_vars(status = "running" /\ Receive(c))

Spec == Init /\ [][Next]_vars /\ Fairness

-----------------------------------------------------------------------------
(* Properties.                                                             *)

ServerHandlers == {"server_on", "connect_player_o", "send_assignment", "waiting_for_client",
                   "validate_input", "send_response_to_client", "game_over"}

GameEnvs ==
  [current_player : {X, O}, fd_current_player : Clients \cup {0},
   fd_client_X : Clients \cup {0}, fd_client_O : Clients \cup {0},
   response_type : {ACCEPTED, INVALID},
   game_board : [Cells -> {X, O, BLANK_SPACE}], play_count : 0..9, one_byte : 0..127]

\* Every variable has its type; play_count, which is never reset, stops at 9, and the
\* engine finds a row for every pair of ids.
TypeOK ==
  /\ env \in GameEnvs
  /\ to_id \in ACCEPT_PLAYER_X..GAMEOVER
  /\ perform \in ServerHandlers
  /\ status \in {"running", "dead"}
  /\ accepted \in 0..MaxClients
  /\ peer \in [Clients -> PeerStates]
  /\ \A c \in Clients :
       /\ client[c].phase \in Phases
       /\ client[c].identity \in {0, X, O}
       /\ client[c].proposed \in {NoPlay} \cup 0..9
       /\ Len(client[c].board) \in 1..9
       /\ to_client[c] \in Seq(1..127)
       /\ to_server[c] \in Seq(Keys[c])

\* Is the server waiting for a move?
Awaiting == Dispatches("waiting_for_client")

IsBlank == env.game_board = BlankBoard

NobodyHasLeft == \A c \in Clients : ~HasLeft(peer, c)

SeatOf(c) == IF c = env.fd_client_X THEN X ELSE IF c = env.fd_client_O THEN O ELSE 0

\* The next mark is that of the seat of the player who is to make it, except for the
\* first move after O has left, which X makes as O.
MarksFollowSeats ==
  Awaiting => \/ env.current_player = SeatOf(env.fd_current_player)
              \/ ~NobodyHasLeft /\ IsBlank /\ env.current_player = O

\* As long as nobody has left, a client at its prompt shows the board on which its
\* move will be played, or as much of it as recv returned, unless the board is blank.
PromptShowsTheBoard ==
  NobodyHasLeft /\ ~IsBlank =>
    \A c \in Clients : client[c].phase = "prompt" =>
      SeqExt!IsPrefix(client[c].board, [n \in 1..9 |-> env.game_board[n - 1]])

\* Whoever leaves, and however many moves are sent ahead of their turn, a client is
\* never told ACCEPTED when it has proposed nothing.
AcceptedWasProposed ==
  \A c \in Clients :
    client[c].phase = "recv" /\ to_client[c] # << >> /\ Head(to_client[c]) = ACCEPTED
      => client[c].proposed # NoPlay

\* O, having ended a game, is awaited to begin the next.
OIsToBegin == Awaiting /\ IsBlank /\ env.fd_current_player = env.fd_client_O

\* Time and again the player whose turn it is is at its prompt, or the server waits
\* for a client to connect, unless O has ended a game: then everybody waits.
MoverIsAsked ==
  []<>(\/ env.fd_current_player # 0 /\ client[env.fd_current_player].phase = "prompt"
       \/ Dispatches("server_on") \/ Dispatches("connect_player_o")
       \/ OIsToBegin
       \/ status = "dead")
=============================================================================
