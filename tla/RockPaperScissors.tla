------------------------- MODULE RockPaperScissors -------------------------
(***************************************************************************)
(* One rock-paper-scissors game under the server's main loop.  Any client  *)
(* who names the game may play: the loop stores the descriptor and the     *)
(* play in the game and starts the engine (pc = "run"), which dispatches   *)
(* one handler per step.  A run ends with the server back in select, or,   *)
(* when the engine reads past its table, possibly with its death.          *)
(***************************************************************************)
EXTENDS RPS_FSM

CONSTANTS Fds,      \* descriptors of the clients, the two players among them
          Uids,     \* game ids the two players may have been given
          Plays     \* values of the play byte a client may send (an int8_t)

ASSUME FdsAssumption == Fds \subseteq Nat
ASSUME UidsAssumption == Uids \subseteq Nat
ASSUME PlaysAssumption == Plays \subseteq -128..127

VARIABLES env,      \* the game's SingleRPSGameEnv
          from_id,  \* fsm_run's from_id
          to_id,    \* fsm_run's to_id
          pc,       \* where the server is
          out       \* the messages sent since the last request arrived

vars == << env, from_id, to_id, pc, out >>

Init ==
  /\ \E one, two \in Fds, ou, tu \in Uids : env = NewRPSGame(one, ou, two, tu)
  /\ from_id = FSM_INIT
  /\ to_id = FSM_EXIT
  /\ pc = "select"
  /\ out = << >>

\* A client, a player of this game or not, sends a play for it.
Play(fd, play) ==
  /\ pc = "select"
  /\ env' = [env EXCEPT !.fd_current_client = fd, !.move_received = play]
  /\ from_id' = FSM_INIT
  /\ to_id' = RPS_VALIDATE
  /\ pc' = "run"
  /\ out' = << >>

\* One round of fsm_run's loop that finds a row.
FsmStep ==
  /\ pc = "run"
  /\ FsmTransition(RPSTable, from_id, to_id) \in RPSHandlers
  /\ \E done \in RPSPerform(FsmTransition(RPSTable, from_id, to_id), env) :
       /\ env' = done.env
       /\ out' = out \o done.out
       /\ from_id' = to_id
       /\ to_id' = done.ret
       /\ pc' = IF done.ret = FSM_EXIT THEN "select" ELSE "run"

\* One that does not.
FsmOffTable ==
  /\ pc = "run"
  /\ FsmTransition(RPSTable, from_id, to_id) \notin RPSHandlers
  /\ pc' \in OffTableOutcomes
  /\ UNCHANGED << env, from_id, to_id, out >>

Next ==
  \/ \E fd \in Fds, play \in Plays : Play(fd, play)
  \/ FsmStep
  \/ FsmOffTable

\* The engine runs on the server's only thread and never blocks.
Fairness == WF_vars(FsmStep \/ FsmOffTable)

Spec == Init /\ [][Next]_vars

FairSpec == Spec /\ Fairness

-----------------------------------------------------------------------------
(* Properties.                                                             *)

RPSEnvs ==
  [fd_client_player_one : Fds, unique_game_id_player_one : Uids,
   fd_client_player_two : Fds, unique_game_id_player_two : Uids,
   client_one_play : 0..SCISSORS, client_two_play : 0..SCISSORS,
   fd_current_client : Fds, move_received : -128..127, winner : Fds \cup {0}]

\* Every variable has its type; the plays recorded are legal ones.
TypeOK ==
  /\ env \in RPSEnvs
  /\ from_id \in UndefinedReturn
  /\ to_id \in UndefinedReturn
  /\ pc \in {"select", "run", "crashed"}
  /\ out \in Seq(Messages)

\* The engine leaves its table only on a play that is not rock, paper or
\* scissors: no legal play, whoever sends it and whenever, can kill the server.
OnlyIllegalPlaysCrash == pc = "crashed" => ~IsValidPlay(env)

\* A play that was made is never changed, and a play that is made is the
\* current client's own.
PlaysAreFinal ==
  [][/\ env.client_one_play # 0 => env'.client_one_play = env.client_one_play
     /\ env.client_two_play # 0 => env'.client_two_play = env.client_two_play
     /\ env'.client_one_play # env.client_one_play =>
          env.fd_current_client = env.fd_client_player_one
     /\ env'.client_two_play # env.client_two_play =>
          env.fd_current_client = env.fd_client_player_two]_vars

Told(code) == {out[i].to : i \in {j \in 1..Len(out) : out[j].code = code}}

Beats == {<< ROCK, SCISSORS >>, << PAPER, ROCK >>, << SCISSORS, PAPER >>}

\* A result is only ever announced when both have played, and it is the one the
\* rules of the game give, to both players and to nobody else.  When a play of their
\* own has brought it about, each is told the play of the other.
ResultsFollowTheRules ==
  LET one == env.fd_client_player_one
      two == env.fd_client_player_two
      plays == << env.client_one_play, env.client_two_play >>
  IN  one # two =>
        /\ \/ Told("WIN") = {} /\ Told("LOSS") = {} /\ Told("TIE") = {}
           \/ /\ plays \in Beats
              /\ Told("WIN") = {one} /\ Told("LOSS") = {two} /\ Told("TIE") = {}
           \/ /\ << plays[2], plays[1] >> \in Beats
              /\ Told("WIN") = {two} /\ Told("LOSS") = {one} /\ Told("TIE") = {}
           \/ /\ plays[1] = plays[2] /\ plays[1] # 0
              /\ Told("WIN") = {} /\ Told("LOSS") = {} /\ Told("TIE") = {one, two}
        /\ env.fd_current_client \in {one, two} =>
             \A i \in 1..Len(out) : out[i].code \in {"WIN", "LOSS", "TIE"} =>
               out[i].arg = IF out[i].to = one THEN plays[2] ELSE plays[1]

BothPlayed == env.client_one_play # 0 /\ env.client_two_play # 0

\* The second play of the two announces a result to both players, in the turn it
\* arrives in: no game in which both have played is left waiting.
SecondPlayAnnounces ==
  [][pc = "run" /\ ~BothPlayed /\ BothPlayed' =>
       Told("WIN")' \cup Told("LOSS")' \cup Told("TIE")'
         = {env.fd_client_player_one, env.fd_client_player_two}]_vars

Outcomes ==
  IF pc # "run" THEN {Outcome(env, out, pc)}
  ELSE IF from_id = FSM_INIT THEN Mainzees(env)
  ELSE IF FsmTransition(RPSTable, from_id, to_id) \in RPSHandlers
    THEN {Outcome(done.env, out \o done.out, "select") :
            done \in RPSPerform(FsmTransition(RPSTable, from_id, to_id), env)}
  ELSE {Outcome(env, out, ending) : ending \in OffTableOutcomes}

\* Handler by handler, the engine reaches one of the outcomes Mainzees states at
\* one stroke (the form in which GameServer uses it).
EngineComputesMainzees ==
  [][pc = "run" => Outcomes' # {} /\ Outcomes' \subseteq Outcomes]_vars
=============================================================================
