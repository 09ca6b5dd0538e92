---------------------- MODULE RockPaperScissors_proofs ----------------------
(***************************************************************************)
(* Proofs about RockPaperScissors, for any set of descriptors, ids and     *)
(* plays: what can end the process, that plays are final, that results     *)
(* follow the rules of the game, and that the engine computes Mainzees.    *)
(***************************************************************************)
EXTENDS RockPaperScissors, TTT_FSM_proofs, TLAPS

USE DEF FSM_INIT, FSM_EXIT, FSM_IGNORE, RPS_WAIT, RPS_VALIDATE, RPS_TURNOVER, RPS_GAMEOVER,
        RPS_ERROR, ROCK, PAPER, SCISSORS

-----------------------------------------------------------------------------
(* The handlers.                                                           *)

\* Descriptors are integers.
LEMMA FdsAreInts == \A fd \in Fds : fd \in Int
BY FdsAssumption

\* The remainder the code computes is the standing of the two plays.
LEMMA StandingRules ==
  ASSUME NEW e, e.client_one_play \in 1..3, e.client_two_play \in 1..3
  PROVE  /\ Standing(e) \in {0, 1, 2}
         /\ Standing(e) = 0 => e.client_one_play = e.client_two_play
         /\ Standing(e) = 1 => << e.client_one_play, e.client_two_play >> \in Beats
         /\ Standing(e) = 2 => << e.client_two_play, e.client_one_play >> \in Beats
<1> DEFINE a == e.client_one_play
           b == e.client_two_play
<1>1. Standing(e) = (3 + a - b) % 3
  BY DEF Standing, CRemainder
<1>2. \/ << a, b >> \in {<< 1, 1 >>, << 2, 2 >>, << 3, 3 >>}
      \/ << a, b >> \in Beats
      \/ << b, a >> \in Beats
  BY DEF Beats
<1>3. /\ 3 % 3 = 0 /\ 1 % 3 = 1 /\ 4 % 3 = 1 /\ 2 % 3 = 2 /\ 5 % 3 = 2
  OBVIOUS
<1>4. CASE << a, b >> \in {<< 1, 1 >>, << 2, 2 >>, << 3, 3 >>}
  <2>1. a = b /\ 3 + a - b = 3
    BY <1>4
  <2> QED BY <1>1, <1>3, <2>1
<1>5. CASE << a, b >> \in Beats
  <2>1. 3 + a - b = 1 \/ 3 + a - b = 4
    BY <1>5 DEF Beats
  <2> QED BY <1>1, <1>3, <1>5, <2>1
<1>6. CASE << b, a >> \in Beats
  <2>1. 3 + a - b = 2 \/ 3 + a - b = 5
    BY <1>6 DEF Beats
  <2> QED BY <1>1, <1>3, <1>6, <2>1
<1> QED BY <1>2, <1>4, <1>5, <1>6

\* The result these messages announce, if any, is the one of the plays e records.
Announces(e, messages) ==
  LET one == e.fd_client_player_one
      two == e.fd_client_player_two
      plays == << e.client_one_play, e.client_two_play >>
      told(code) == ToldBy(messages, code)
  IN  one # two =>
        /\ \/ told("WIN") = {} /\ told("LOSS") = {} /\ told("TIE") = {}
           \/ /\ plays \in Beats
              /\ told("WIN") = {one} /\ told("LOSS") = {two} /\ told("TIE") = {}
           \/ /\ << plays[2], plays[1] >> \in Beats
              /\ told("WIN") = {two} /\ told("LOSS") = {one} /\ told("TIE") = {}
           \/ /\ plays[1] = plays[2] /\ plays[1] # 0
              /\ told("WIN") = {} /\ told("LOSS") = {} /\ told("TIE") = {one, two}
        /\ e.fd_current_client \in {one, two} =>
             \A i \in 1..Len(messages) : messages[i].code \in {"WIN", "LOSS", "TIE"} =>
               messages[i].arg = IF messages[i].to = one THEN plays[2] ELSE plays[1]

\* Everybody these messages tell a result.
AllTold(messages) == ToldBy(messages, "WIN") \cup ToldBy(messages, "LOSS") \cup ToldBy(messages, "TIE")

\* The players, the plays and the play just received are the same in both.
SamePlaying(e, f) ==
  /\ f.fd_client_player_one = e.fd_client_player_one
  /\ f.fd_client_player_two = e.fd_client_player_two
  /\ f.client_one_play = e.client_one_play
  /\ f.client_two_play = e.client_two_play
  /\ f.fd_current_client = e.fd_current_client
  /\ f.move_received = e.move_received

HaveBothPlayed(e) == e.client_one_play # 0 /\ e.client_two_play # 0

\* An acceptance, and a result for each player with the play it is sent with.
TwoResults(e, c1, a1, c2, a2) ==
  SendAcceptPlay(e) \o << Msg(e.fd_client_player_one, c1, a1),
                          Msg(e.fd_client_player_two, c2, a2) >>

\* Each player is told its own result and nobody else is told any.
TellsResults(e, all, c1, a1, c2, a2) ==
  LET one == e.fd_client_player_one
      two == e.fd_client_player_two
  IN  /\ all \in Seq(Messages)
      /\ AllTold(all) = {one, two}
      /\ \A code \in {"WIN", "LOSS", "TIE"} :
           ToldBy(all, code) = {fd \in {one, two} : \/ fd = one /\ c1 = code
                                                    \/ fd = two /\ c2 = code}
      /\ one # two =>
           \A i \in 1..Len(all) : all[i].code \in {"WIN", "LOSS", "TIE"} =>
             all[i].arg = IF all[i].to = one THEN a1 ELSE a2

\* Who is told what by an acceptance and a result for each player.
LEMMA TwoTold ==
  ASSUME NEW e \in RPSEnvs, NEW a1 \in Int, NEW a2 \in Int,
         NEW c1 \in {"WIN", "LOSS", "TIE"}, NEW c2 \in {"WIN", "LOSS", "TIE"}
  PROVE  TellsResults(e, TwoResults(e, c1, a1, c2, a2), c1, a1, c2, a2)
<1> DEFINE one == e.fd_client_player_one
           two == e.fd_client_player_two
           m1 == Msg(e.fd_current_client, "ACCEPTED", 0)
           m2 == Msg(one, c1, a1)
           m3 == Msg(two, c2, a2)
           all == << m1 >> \o << m2, m3 >>
<1>1. one \in Int /\ two \in Int /\ e.fd_current_client \in Int
  <2>1. one \in Fds /\ two \in Fds /\ e.fd_current_client \in Fds
    BY DEF RPSEnvs
  <2> QED BY <2>1, FdsAreInts
<1>2. m1 \in Messages /\ m2 \in Messages /\ m3 \in Messages
  BY <1>1 DEF Msg, Messages, Codes
<1>3. /\ m1.code = "ACCEPTED"
      /\ m2.to = one /\ m2.code = c1 /\ m2.arg = a1
      /\ m3.to = two /\ m3.code = c2 /\ m3.arg = a2
  BY DEF Msg
<1>4. TwoResults(e, c1, a1, c2, a2) = all
  BY DEF TwoResults, SendAcceptPlay
<1> HIDE DEF m1, m2, m3
<1>5. /\ all \in Seq(Messages) /\ Len(all) = 3
      /\ all[1] = m1 /\ all[2] = m2 /\ all[3] = m3
      /\ \A code : ToldBy(all, code) = {m.to : m \in {n \in {m1, m2, m3} : n.code = code}}
  BY <1>2, ThreeMessages
<1> HIDE DEF all, one, two
<1>6. ASSUME NEW code \in {"WIN", "LOSS", "TIE"}
      PROVE  ToldBy(all, code) = {fd \in {one, two} : \/ fd = one /\ c1 = code
                                                      \/ fd = two /\ c2 = code}
  <2>1. \A m : m \in {n \in {m1, m2, m3} : n.code = code} <=>
                 (m = m2 /\ c1 = code) \/ (m = m3 /\ c2 = code)
    BY <1>3
  <2>2. \A fd : fd \in {m.to : m \in {n \in {m1, m2, m3} : n.code = code}} <=>
                  (fd = one /\ c1 = code) \/ (fd = two /\ c2 = code)
    BY <1>3, <2>1
  <2> QED BY <1>5, <2>2
<1>7. AllTold(all) = {one, two}
  BY <1>6 DEF AllTold
<1>8. one # two =>
        \A i \in 1..Len(all) : all[i].code \in {"WIN", "LOSS", "TIE"} =>
          all[i].arg = IF all[i].to = one THEN a1 ELSE a2
  BY <1>3, <1>5
<1> QED BY <1>4, <1>5, <1>6, <1>7, <1>8 DEF TellsResults, one, two

\* What check_RPS_game_over leaves: the end of the game and its result when both
\* have played, nothing before that.
LEMMA GameOverResult ==
  ASSUME NEW e \in RPSEnvs
  PROVE  LET r == CheckRPSGameOver(e)
         IN  /\ r.env \in RPSEnvs /\ SamePlaying(e, r.env)
             /\ r.out \in Seq(Messages)
             /\ r.ret = IF HaveBothPlayed(e) THEN RPS_GAMEOVER ELSE RPS_TURNOVER
             /\ ~HaveBothPlayed(e) => r.out = << >>
             /\ HaveBothPlayed(e) =>
                  AllTold(r.out) = {e.fd_client_player_one, e.fd_client_player_two}
             /\ /\ e.fd_current_client = e.fd_client_player_one =>
                     e.client_one_play = e.move_received
                /\ e.fd_current_client = e.fd_client_player_two =>
                     e.client_two_play = e.move_received
                /\ HaveBothPlayed(e)
                => Announces(e, r.out)
<1> DEFINE r == CheckRPSGameOver(e)
           one == e.fd_client_player_one
           two == e.fd_client_player_two
           a == e.client_one_play
           b == e.client_two_play
<1>1. /\ a \in 0..3 /\ b \in 0..3 /\ one \in Fds /\ two \in Fds
      /\ a \in Int /\ b \in Int /\ e.move_received \in Int
  BY DEF RPSEnvs
<1>2. CASE ~HaveBothPlayed(e)
  <2>1. ~(a > 0 /\ b > 0)
    BY <1>1, <1>2 DEF HaveBothPlayed
  <2>2. r = Result(e, << >>, RPS_TURNOVER)
    BY <2>1 DEF CheckRPSGameOver
  <2> QED BY <1>2, <2>2 DEF Result, SamePlaying
<1>3. CASE HaveBothPlayed(e)
  <2>0. a \in 1..3 /\ b \in 1..3 /\ a > 0 /\ b > 0
    BY <1>1, <1>3 DEF HaveBothPlayed
  <2>1. CASE Standing(e) = 0
    <3>1. r = Result(e, SendRPSTie(e), RPS_GAMEOVER)
      BY <2>0, <2>1 DEF CheckRPSGameOver
    <3>2. a = b
      BY <2>0, <2>1, StandingRules
    <3> DEFINE all == SendRPSTie(e)
    <3>3. TellsResults(e, all, "TIE", e.move_received, "TIE", e.move_received)
      <4>1. all = TwoResults(e, "TIE", e.move_received, "TIE", e.move_received)
        BY DEF SendRPSTie, TwoResults
      <4> QED BY <1>1, <4>1, TwoTold
    <3> HIDE DEF all
    <3>4. ToldBy(all, "WIN") = {} /\ ToldBy(all, "LOSS") = {} /\ ToldBy(all, "TIE") = {one, two}
      BY <3>3 DEF TellsResults
    <3>5. /\ e.fd_current_client = one => a = e.move_received
          /\ e.fd_current_client = two => b = e.move_received
          => Announces(e, all)
      BY <2>0, <3>2, <3>3, <3>4 DEF Announces, TellsResults
    <3> QED BY <1>3, <3>1, <3>3, <3>5 DEF Result, SamePlaying, TellsResults, all
  <2>2. CASE Standing(e) = 1
    <3> DEFINE f == [e EXCEPT !.winner = one]
               all == SendRPSWinLoss(f)
    <3>1. r = Result(f, all, RPS_GAMEOVER)
      BY <2>0, <2>2 DEF CheckRPSGameOver
    <3>2. << a, b >> \in Beats
      BY <2>0, <2>2, StandingRules
    <3>3. f \in RPSEnvs /\ SamePlaying(e, f) /\ f.winner = one
      BY <1>1 DEF RPSEnvs, SamePlaying
    <3> HIDE DEF f
    <3>4. all = TwoResults(f, "WIN", b, "LOSS", a)
      BY <3>3 DEF SendRPSWinLoss, TwoResults, SamePlaying
    <3>5. TellsResults(f, all, "WIN", b, "LOSS", a)
      BY <1>1, <3>3, <3>4, TwoTold
    <3> HIDE DEF all
    <3>6. TellsResults(e, all, "WIN", b, "LOSS", a)
      BY <3>3, <3>5 DEF TellsResults, SamePlaying
    <3>7. one # two =>
            ToldBy(all, "WIN") = {one} /\ ToldBy(all, "LOSS") = {two} /\ ToldBy(all, "TIE") = {}
      BY <3>6 DEF TellsResults
    <3>8. Announces(e, all)
      BY <3>2, <3>6, <3>7 DEF Announces, TellsResults
    <3> QED BY <1>3, <3>1, <3>3, <3>6, <3>8 DEF Result, TellsResults
  <2>3. CASE Standing(e) = 2
    <3> DEFINE f == [e EXCEPT !.winner = two]
               all == SendRPSWinLoss(f)
    <3>1. r = Result(f, all, RPS_GAMEOVER)
      BY <2>0, <2>3 DEF CheckRPSGameOver
    <3>2. << b, a >> \in Beats
      BY <2>0, <2>3, StandingRules
    <3>3. f \in RPSEnvs /\ SamePlaying(e, f) /\ f.winner = two
      BY <1>1 DEF RPSEnvs, SamePlaying
    <3> HIDE DEF f
    <3>4. CASE one = two
      <4>1. all = TwoResults(f, "WIN", b, "LOSS", a)
        BY <3>3, <3>4 DEF SendRPSWinLoss, TwoResults, SamePlaying
      <4>2. TellsResults(f, all, "WIN", b, "LOSS", a)
        BY <1>1, <3>3, <4>1, TwoTold
      <4> HIDE DEF all
      <4>3. all \in Seq(Messages) /\ AllTold(all) = {one, two}
        BY <3>3, <4>2 DEF TellsResults, SamePlaying
      <4>4. Announces(e, all)
        BY <3>4 DEF Announces
      <4> QED BY <1>3, <3>1, <3>3, <4>3, <4>4 DEF Result
    <3>5. CASE one # two
      <4>1. all = TwoResults(f, "LOSS", b, "WIN", a)
        BY <3>3, <3>5 DEF SendRPSWinLoss, TwoResults, SamePlaying
      <4>2. TellsResults(f, all, "LOSS", b, "WIN", a)
        BY <1>1, <3>3, <4>1, TwoTold
      <4> HIDE DEF all
      <4>3. TellsResults(e, all, "LOSS", b, "WIN", a)
        BY <3>3, <4>2 DEF TellsResults, SamePlaying
      <4>4. ToldBy(all, "WIN") = {two} /\ ToldBy(all, "LOSS") = {one} /\ ToldBy(all, "TIE") = {}
        BY <3>5, <4>3 DEF TellsResults
      <4>5. Announces(e, all)
        BY <3>2, <4>3, <4>4 DEF Announces, TellsResults
      <4> QED BY <1>3, <3>1, <3>3, <4>3, <4>5 DEF Result, TellsResults
    <3> QED BY <3>4, <3>5
  <2> QED BY <2>0, <2>1, <2>2, <2>3, StandingRules
<1> QED BY <1>2, <1>3

\* Who plays, and in which game, stays the same.
SamePlayers(e, f) ==
  /\ f.fd_client_player_one = e.fd_client_player_one
  /\ f.fd_client_player_two = e.fd_client_player_two
  /\ f.fd_current_client = e.fd_current_client
  /\ f.move_received = e.move_received

\* A play that was made stays, and one that is made is the current client's.
PlaysKept(e, f) ==
  /\ e.client_one_play # 0 => f.client_one_play = e.client_one_play
  /\ e.client_two_play # 0 => f.client_two_play = e.client_two_play
  /\ f.client_one_play # e.client_one_play => e.fd_current_client = e.fd_client_player_one
  /\ f.client_two_play # e.client_two_play => e.fd_current_client = e.fd_client_player_two

\* Recording a legal play of somebody who has not gone yet.
LEMMA RecordResult ==
  ASSUME NEW e \in RPSEnvs, IsValidPlay(e), ~HasGone(e)
  PROVE  LET f == RecordPlay(e)
         IN  /\ f \in RPSEnvs
             /\ SamePlayers(e, f)
             /\ PlaysKept(e, f)
             /\ e.fd_client_player_one # e.fd_client_player_two =>
                  /\ f.fd_current_client = f.fd_client_player_one =>
                       f.client_one_play = f.move_received
                  /\ f.fd_current_client = f.fd_client_player_two =>
                       f.client_two_play = f.move_received
<1>1. e.move_received \in 0..3
  BY DEF IsValidPlay
<1>2. CASE e.fd_current_client = e.fd_client_player_one
  <2>1. e.client_one_play = 0
    BY <1>2 DEF HasGone
  <2>2. RecordPlay(e) = [e EXCEPT !.client_one_play = e.move_received]
    BY <1>2 DEF RecordPlay
  <2> QED BY <1>1, <1>2, <2>1, <2>2 DEF RPSEnvs, SamePlayers, PlaysKept
<1>3. CASE /\ e.fd_current_client # e.fd_client_player_one
           /\ e.fd_current_client = e.fd_client_player_two
  <2>1. e.client_two_play = 0
    BY <1>3 DEF HasGone
  <2>2. RecordPlay(e) = [e EXCEPT !.client_two_play = e.move_received]
    BY <1>3 DEF RecordPlay
  <2> QED BY <1>1, <1>3, <2>1, <2>2 DEF RPSEnvs, SamePlayers, PlaysKept
<1>4. CASE /\ e.fd_current_client # e.fd_client_player_one
           /\ e.fd_current_client # e.fd_client_player_two
  BY <1>4 DEF RecordPlay, SamePlayers, PlaysKept
<1> QED BY <1>2, <1>3, <1>4

\* No message announces nothing.
LEMMA SilenceAnnounces ==
  ASSUME NEW e
  PROVE  Announces(e, << >>)
BY DEF Announces, ToldBy

\* What validate_RPS_input may leave.
LEMMA ValidateResult ==
  ASSUME NEW e \in RPSEnvs, NEW done \in ValidateRPSInput(e)
  PROVE  /\ done.env \in RPSEnvs
         /\ done.out \in Seq(Messages)
         /\ done.ret \in UndefinedReturn
         /\ IsValidPlay(e) => done.ret \in {RPS_WAIT, RPS_TURNOVER, RPS_GAMEOVER}
         /\ SamePlayers(e, done.env)
         /\ PlaysKept(e, done.env)
         /\ Announces(done.env, done.out)
         /\ ~HaveBothPlayed(e) /\ HaveBothPlayed(done.env) =>
              AllTold(done.out) = {e.fd_client_player_one, e.fd_client_player_two}
<1>1. CASE ~IsValidPlay(e)
  <2>1. PICK ret \in UndefinedReturn : done = Result(e, << >>, ret)
    BY <1>1 DEF ValidateRPSInput
  <2>2. done.env = e /\ done.out = << >> /\ done.ret = ret
    BY <2>1 DEF Result
  <2> QED BY <1>1, <2>2, SilenceAnnounces DEF SamePlayers, PlaysKept
<1>2. CASE IsValidPlay(e) /\ HasGone(e)
  <2>1. done = Result(e, << >>, RPS_WAIT)
    BY <1>2 DEF ValidateRPSInput
  <2>2. done.env = e /\ done.out = << >> /\ done.ret = RPS_WAIT
    BY <2>1 DEF Result
  <2> QED BY <2>2, SilenceAnnounces DEF SamePlayers, PlaysKept, UndefinedReturn
<1>3. CASE IsValidPlay(e) /\ ~HasGone(e)
  <2> DEFINE f == RecordPlay(e)
             r == CheckRPSGameOver(f)
  <2>1. done = r
    BY <1>3 DEF ValidateRPSInput
  <2>2. /\ f \in RPSEnvs
        /\ SamePlayers(e, f)
        /\ PlaysKept(e, f)
        /\ e.fd_client_player_one # e.fd_client_player_two =>
             /\ f.fd_current_client = f.fd_client_player_one =>
                  f.client_one_play = f.move_received
             /\ f.fd_current_client = f.fd_client_player_two =>
                  f.client_two_play = f.move_received
    BY <1>3, RecordResult
  <2> HIDE DEF f
  <2>3. /\ r.env \in RPSEnvs /\ SamePlaying(f, r.env)
        /\ r.out \in Seq(Messages)
        /\ r.ret = IF HaveBothPlayed(f) THEN RPS_GAMEOVER ELSE RPS_TURNOVER
        /\ ~HaveBothPlayed(f) => r.out = << >>
        /\ HaveBothPlayed(f) =>
             AllTold(r.out) = {f.fd_client_player_one, f.fd_client_player_two}
        /\ /\ f.fd_current_client = f.fd_client_player_one =>
                f.client_one_play = f.move_received
           /\ f.fd_current_client = f.fd_client_player_two =>
                f.client_two_play = f.move_received
           /\ HaveBothPlayed(f)
           => Announces(f, r.out)
    BY <2>2, GameOverResult
  <2> HIDE DEF r
  <2>4. Announces(f, r.out)
    <3>1. CASE f.fd_client_player_one = f.fd_client_player_two
      BY <3>1 DEF Announces
    <3>2. CASE ~HaveBothPlayed(f)
      BY <2>3, <3>2, SilenceAnnounces
    <3>3. CASE HaveBothPlayed(f) /\ f.fd_client_player_one # f.fd_client_player_two
      BY <2>2, <2>3, <3>3 DEF SamePlayers
    <3> QED BY <3>1, <3>2, <3>3
  <2>5. Announces(r.env, r.out)
    BY <2>3, <2>4 DEF Announces, SamePlaying
  <2>6. SamePlayers(e, r.env) /\ PlaysKept(e, r.env)
    BY <2>2, <2>3 DEF SamePlayers, PlaysKept, SamePlaying
  <2>7. HaveBothPlayed(r.env) =>
          AllTold(r.out) = {e.fd_client_player_one, e.fd_client_player_two}
    BY <2>2, <2>3 DEF HaveBothPlayed, SamePlaying, SamePlayers
  <2>8. r.ret \in {RPS_TURNOVER, RPS_GAMEOVER}
    BY <2>3
  <2> QED BY <2>1, <2>3, <2>5, <2>6, <2>7, <2>8 DEF UndefinedReturn
<1> QED BY <1>1, <1>2, <1>3

\* An acceptance after the result changes nothing about it.
LEMMA AcceptanceAnnounces ==
  ASSUME NEW e \in RPSEnvs, NEW messages \in Seq(Messages), Announces(e, messages)
  PROVE  /\ messages \o SendAcceptPlay(e) \in Seq(Messages)
         /\ Announces(e, messages \o SendAcceptPlay(e))
<1> DEFINE m == Msg(e.fd_current_client, "ACCEPTED", 0)
           longer == messages \o << m >>
<1>1. m \in Messages /\ m.code = "ACCEPTED"
  <2>1. e.fd_current_client \in Fds
    BY DEF RPSEnvs
  <2> QED BY <2>1, FdsAreInts DEF Msg, Messages, Codes
<1>2. longer = messages \o SendAcceptPlay(e)
  BY DEF SendAcceptPlay
<1> HIDE DEF m
<1>3. /\ longer \in Seq(Messages)
      /\ Len(longer) = Len(messages) + 1
      /\ Len(messages) \in Nat
      /\ \A i \in 1..Len(messages) : longer[i] = messages[i]
      /\ longer[Len(messages) + 1] = m
  BY <1>1
<1> HIDE DEF longer
<1>4. ASSUME NEW code, code # "ACCEPTED" PROVE ToldBy(longer, code) = ToldBy(messages, code)
  <2>1. \A i : i \in {j \in 1..Len(longer) : longer[j].code = code}
                 <=> i \in {j \in 1..Len(messages) : messages[j].code = code}
    BY <1>1, <1>3, <1>4
  <2>2. \A fd : fd \in ToldBy(longer, code) <=> fd \in ToldBy(messages, code)
    BY <1>3, <2>1 DEF ToldBy
  <2>3. ToldBy(longer, code) = ToldBy(messages, code)
    <3> DEFINE A == ToldBy(longer, code)
               B == ToldBy(messages, code)
    <3> HIDE DEF A, B
    <3> SUFFICES \A fd : fd \in A <=> fd \in B
      BY DEF A, B, ToldBy
    <3> QED BY <2>2 DEF A, B
  <2> QED BY <2>3
<1>5. ASSUME NEW i \in 1..Len(longer), longer[i].code \in {"WIN", "LOSS", "TIE"}
      PROVE  i \in 1..Len(messages) /\ longer[i] = messages[i]
  BY <1>1, <1>3, <1>5
<1>6. Announces(e, longer)
  BY <1>4, <1>5 DEF Announces
<1> QED BY <1>2, <1>3, <1>6

-----------------------------------------------------------------------------
(* The inductive invariant.                                                *)

\* The server is in select, or the engine is about to validate a play and has sent
\* nothing, or it has: then only an illegal play has led off the table.
AtDispatch ==
  pc = "run" =>
    \/ from_id = FSM_INIT /\ to_id = RPS_VALIDATE /\ out = << >>
    \/ /\ from_id = RPS_VALIDATE
       /\ \/ to_id \in {RPS_TURNOVER, RPS_GAMEOVER}
          \/ to_id \in StrayIds /\ ~IsValidPlay(env)

IInv == TypeOK /\ AtDispatch /\ OnlyIllegalPlaysCrash /\ Announces(env, out)

\* The invariant holds of a new game.
LEMMA InitIInv == Init => IInv
<1> SUFFICES ASSUME Init PROVE IInv
  OBVIOUS
<1>1. PICK one \in Fds, two \in Fds, ou \in Uids, tu \in Uids : env = NewRPSGame(one, ou, two, tu)
  BY DEF Init
<1>2. env \in RPSEnvs
  BY <1>1 DEF NewRPSGame, RPSEnvs
<1>3. from_id = FSM_INIT /\ to_id = FSM_EXIT /\ pc = "select" /\ out = << >>
  BY DEF Init
<1>4. TypeOK
  BY <1>2, <1>3 DEF TypeOK, UndefinedReturn
<1> QED BY <1>3, <1>4, SilenceAnnounces DEF IInv, AtDispatch, OnlyIllegalPlaysCrash

\* What a step of the engine does, in terms of where it is.
LEMMA EngineStep ==
  ASSUME IInv, FsmStep \/ FsmOffTable
  PROVE  \/ /\ from_id = FSM_INIT /\ to_id = RPS_VALIDATE /\ out = << >>
            /\ \E done \in ValidateRPSInput(env) :
                 /\ env' = done.env /\ out' = out \o done.out /\ out' = done.out
                 /\ from_id' = RPS_VALIDATE /\ to_id' = done.ret
                 /\ pc' = IF done.ret = FSM_EXIT THEN "select" ELSE "run"
         \/ /\ from_id = RPS_VALIDATE /\ to_id = RPS_TURNOVER
            /\ env' = env /\ out' = out \o SendAcceptPlay(env)
            /\ from_id' = to_id /\ to_id' = FSM_EXIT /\ pc' = "select"
         \/ /\ from_id = RPS_VALIDATE /\ to_id = RPS_GAMEOVER
            /\ env' = env /\ out' = out \o << >> /\ out' = out
            /\ from_id' = to_id /\ to_id' = FSM_EXIT /\ pc' = "select"
         \/ /\ from_id = RPS_VALIDATE /\ to_id \in StrayIds /\ ~IsValidPlay(env)
            /\ pc' \in OffTableOutcomes
            /\ UNCHANGED << env, from_id, to_id, out >>
<1>0. pc = "run" /\ AtDispatch /\ TypeOK
  BY DEF FsmStep, FsmOffTable, IInv
<1>1. CASE from_id = FSM_INIT /\ to_id = RPS_VALIDATE /\ out = << >>
  <2>1. FsmTransition(RPSTable, from_id, to_id) = "validate_RPS_input"
    BY <1>1, RPSRowsFound
  <2>2. RPSPerform("validate_RPS_input", env) = ValidateRPSInput(env)
    BY DEF RPSPerform
  <2>3. FsmStep
    BY <2>1 DEF FsmOffTable, RPSHandlers
  <2>4. PICK done \in ValidateRPSInput(env) :
           /\ env' = done.env /\ out' = out \o done.out
           /\ from_id' = to_id /\ to_id' = done.ret
           /\ pc' = IF done.ret = FSM_EXIT THEN "select" ELSE "run"
    BY <2>1, <2>2, <2>3 DEF FsmStep
  <2>5. done.out \in Seq(Messages)
    BY <1>0, ValidateResult DEF TypeOK
  <2>6. out \o done.out = done.out
    BY <1>1, <2>5
  <2> QED BY <1>1, <2>4, <2>6
<1>2. CASE from_id = RPS_VALIDATE /\ to_id = RPS_TURNOVER
  <2>1. FsmTransition(RPSTable, from_id, to_id) = "accepted_RPS_move"
    BY <1>2, RPSRowsFound
  <2>2. RPSPerform("accepted_RPS_move", env) = {Result(env, SendAcceptPlay(env), FSM_EXIT)}
    BY DEF RPSPerform, AcceptedRPSMove
  <2>3. FsmStep
    BY <2>1 DEF FsmOffTable, RPSHandlers
  <2> QED BY <1>2, <2>1, <2>2, <2>3 DEF FsmStep, Result
<1>3. CASE from_id = RPS_VALIDATE /\ to_id = RPS_GAMEOVER
  <2>1. FsmTransition(RPSTable, from_id, to_id) = "game_RPS_over"
    BY <1>3, RPSRowsFound
  <2>2. RPSPerform("game_RPS_over", env) = {Result(env, << >>, FSM_EXIT)}
    BY DEF RPSPerform, GameRPSOver
  <2>3. FsmStep
    BY <2>1 DEF FsmOffTable, RPSHandlers
  <2>4. PICK done \in {Result(env, << >>, FSM_EXIT)} :
           /\ env' = done.env /\ out' = out \o done.out
           /\ from_id' = to_id /\ to_id' = done.ret
           /\ pc' = IF done.ret = FSM_EXIT THEN "select" ELSE "run"
    BY <2>1, <2>2, <2>3 DEF FsmStep
  <2>5. done.env = env /\ done.out = << >> /\ done.ret = FSM_EXIT
    BY DEF Result
  <2>6. out \o << >> = out
    BY <1>0 DEF TypeOK
  <2> QED BY <1>3, <2>4, <2>5, <2>6
<1>4. CASE from_id = RPS_VALIDATE /\ to_id \in StrayIds /\ ~IsValidPlay(env)
  <2>1. FsmTransition(RPSTable, from_id, to_id) = OFF_TABLE
    BY <1>4, RPSRowsFound
  <2>2. FsmOffTable
    BY <2>1 DEF FsmStep, RPSHandlers, OFF_TABLE
  <2> QED BY <1>4, <2>2 DEF FsmOffTable
<1> QED BY <1>0, <1>1, <1>2, <1>3, <1>4 DEF AtDispatch

\* Every step of the specification keeps the invariant.
LEMMA NextIInv == IInv /\ [Next]_vars => IInv'
<1> SUFFICES ASSUME IInv, [Next]_vars PROVE IInv'
  OBVIOUS
<1>0. TypeOK /\ AtDispatch /\ OnlyIllegalPlaysCrash /\ Announces(env, out) /\ env \in RPSEnvs
  BY DEF IInv, TypeOK
<1>1. ASSUME NEW fd \in Fds, NEW play \in Plays, Play(fd, play) PROVE IInv'
  <2>1. play \in -128..127
    BY PlaysAssumption
  <2>2. /\ env' = [env EXCEPT !.fd_current_client = fd, !.move_received = play]
        /\ from_id' = FSM_INIT /\ to_id' = RPS_VALIDATE /\ pc' = "run" /\ out' = << >>
    BY <1>1 DEF Play
  <2>3. env' \in RPSEnvs
    BY <1>0, <2>1, <2>2 DEF RPSEnvs
  <2>4. TypeOK'
    BY <2>2, <2>3 DEF TypeOK, UndefinedReturn
  <2>5. Announces(env', out')
    BY <2>2, SilenceAnnounces
  <2> QED BY <2>2, <2>4, <2>5 DEF IInv, AtDispatch, OnlyIllegalPlaysCrash
<1>2. ASSUME FsmStep \/ FsmOffTable PROVE IInv'
  <2>1. ASSUME NEW done \in ValidateRPSInput(env),
               env' = done.env, out' = done.out,
               from_id' = RPS_VALIDATE, to_id' = done.ret,
               pc' = IF done.ret = FSM_EXIT THEN "select" ELSE "run"
        PROVE  IInv'
    <3>1. /\ done.env \in RPSEnvs
          /\ done.out \in Seq(Messages)
          /\ done.ret \in UndefinedReturn
          /\ IsValidPlay(env) => done.ret \in {RPS_WAIT, RPS_TURNOVER, RPS_GAMEOVER}
          /\ SamePlayers(env, done.env)
          /\ Announces(done.env, done.out)
      BY <1>0, ValidateResult
    <3>2. TypeOK'
      BY <2>1, <3>1 DEF TypeOK, UndefinedReturn
    <3>3. IsValidPlay(env') <=> IsValidPlay(env)
      BY <2>1, <3>1 DEF IsValidPlay, SamePlayers
    <3>4. AtDispatch'
      BY <2>1, <3>1, <3>3 DEF AtDispatch, StrayIds
    <3>5. OnlyIllegalPlaysCrash'
      BY <2>1 DEF OnlyIllegalPlaysCrash
    <3> QED BY <2>1, <3>1, <3>2, <3>4, <3>5 DEF IInv
  <2>2. ASSUME env' = env, out' = out \o SendAcceptPlay(env), from_id' = RPS_TURNOVER,
               to_id' = FSM_EXIT, pc' = "select"
        PROVE  IInv'
    <3>1. out' \in Seq(Messages) /\ Announces(env', out')
      BY <1>0, <2>2, AcceptanceAnnounces DEF TypeOK
    <3>2. TypeOK'
      BY <1>0, <2>2, <3>1 DEF TypeOK, UndefinedReturn
    <3> QED BY <2>2, <3>1, <3>2 DEF IInv, AtDispatch, OnlyIllegalPlaysCrash
  <2>3. ASSUME env' = env, out' = out, from_id' = RPS_GAMEOVER, to_id' = FSM_EXIT, pc' = "select"
        PROVE  IInv'
    BY <1>0, <2>3 DEF IInv, TypeOK, UndefinedReturn, AtDispatch, OnlyIllegalPlaysCrash
  <2>4. ASSUME UNCHANGED << env, from_id, to_id, out >>, ~IsValidPlay(env), pc' \in OffTableOutcomes
        PROVE  IInv'
    BY <1>0, <2>4 DEF IInv, TypeOK, OffTableOutcomes, AtDispatch, OnlyIllegalPlaysCrash
  <2> QED BY <1>2, <2>1, <2>2, <2>3, <2>4, EngineStep
<1>3. CASE UNCHANGED vars
  BY <1>0, <1>3 DEF vars, IInv, TypeOK, AtDispatch, OnlyIllegalPlaysCrash
<1> QED BY <1>1, <1>2, <1>3 DEF Next

\* The invariant holds throughout.
THEOREM Invariance == Spec => []IInv
<1> QED BY InitIInv, NextIInv, PTL DEF Spec

-----------------------------------------------------------------------------
(* What follows from it.                                                   *)

\* Every variable keeps its type; the plays recorded are legal ones.
THEOREM TypeCorrect == Spec => []TypeOK
<1>1. IInv => TypeOK
  BY DEF IInv
<1> QED BY <1>1, Invariance, PTL

\* No rock, paper or scissors, whoever sends it and whenever, ends the process.
THEOREM LegalPlaysAreSafe == Spec => []OnlyIllegalPlaysCrash
<1>1. IInv => OnlyIllegalPlaysCrash
  BY DEF IInv
<1> QED BY <1>1, Invariance, PTL

\* The result announced, if any, is the one the rules give for the two plays, and it
\* is announced to the two players alone.
THEOREM ResultsAreRight == Spec => []ResultsFollowTheRules
<1>1. IInv => ResultsFollowTheRules
  BY DEF IInv, Announces, ToldBy, ResultsFollowTheRules, Told
<1> QED BY <1>1, Invariance, PTL

\* A play once made is never changed, and only its player makes it.
THEOREM PlaysFinal == Spec => PlaysAreFinal
<1>1. IInv /\ [Next]_vars => [PlaysKept(env, env')]_vars
  <2> SUFFICES ASSUME IInv, Next PROVE PlaysKept(env, env')
    OBVIOUS
  <2>0. env \in RPSEnvs
    BY DEF IInv, TypeOK
  <2>1. ASSUME NEW fd \in Fds, NEW play \in Plays, Play(fd, play) PROVE PlaysKept(env, env')
    BY <2>0, <2>1 DEF Play, PlaysKept, RPSEnvs
  <2>2. ASSUME FsmStep \/ FsmOffTable PROVE PlaysKept(env, env')
    <3>1. \/ env' = env
          \/ \E done \in ValidateRPSInput(env) : env' = done.env
      BY <2>2, EngineStep
    <3>2. PlaysKept(env, env)
      BY DEF PlaysKept
    <3> QED BY <2>0, <3>1, <3>2, ValidateResult
  <2> QED BY <2>1, <2>2 DEF Next
<1> QED BY <1>1, Invariance, PTL DEF Spec, PlaysAreFinal, PlaysKept

\* The play that completes the game announces a result to both players at once.
THEOREM CompletionAnnounces == Spec => SecondPlayAnnounces
<1> DEFINE Announced == pc = "run" /\ ~BothPlayed /\ BothPlayed' =>
                          Told("WIN")' \cup Told("LOSS")' \cup Told("TIE")'
                            = {env.fd_client_player_one, env.fd_client_player_two}
<1>1. IInv /\ [Next]_vars => [Announced]_vars
  <2> SUFFICES ASSUME IInv, Next, pc = "run", ~BothPlayed, BothPlayed' PROVE Announced
    OBVIOUS
  <2>0. env \in RPSEnvs
    BY DEF IInv, TypeOK
  <2>1. FsmStep \/ FsmOffTable
    BY DEF Next, Play
  <2>2. env' # env
    BY DEF BothPlayed
  <2>3. PICK done \in ValidateRPSInput(env) : env' = done.env /\ out' = done.out
    BY <2>1, <2>2, EngineStep
  <2>4. ~HaveBothPlayed(env) /\ HaveBothPlayed(done.env)
    BY <2>3 DEF BothPlayed, HaveBothPlayed
  <2>5. AllTold(out') = {env.fd_client_player_one, env.fd_client_player_two}
    BY <2>0, <2>3, <2>4, ValidateResult
  <2> QED BY <2>5 DEF AllTold, ToldBy, Told
<1> QED BY <1>1, Invariance, PTL DEF Spec, SecondPlayAnnounces

\* Handler by handler, the engine reaches an outcome that Mainzees states at one
\* stroke: GameServer, whose turns are Mainzees, loses none of the engine's.
THEOREM EngineIsMainzees == Spec => EngineComputesMainzees
<1> DEFINE Computed == pc = "run" => Outcomes' # {} /\ Outcomes' \subseteq Outcomes
<1>1. IInv /\ [Next]_vars => [Computed]_vars
  <2> SUFFICES ASSUME IInv, Next, pc = "run" PROVE Outcomes' # {} /\ Outcomes' \subseteq Outcomes
    OBVIOUS
  <2>0. env \in RPSEnvs /\ out \in Seq(Messages)
    BY DEF IInv, TypeOK
  <2>1. FsmStep \/ FsmOffTable
    BY DEF Next, Play
  <2>2. ASSUME from_id = FSM_INIT, NEW done \in ValidateRPSInput(env),
               env' = done.env, out' = done.out,
               from_id' = RPS_VALIDATE, to_id' = done.ret,
               pc' = IF done.ret = FSM_EXIT THEN "select" ELSE "run"
        PROVE  Outcomes' # {} /\ Outcomes' \subseteq Outcomes
    <3> DEFINE Ends(first) ==
                 LET handler == FsmTransition(RPSTable, RPS_VALIDATE, first.ret)
                 IN  IF first.ret = FSM_EXIT THEN {Outcome(first.env, first.out, "select")}
                     ELSE IF handler \in RPSHandlers
                       THEN {Outcome(then.env, first.out \o then.out, "select") :
                               then \in RPSPerform(handler, first.env)}
                     ELSE {Outcome(first.env, first.out, ending) : ending \in OffTableOutcomes}
    <3>1. Mainzees(env) = UNION {Ends(first) : first \in ValidateRPSInput(env)}
      BY DEF Mainzees
    <3>2. Outcomes = Mainzees(env)
      BY <2>2 DEF Outcomes
    <3>3. Outcomes' = Ends(done)
      BY <2>2 DEF Outcomes
    <3>4. done.ret \in {RPS_WAIT, RPS_TURNOVER, RPS_GAMEOVER} \cup StrayIds
      BY <2>0, ValidateResult DEF StrayIds
    <3>5. Ends(done) # {}
      <4>1. CASE done.ret = RPS_WAIT
        BY <4>1
      <4>2. CASE done.ret = RPS_TURNOVER
        BY <4>2, RPSRowsFound DEF RPSHandlers, RPSPerform, AcceptedRPSMove
      <4>3. CASE done.ret = RPS_GAMEOVER
        BY <4>3, RPSRowsFound DEF RPSHandlers, RPSPerform, GameRPSOver
      <4>4. CASE done.ret \in StrayIds
        BY <4>4, RPSRowsFound DEF RPSHandlers, OFF_TABLE, StrayIds, OffTableOutcomes
      <4> QED BY <3>4, <4>1, <4>2, <4>3, <4>4
    <3> HIDE DEF Ends
    <3> QED BY <3>1, <3>2, <3>3, <3>5
  <2>3. ASSUME from_id = RPS_VALIDATE, NEW handler \in RPSHandlers, NEW done,
               FsmTransition(RPSTable, from_id, to_id) = handler,
               RPSPerform(handler, env) = {done},
               env' = done.env, out' = out \o done.out, pc' = "select"
        PROVE  Outcomes' # {} /\ Outcomes' \subseteq Outcomes
    <3>1. Outcomes = {Outcome(d.env, out \o d.out, "select") : d \in RPSPerform(handler, env)}
      BY <2>3 DEF Outcomes
    <3>2. Outcomes' = {Outcome(env', out', pc')}
      BY <2>3 DEF Outcomes
    <3> QED BY <2>3, <3>1, <3>2
  <2>4. ASSUME from_id = RPS_VALIDATE, to_id \in StrayIds, UNCHANGED << env, from_id, to_id, out >>,
               pc' \in OffTableOutcomes
        PROVE  Outcomes' # {} /\ Outcomes' \subseteq Outcomes
    <3>1. FsmTransition(RPSTable, from_id, to_id) \notin RPSHandlers
      BY <2>4, RPSRowsFound DEF RPSHandlers, OFF_TABLE
    <3>2. Outcomes = {Outcome(env, out, ending) : ending \in OffTableOutcomes}
      BY <2>4, <3>1 DEF Outcomes
    <3>3. Outcomes' = {Outcome(env', out', pc')}
      BY <2>4 DEF Outcomes, OffTableOutcomes
    <3> QED BY <2>4, <3>2, <3>3
  <2>5. CASE from_id = RPS_VALIDATE /\ to_id = RPS_TURNOVER
    <3>1. env' = env /\ out' = out \o SendAcceptPlay(env) /\ pc' = "select"
      BY <2>1, <2>5, EngineStep DEF StrayIds
    <3>2. RPSPerform("accepted_RPS_move", env) = {Result(env, SendAcceptPlay(env), FSM_EXIT)}
      BY DEF RPSPerform, AcceptedRPSMove
    <3>3. FsmTransition(RPSTable, from_id, to_id) = "accepted_RPS_move" /\ "accepted_RPS_move" \in RPSHandlers
      BY <2>5, RPSRowsFound DEF RPSHandlers
    <3> DEFINE done == Result(env, SendAcceptPlay(env), FSM_EXIT)
    <3>4. done.env = env /\ done.out = SendAcceptPlay(env)
      BY DEF Result
    <3> HIDE DEF done
    <3> QED BY <2>3, <2>5, <3>1, <3>2, <3>3, <3>4 DEF done
  <2>6. CASE from_id = RPS_VALIDATE /\ to_id = RPS_GAMEOVER
    <3>1. env' = env /\ out' = out \o << >> /\ pc' = "select"
      BY <2>1, <2>6, EngineStep DEF StrayIds
    <3>2. RPSPerform("game_RPS_over", env) = {Result(env, << >>, FSM_EXIT)}
      BY DEF RPSPerform, GameRPSOver
    <3>3. FsmTransition(RPSTable, from_id, to_id) = "game_RPS_over" /\ "game_RPS_over" \in RPSHandlers
      BY <2>6, RPSRowsFound DEF RPSHandlers
    <3> DEFINE done == Result(env, << >>, FSM_EXIT)
    <3>4. done.env = env /\ done.out = << >>
      BY DEF Result
    <3> HIDE DEF done
    <3> QED BY <2>3, <2>6, <3>1, <3>2, <3>3, <3>4 DEF done
  <2> QED BY <2>1, <2>2, <2>4, <2>5, <2>6, EngineStep
<1> QED BY <1>1, Invariance, PTL DEF Spec, EngineComputesMainzees
=============================================================================
