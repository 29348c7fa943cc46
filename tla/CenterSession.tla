---------------------------- MODULE CenterSession ----------------------------
(***************************************************************************)
(* The center server among its callers: the browsers behind the front, the *)
(* login server and the match server, each reduced to what the center can  *)
(* tell of it.  A message is handled in the step that delivers it; what a  *)
(* delay on the way can change is which messages a caller may still have   *)
(* under way, and that is what the variables of this module keep.          *)
(*                                                                         *)
(* The callers keep a contract.  The clauses are guards here, named        *)
(* Contract..., and README.md says for each of them what upholds it:       *)
(*   - the front does not give an id to a new connection while the center  *)
(*     still has business with the last one that had it;                   *)
(*   - a connection asks for one username at a time;                       *)
(*   - a client agrees to take a move back only where there is one to take *)
(*     back and it is itself to move.                                      *)
(***************************************************************************)
EXTENDS CenterServer, FiniteSets

CONSTANTS
  LoginInfos,  \* snapshots of a user the login server may hand out
  Flaky,       \* links that may go down
  MaxGames,    \* bound on the games of one login
  MaxSteps,    \* bound on totalSteps
  MaxAsking    \* bound on the connections with a login under way

ASSUME SessionAssumption ==
  /\ LoginInfos \subseteq Info
  /\ Flaky \subseteq Links
  /\ MaxGames \in Nat
  /\ MaxSteps \in Nat
  /\ MaxAsking \in Nat

VARIABLES
  client,       \* what the client on each connection id has been told
  login,        \* the usernames each connection id has a login under way for
  forgiveAsked, \* ids whose client has been asked to let a move be taken back
  drawAsked     \* ids whose client has been asked for a draw

sessionVars == <<client, login, forgiveAsked, drawAsked>>
vars == <<centerVars, sessionVars>>

\* "closed": no client; "open": not logged in; "hall": logged in, never in a
\* game; "game": has been told of a game, so that messages about a game may
\* still be on their way at any later time.
ClientStates == {"closed", "open", "hall", "game"}

SessionTypeOK ==
  /\ TypeOK
  /\ client \in [ConnIds -> ClientStates]
  /\ login \in [ConnIds -> SUBSET Users]
  /\ forgiveAsked \subseteq ConnIds
  /\ drawAsked \subseteq ConnIds

Init ==
  /\ CenterInit
  /\ client = [i \in ConnIds |-> "closed"]
  /\ login = [i \in ConnIds |-> {}]
  /\ forgiveAsked = {}
  /\ drawAsked = {}

-----------------------------------------------------------------------------
(* What the clients learn from what the center has just sent.              *)

\* The clients that are sent a message of one of these types in this step.
Told(types) ==
  {i \in ConnIds : \E k \in DOMAIN sent' : /\ sent'[k].to = "front"
                                           /\ sent'[k].id = i
                                           /\ sent'[k].type \in types}

\* A new game clears every dialog that was open.
NewGame == Told({"MatchResponse", "GameSituation"})

Learn ==
  client' = [i \in ConnIds |->
    CASE client[i] = "closed" -> "closed"
      [] client[i] # "closed" /\ i \in NewGame -> "game"
      [] client[i] # "closed" /\ i \in Told({"LoginSuccessResponse"}) -> "hall"
      [] OTHER -> client[i]]

\* The answers i owes, after the messages of this step.
Asked(asked, type) == (asked \cup Told({type})) \ NewGame

Hear ==
  /\ Learn
  /\ forgiveAsked' = Asked(forgiveAsked, "ForgiveRequest")
  /\ drawAsked' = Asked(drawAsked, "DrawRequest")

-----------------------------------------------------------------------------
(* Connections and logins.                                                 *)

ContractFreshId(i) == entrys[i] = Nil /\ login[i] = {}

OpenConnection(i) ==
  /\ up
  /\ client[i] = "closed"
  /\ ContractFreshId(i)
  /\ client' = [client EXCEPT ![i] = "open"]
  /\ Ignore
  /\ UNCHANGED <<login, forgiveAsked, drawAsked>>

\* The front tells the center; whatever the client owed is dropped.
CloseConnection(i) ==
  /\ client[i] # "closed"
  /\ OnDisconnected(i)
  /\ client' = [client EXCEPT ![i] = "closed"]
  /\ forgiveAsked' = forgiveAsked \ {i}
  /\ drawAsked' = drawAsked \ {i}
  /\ UNCHANGED login

ContractOneName(i, u) == login[i] \subseteq {u}

FewAsking(i) == Cardinality({j \in ConnIds \ {i} : login[j] # {}}) < MaxAsking

AskLogin(i, u) ==
  /\ ContractOneName(i, u)
  /\ FewAsking(i)
  /\ client[i] = "open"
  /\ OnLoginRequest(i, u)
  /\ login' = [login EXCEPT ![i] = @ \cup {u}]
  /\ UNCHANGED <<client, forgiveAsked, drawAsked>>

\* An answer of the login server, whether or not the client is still there.
\* A button pressed more than once has more answers coming (more).
Answered(i, u, more) ==
  login' = IF more THEN login ELSE [login EXCEPT ![i] = @ \ {u}]

LoginSucceeds(i, u, info, more) ==
  /\ u \in login[i]
  /\ OnLoginSuccessResponse(i, u, info)
  /\ Answered(i, u, more)
  /\ Hear

LoginFails(i, u, more) ==
  /\ u \in login[i]
  /\ OnLoginFailedResponse(i)
  /\ Answered(i, u, more)
  /\ UNCHANGED <<client, forgiveAsked, drawAsked>>

LinkDown(l) ==
  /\ l \in links
  /\ OnDisconnection(l)
  /\ UNCHANGED sessionVars

LinkUp(l) ==
  /\ l \notin links
  /\ OnConnection(l)
  /\ UNCHANGED sessionVars

-----------------------------------------------------------------------------
(* Matching.                                                               *)

LoggedIn(i) == client[i] \in {"hall", "game"}

AskMatch(i, type) ==
  /\ LoggedIn(i)
  /\ OnMatchRequest(i, type)
  /\ UNCHANGED sessionVars

CancelMatch(i) ==
  /\ LoggedIn(i)
  /\ OnCancelMatchRequest(i)
  /\ UNCHANGED sessionVars

MoreGames(u) == userInfo[u] # Nil => userInfo[u].total < MaxGames

\* The match server may name any two users, however late its answer is.
MatchFound(r, b, type) ==
  /\ r # b
  /\ MoreGames(r) /\ MoreGames(b)
  /\ OnMatchBackendResponse(r, b, type)
  /\ Hear
  /\ UNCHANGED login

-----------------------------------------------------------------------------
(* Playing.                                                                *)

MoreSteps(i) == LET u == entrys[i]
                IN  gameInfo[u] # Nil => RoomOf(u).totalSteps < MaxSteps

Move(i, fen, over) ==
  /\ client[i] = "game"
  /\ MoreSteps(i)
  /\ OnMoveStep(i, fen, over)
  /\ Hear
  /\ UNCHANGED login

Giveup(i) ==
  /\ client[i] = "game"
  /\ OnGiveup(i)
  /\ Hear
  /\ UNCHANGED login

AskForgive(i) ==
  /\ client[i] = "game"
  /\ OnForgiveRequest(i)
  /\ Hear
  /\ UNCHANGED login

ContractTakeBack(i) ==
  LET u == entrys[i]
  IN  gameInfo[u] # Nil => RoomOf(u).totalSteps > 0 /\ IsTurnToPlay(u)

AnswerForgive(i, agree, fen) ==
  /\ i \in forgiveAsked
  /\ agree => ContractTakeBack(i)
  /\ OnForgiveResponse(i, agree, fen)
  /\ forgiveAsked' = forgiveAsked \ {i}
  /\ UNCHANGED <<client, login, drawAsked>>

AskDraw(i) ==
  /\ client[i] = "game"
  /\ OnDrawRequest(i)
  /\ Hear
  /\ UNCHANGED login

AnswerDraw(i, agree) ==
  /\ i \in drawAsked
  /\ OnDrawResponse(i, agree)
  /\ drawAsked' = drawAsked \ {i}
  /\ UNCHANGED <<client, login, forgiveAsked>>

TimeOut(u) ==
  /\ OnTimeOut(u)
  /\ UNCHANGED sessionVars

Next ==
  \/ \E i \in ConnIds : OpenConnection(i) \/ CloseConnection(i)
  \/ \E i \in ConnIds, u \in Users : AskLogin(i, u)
  \/ \E i \in ConnIds, u \in Users, info \in LoginInfos, more \in BOOLEAN :
       LoginSucceeds(i, u, info, more)
  \/ \E i \in ConnIds, u \in Users, more \in BOOLEAN : LoginFails(i, u, more)
  \/ \E l \in Flaky : LinkDown(l) \/ LinkUp(l)
  \/ \E i \in ConnIds, type \in RoomTypes : AskMatch(i, type)
  \/ \E i \in ConnIds : CancelMatch(i)
  \/ \E r, b \in Users, type \in RoomTypes : MatchFound(r, b, type)
  \/ \E i \in ConnIds, fen \in Fens, over \in BOOLEAN : Move(i, fen, over)
  \/ \E i \in ConnIds : Giveup(i) \/ AskForgive(i) \/ AskDraw(i)
  \/ \E i \in ConnIds, agree \in BOOLEAN, fen \in Fens : AnswerForgive(i, agree, fen)
  \/ \E i \in ConnIds, agree \in BOOLEAN : AnswerDraw(i, agree)
  \/ \E u \in Users : TimeOut(u)

Spec == Init /\ [][Next]_vars

\* An armed timer runs out sooner or later: the event loop runs every timer.
FairSpec == Spec /\ \A u \in Users : WF_vars(TimeOut(u))

-----------------------------------------------------------------------------
(* Properties.                                                             *)

\* What the callers rely on to address the right Entry: a connection that is
\* not logged in has none, one that is logged in has a connected one, and
\* the answers still under way to it are about that user.
CallersOK ==
  \A i \in ConnIds :
    /\ client[i] = "open" => entrys[i] = Nil
    /\ LoggedIn(i) => /\ entrys[i] # Nil
                      /\ state[entrys[i]] # "kDisconnecteInPlaying"
    /\ entrys[i] # Nil => login[i] \subseteq {entrys[i]}
    /\ \A u, w \in login[i] : u = w

\* The hall's two maps and the Entries agree: an Entry is reachable under
\* exactly the connection id and the username it carries, and every Entry
\* alive is in the hall (intoHall, outOfHall and their callers).
HallOK ==
  /\ \A i \in ConnIds : entrys[i] # Nil => connId[entrys[i]] = i
  /\ \A u \in Users : /\ userList[u] = connId[u]
                      /\ state[u] = "none" <=> connId[u] = Nil
                      /\ userInfo[u] = Nil <=> connId[u] = Nil
                      /\ connId[u] # Nil => entrys[connId[u]] = u

\* A game has two seats, each the opponent of the other, one of each colour,
\* in a room both share; a user has a seat exactly while its state says so,
\* so oppPlayer, a raw pointer, never dangles (createRoom, destroyRoom).
RoomOK ==
  \A u \in Users :
    /\ gameInfo[u] # Nil <=> IsInRoom(u)
    /\ gameInfo[u] # Nil =>
         LET o == gameInfo[u].opp
         IN  /\ o # u
             /\ gameInfo[o] # Nil
             /\ gameInfo[o].opp = u
             /\ gameInfo[o].room = gameInfo[u].room
             /\ gameInfo[o].type # gameInfo[u].type
             /\ gameInfo[u].room = IF gameInfo[u].type = "kRed" THEN u ELSE o
             /\ RoomOf(u) # Nil
    /\ rooms[u] # Nil => gameInfo[u] # Nil /\ gameInfo[u].room = u

\* The only clock that runs for a user is the one of a game in which it is
\* the user's move, and it is the one the room would cancel: no game is
\* without a clock, no timer outlives its game and none runs twice
\* (startNewGame, onMoveStep, onForgiveResponse, gameOver).
ClockOK ==
  \A u \in Users :
    LET onMove == gameInfo[u] # Nil /\ IsTurnToPlay(u)
    IN  /\ timers[u] = IF onMove THEN 1 ELSE 0
        /\ onMove => RoomOf(u).timer = u

\* A message about a game from a client whose game is over.
IsLate(i) == entrys[i] # Nil /\ ~IsInRoom(entrys[i])

\* Whatever is not a take-back or an answer about a game that is over.
OtherThanLateAnswer ==
  \/ \E i \in ConnIds : CloseConnection(i) \/ CancelMatch(i) \/ Giveup(i) \/ AskDraw(i)
  \/ \E i \in ConnIds, u \in Users : AskLogin(i, u)
  \/ \E i \in ConnIds, u \in Users, info \in LoginInfos, more \in BOOLEAN :
       LoginSucceeds(i, u, info, more)
  \/ \E i \in ConnIds, u \in Users, more \in BOOLEAN : LoginFails(i, u, more)
  \/ \E i \in ConnIds, type \in RoomTypes : AskMatch(i, type)
  \/ \E r, b \in Users, type \in RoomTypes : MatchFound(r, b, type)
  \/ \E i \in ConnIds, fen \in Fens, over \in BOOLEAN : Move(i, fen, over)
  \/ \E i \in ConnIds :
       /\ ~IsLate(i)
       /\ \/ AskForgive(i)
          \/ \E agree \in BOOLEAN, fen \in Fens : AnswerForgive(i, agree, fen)
          \/ \E agree \in BOOLEAN : AnswerDraw(i, agree)
  \/ \E u \in Users : TimeOut(u)

\* While the links are up nothing but a request or an answer that arrives
\* after the game is over brings the process down: every other handler finds
\* the Entry, the game and the opponent it looks up.
OnlyLateAnswersCrash == [][up /\ ~up' /\ links = Links => ~OtherThanLateAnswer]_vars

\* The comments in onMoveStep and onGiveup: the timer may have ended the game
\* before a message about it arrives.  Such a message is to be survived.
SurvivesLateMessages == up

\* The comment in onLoginSuccessResponse: a connection that is logged in and
\* asks again is ignored.
RepeatedLoginIgnored ==
  [][\A i \in ConnIds, u \in Users :
       LoggedIn(i) /\ (\E info \in LoginInfos, more \in BOOLEAN : LoginSucceeds(i, u, info, more))
       => UNCHANGED <<hallVars, gameVars>> /\ sent' = <<>>]_vars

\* A seat is not kept for ever: a player who is disconnected in a game is
\* back in it or out of it after a while, for whoever's move it is has a
\* clock running (onTimeOut, and every handler that arms a timer).
AbsenceEnds ==
  \A u \in Users :
    state[u] = "kDisconnecteInPlaying" ~> state[u] # "kDisconnecteInPlaying" \/ ~up

\* The seats as Lobby has them; a null pointer is none of them.
SeatOf ==
  [u \in Users |-> IF gameInfo[u] = Nil THEN Nil
                   ELSE [opp |-> gameInfo[u].opp, onMove |-> IsTurnToPlay(u)]]
L == INSTANCE Lobby WITH place <- state, seat <- SeatOf
ASSUME SeatAssumption == Nil \notin L!Seat

\* The center keeps the promise of Lobby: whatever logins, closed connections,
\* late answers and crashed links there are, a step is one of Lobby's or none.
\* Two seats are taken and given up in one step, only by two who both look
\* for an opponent, and the move passes only from the player who has it.
ImplementsLobby == L!Spec

\* What one report brings s, the other takes from o.
Settled(s, o) ==
  /\ s.data.username # o.data.username
  /\ LET su == s.data.username
         ou == o.data.username
     IN  /\ gameInfo[su] # Nil /\ gameInfo[su].opp = ou
         /\ gameInfo'[su] = Nil /\ gameInfo'[ou] = Nil
         /\ s.data.info.score - userInfo[su].score = userInfo[ou].score - o.data.info.score
         /\ s.data.info.total = userInfo[su].total + 1
         /\ o.data.info.total = userInfo[ou].total + 1
         /\ s.data.info.nwin - userInfo[su].nwin = o.data.info.nloss - userInfo[ou].nloss
         /\ s.data.info.nloss - userInfo[su].nloss = o.data.info.nwin - userInfo[ou].nwin

Reports == {k \in DOMAIN sent' : sent'[k].type = "UpdateUserInfo"}
Ended == {r \in Users : rooms[r] # Nil /\ rooms'[r] = Nil}

SettlesOnce ==
  IF Ended = {} THEN Reports = {}
  ELSE \E k \in DOMAIN sent' : /\ Reports = {k, k + 1}
                               /\ Settled(sent'[k], sent'[k + 1])

\* Every game is settled once: a step that ends a game tells the login
\* server about both players, once each, what one gains the other loses, and
\* both totals grow by one; no other step reports a result (gameOver).
SettledOnce == [][SettlesOnce]_vars
=============================================================================
