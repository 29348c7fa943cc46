-------------------------------- MODULE Game --------------------------------
(***************************************************************************)
(* A game from end to end: the pages of the players (net.js and            *)
(* ui_displayer.js, and of chinese_chess.js what they ask of the board),   *)
(* the center server, and the messages under way between them.  Here the   *)
(* contract that CenterSession asks of its callers is the pages' to keep.  *)
(*                                                                         *)
(* Each connection has a queue of messages each way; a page handles one    *)
(* message, or one click, at a time.  The front only passes on, and says   *)
(* Disconnected behind what a closed page has sent.  A position is the     *)
(* sequence of moves that led to it.  The login server answers at once,    *)
(* and the match server pairs whoever waits.                               *)
(*                                                                         *)
(* A dialog covers the page with a mask, so that nothing else can be       *)
(* clicked.  clear() fades both away for 600 ms; here they are gone at     *)
(* once, that is, nobody presses a button of a dialog that fades.          *)
(*                                                                         *)
(* CancelMatchUnsaid, AgreeToTakeBackAlways, MoveAnytime and the like are  *)
(* variants with a plausible mistake that no action uses.                  *)
(***************************************************************************)
EXTENDS CenterServer, FiniteSets, SequencesExt

CONSTANTS
  Moves,        \* what a player may play; "mate" ends the game
  MaxPlies,     \* bound on the moves of a game
  MaxUnderWay,  \* bound on the messages under way when a page sends one
  MaxReturns,   \* bound on the pages that are loaded anew
  Buttons       \* bound on the buttons beside the board that are used

ASSUME GameAssumption ==
  /\ MaxPlies \in Nat
  /\ MaxUnderWay \in Nat \ {0}
  /\ MaxReturns \in Nat
  /\ Buttons \subseteq {"selfForgive", "selfDraw", "giveup"}
  /\ Fens = UNION {[1..n -> Moves] : n \in 0..MaxPlies}
  /\ Nil \notin [type : GameOverTypes, changescore : Int]

VARIABLES
  cid,      \* the connection id of each user's page
  dialog,   \* the dialog on it
  pos,      \* the position on its board, Nil before the first game
  undo,     \* how many of its moves the page can take back
  side,     \* config.side
  due,      \* the result that is shown when its timer runs out
  selfUser, \* config.selfUser, what the page knows of its user's record
  upq, downq,  \* messages under way from and to each connection
  record,   \* what the login server has on file for each user
  returns,  \* history: the pages loaded anew so far
  mishaps   \* history: what has gone wrong so far, of Mishaps

pageVars == <<cid, dialog, pos, undo, side, due, selfUser>>
allVars == <<centerVars, pageVars, upq, downq, record, returns, mishaps>>

Questions == {"oppForgive", "oppDraw", "selfForgive", "selfDraw", "giveup"}
Dialogs == {"none", "login", "match", "matching", "result"} \cup Questions

\* "torn": a page could not follow a take-back; "crossed": a request for a
\* match was granted while its page no longer waited for the answer (Outdated).
Mishaps == {"torn", "crossed"}

NewUser == [score |-> 1000, total |-> 0, nwin |-> 0, nloss |-> 0]

\* Everybody has logged in and looks at the dialog that offers a match.
GameInit ==
  /\ \E ids \in [Users -> ConnIds] :
       /\ \A u, w \in Users : ids[u] = ids[w] => u = w
       /\ cid = ids
       /\ entrys = [i \in ConnIds |->
                      IF \E u \in Users : ids[u] = i THEN CHOOSE u \in Users : ids[u] = i ELSE Nil]
       /\ userList = ids
       /\ connId = ids
  /\ state = [u \in Users |-> "kOnline"]
  /\ userInfo = [u \in Users |-> NewUser]
  /\ gameInfo = [u \in Users |-> Nil]
  /\ rooms = [u \in Users |-> Nil]
  /\ timers = [u \in Users |-> 0]
  /\ links = Links
  /\ up = TRUE
  /\ sent = <<>>
  /\ dialog = [u \in Users |-> "match"]
  /\ pos = [u \in Users |-> Nil]
  /\ undo = [u \in Users |-> 0]
  /\ side = [u \in Users |-> "kRed"]
  /\ due = [u \in Users |-> Nil]
  /\ selfUser = [u \in Users |-> NewUser]
  /\ upq = [i \in ConnIds |-> <<>>]
  /\ downq = [i \in ConnIds |-> <<>>]
  /\ record = [u \in Users |-> NewUser]
  /\ returns = 0
  /\ mishaps = {}

-----------------------------------------------------------------------------
(* The page.                                                               *)

TurnToPlay(u) == (side[u] = "kRed") <=> (Len(pos[u]) % 2 = 0)

\* There is a board, and no mask over the page.
Free(u) == up /\ pos[u] # Nil /\ dialog[u] = "none"

Say(u, type, data) ==
  upq' = [upq EXCEPT ![cid[u]] = Append(@, [type |-> type, data |-> data])]
UnderWay == FoldSet(LAMBDA i, n : n + Len(upq[i]) + Len(downq[i]), 0, ConnIds)
MaySay == UnderWay < MaxUnderWay

Show(u, d) == dialog' = [dialog EXCEPT ![u] = d]
Clear(u) == Show(u, "none")

boardVars == <<pos, undo>>
restOfPage == <<cid, side, due, selfUser>>
restOfWorld == <<downq, record, returns>>

\* The buttons of a dialog.
LogIn(u) ==
  /\ Say(u, "LoginRequest", [username |-> u])
  /\ UNCHANGED <<dialog, boardVars>>

ChooseMatch(u) ==
  /\ selfUser[u].total < 1       \* bound: one game
  /\ \E type \in RoomTypes : Say(u, "MatchRequest", [type |-> type])
  /\ Show(u, "matching")
  /\ UNCHANGED boardVars

CancelMatchUnsaid(u) == Show(u, "match") /\ UNCHANGED <<upq, boardVars>>
CancelMatching(u) ==
  /\ Say(u, "CancelMatchRequest", NoBody)
  /\ Show(u, "match")
  /\ UNCHANGED boardVars

Again(u) == Show(u, "match") /\ UNCHANGED <<upq, boardVars>>

Confirm(u, type) == Say(u, type, NoBody) /\ Clear(u) /\ UNCHANGED boardVars
Decline(u) == Clear(u) /\ UNCHANGED <<upq, boardVars>>
Answer(u, type, agree) ==
  Say(u, type, [agree |-> agree, fen |-> <<>>]) /\ Clear(u) /\ UNCHANGED boardVars

TakeBack(u) ==
  /\ pos' = [pos EXCEPT ![u] = Front(@)]
  /\ undo' = [undo EXCEPT ![u] = @ - 1]

\* Without a move to take back backStep throws, nothing is sent and the
\* dialog stays.
AgreeToTakeBackAlways(u) ==
  IF undo[u] > 0
    THEN /\ TakeBack(u)
         /\ Say(u, "ForgiveResponse", [agree |-> TRUE, fen |-> Front(pos[u])])
         /\ Clear(u)
    ELSE Answer(u, "ForgiveResponse", TRUE)
AgreeToTakeBack(u) ==
  IF undo[u] > 0
    THEN /\ TakeBack(u)
         /\ Say(u, "ForgiveResponse", [agree |-> TRUE, fen |-> Front(pos[u])])
         /\ Clear(u)
    ELSE UNCHANGED <<dialog, upq, boardVars>>

Press(u, d) ==
  \/ d = "login" /\ LogIn(u)
  \/ d = "match" /\ ChooseMatch(u)
  \/ d = "matching" /\ CancelMatching(u)
  \/ d = "result" /\ Again(u)
  \/ d = "selfForgive" /\ Confirm(u, "ForgiveRequest")
  \/ d = "selfDraw" /\ Confirm(u, "DrawRequest")
  \/ d = "giveup" /\ Confirm(u, "Giveup")
  \/ d \in {"selfForgive", "selfDraw", "giveup"} /\ Decline(u)
  \/ d = "oppForgive" /\ AgreeToTakeBack(u)
  \/ d = "oppForgive" /\ Answer(u, "ForgiveResponse", FALSE)
  \/ d = "oppDraw" /\ \E agree \in BOOLEAN : Answer(u, "DrawResponse", agree)

Click(u) ==
  /\ up
  /\ dialog[u] # "none"
  /\ MaySay
  /\ Press(u, dialog[u])
  /\ UNCHANGED <<centerVars, restOfPage, restOfWorld, mishaps>>

\* The buttons beside the board: to ask for a move back, a draw, to give up.
Ask(u) ==
  /\ Free(u)
  /\ \E b \in Buttons :
       /\ b = "selfForgive" => ~TurnToPlay(u)
       /\ b # "selfForgive" => UnderWay = 0      \* bound
       /\ Show(u, b)
  /\ UNCHANGED <<centerVars, boardVars, restOfPage, upq, restOfWorld, mishaps>>

\* play(mv), of a move the rules allow.
Play(u, fen) ==
  /\ pos' = [pos EXCEPT ![u] = fen]
  /\ undo' = [undo EXCEPT ![u] = @ + 1]

Mated(fen) == fen # <<>> /\ Last(fen) = "mate"
MoveStepOf(fen) == [over |-> Mated(fen), fen |-> fen]

MoveAnytime(u, m) ==
  LET fen == Append(pos[u], m)
  IN  /\ Free(u)
      /\ MaySay
      /\ ~Mated(pos[u]) /\ Len(fen) <= MaxPlies
      /\ Mated(fen) => pos[u] # <<>>     \* nobody is mated by the first move
      /\ Play(u, fen)
      /\ Say(u, "MoveStep", MoveStepOf(fen))
      /\ UNCHANGED <<centerVars, dialog, restOfPage, restOfWorld, mishaps>>
PlayMove(u, m) ==
  LET fen == Append(pos[u], m)
  IN  /\ Free(u) /\ TurnToPlay(u)
      /\ MaySay
      /\ ~Mated(pos[u]) /\ Len(fen) <= MaxPlies
      /\ Mated(fen) => pos[u] # <<>>     \* nobody is mated by the first move
      /\ Play(u, fen)
      /\ Say(u, "MoveStep", MoveStepOf(fen))
      /\ UNCHANGED <<centerVars, dialog, restOfPage, restOfWorld, mishaps>>

-----------------------------------------------------------------------------
(* What the page does with a message (reponseMessage).                     *)

Pop(u) == downq' = [downq EXCEPT ![cid[u]] = Tail(@)]
keepPage == <<cid, upq, mishaps>>

LoginSuccess(u, msg) ==
  /\ selfUser' = [selfUser EXCEPT ![u] = msg.data.info]
  /\ Show(u, "match")
  /\ UNCHANGED <<keepPage, boardVars, side, due>>

NewBoard(u, fen, red) ==
  /\ Clear(u)
  /\ pos' = [pos EXCEPT ![u] = fen]
  /\ undo' = [undo EXCEPT ![u] = 0]
  /\ side' = [side EXCEPT ![u] = IF red THEN "kRed" ELSE "kBlack"]

MatchStarts(u, msg) ==
  /\ NewBoard(u, <<>>, msg.data.selftype = "RED")
  /\ UNCHANGED <<keepPage, due, selfUser>>

\* An empty fen is the opening position.
SituationFromScratch(u, msg) ==
  /\ NewBoard(u, <<>>, msg.data.red)
  /\ selfUser' = [selfUser EXCEPT ![u] = msg.self]
  /\ UNCHANGED <<keepPage, due>>
Situation(u, msg) ==
  /\ NewBoard(u, If(msg.data.fen # Nil, msg.data.fen), msg.data.red)
  /\ selfUser' = [selfUser EXCEPT ![u] = msg.self]
  /\ UNCHANGED <<keepPage, due>>

\* On the same board the move is legal.  On another it may or may not be,
\* and a page that thinks the move is its own sends it back.
OppMove(u, msg) ==
  LET fen == msg.data.fen
      played == Append(pos[u], Last(fen))
      same == played = fen
  IN  /\ \/ /\ same \/ Len(played) <= MaxPlies
            /\ Play(u, played)
            /\ IF TurnToPlay(u) THEN Say(u, "MoveStep", MoveStepOf(played)) ELSE UNCHANGED upq
         \/ ~same /\ UNCHANGED <<boardVars, upq>>
      /\ UNCHANGED <<cid, mishaps, dialog, side, due, selfUser>>

\* The request may arrive when this page has just moved.
ForgiveAsked(u) ==
  /\ IF TurnToPlay(u)
       THEN Show(u, "oppForgive") /\ UNCHANGED upq
       ELSE /\ Say(u, "ForgiveResponse", [agree |-> FALSE, fen |-> <<>>])
            /\ UNCHANGED <<dialog>>
  /\ UNCHANGED <<cid, mishaps, boardVars, side, due, selfUser>>

ForgiveAnswered(u, msg) ==
  /\ IF ~msg.data.agree THEN UNCHANGED <<boardVars, mishaps>>
     ELSE IF undo[u] > 0 THEN TakeBack(u) /\ UNCHANGED mishaps
     ELSE mishaps' = mishaps \cup {"torn"} /\ UNCHANGED boardVars
  /\ UNCHANGED <<cid, upq, dialog, side, due, selfUser>>

DrawAsked(u) ==
  /\ Show(u, "oppDraw")
  /\ UNCHANGED <<keepPage, boardVars, side, due, selfUser>>

Over(u, msg) ==
  /\ due' = [due EXCEPT ![u] = msg.data]
  /\ UNCHANGED <<keepPage, dialog, boardVars, side, selfUser>>

\* The messages that only put up a label for a while.
Labels == {"LoginFailedResponse", "DrawResponse", "OppDisconnected", "OppReconnected"}

Receive(u) ==
  /\ up
  /\ downq[cid[u]] # <<>>
  /\ Pop(u)
  /\ LET msg == Head(downq[cid[u]])
     IN  \/ msg.type = "LoginSuccessResponse" /\ LoginSuccess(u, msg)
         \/ msg.type = "MatchResponse" /\ MatchStarts(u, msg)
         \/ msg.type = "GameSituation" /\ Situation(u, msg)
         \/ msg.type = "MoveStep" /\ OppMove(u, msg)
         \/ msg.type = "ForgiveRequest" /\ ForgiveAsked(u)
         \/ msg.type = "ForgiveResponse" /\ ForgiveAnswered(u, msg)
         \/ msg.type = "DrawRequest" /\ DrawAsked(u)
         \/ msg.type = "GameOver" /\ Over(u, msg)
         \/ msg.type \in Labels /\ UNCHANGED <<pageVars, upq, mishaps>>
  /\ UNCHANGED <<centerVars, record, returns>>

\* updateUserInfo of ui_displayer.js.
CountedSigned(info, over, change) ==
  CASE over \in {"SELF_TIMEOUT", "SELF_GIVEUP", "LOSS"} -> UpdateUserInfo(info, -change, "LOSS")
    [] over = "DRAW" -> UpdateUserInfo(info, 0, "DRAW")
    [] OTHER -> UpdateUserInfo(info, change, "WIN")
Counted(info, over, change) ==
  LET abs == IF change < 0 THEN -change ELSE change
  IN  CASE over \in {"SELF_TIMEOUT", "SELF_GIVEUP", "LOSS"} -> UpdateUserInfo(info, -abs, "LOSS")
        [] over = "DRAW" -> UpdateUserInfo(info, 0, "DRAW")
        [] OTHER -> UpdateUserInfo(info, abs, "WIN")

\* A second after the game the result is counted and shown.
ShowResult(u) ==
  /\ up
  /\ due[u] # Nil
  /\ selfUser' = [selfUser EXCEPT ![u] = Counted(@, due[u].type, due[u].changescore)]
  /\ due' = [due EXCEPT ![u] = Nil]
  /\ Show(u, "result")
  /\ UNCHANGED <<centerVars, cid, boardVars, side, upq, restOfWorld, mishaps>>

-----------------------------------------------------------------------------
(* The center, and the two servers behind it.                              *)

\* The login server takes new records, the front passes on what there is a
\* page for.
Present(i) == \E u \in Users : cid[u] = i
OnTheWay(m) ==
  [type |-> m.type, data |-> m.data,
   self |-> IF m.type = "GameSituation" THEN userInfo[entrys'[m.id]] ELSE Nil]
InOrder(ks) ==
  CHOOSE f \in [1..Cardinality(ks) -> ks] :
    Range(f) = ks /\ \A m, n \in DOMAIN f : m < n => f[m] < f[n]
SentTo(i) ==
  LET order == InOrder({k \in DOMAIN sent' : sent'[k].to = "front" /\ sent'[k].id = i})
  IN  [n \in DOMAIN order |-> sent'[order[n]]]
PassOn ==
  /\ downq' = [i \in ConnIds |->
                 IF Present(i)
                   THEN downq[i] \o [k \in DOMAIN SentTo(i) |-> OnTheWay(SentTo(i)[k])]
                   ELSE downq[i]]
  /\ record' = [u \in Users |->
       LET told == {k \in DOMAIN sent' : /\ sent'[k].type = "UpdateUserInfo"
                                         /\ sent'[k].data.username = u}
       IN  IF told = {} THEN record[u] ELSE sent'[CHOOSE k \in told : TRUE].data.info]
  /\ UNCHANGED <<pageVars, returns>>

\* A login goes by way of the login server; onLoginRequest changes nothing.
Handle(i, type, data) ==
  \/ type = "LoginRequest" /\ OnLoginSuccessResponse(i, data.username, record[data.username])
  \/ type = "Disconnected" /\ OnDisconnected(i)
  \/ type = "MatchRequest" /\ OnMatchRequest(i, data.type)
  \/ type = "CancelMatchRequest" /\ OnCancelMatchRequest(i)
  \/ type = "MoveStep" /\ OnMoveStep(i, data.fen, data.over)
  \/ type = "Giveup" /\ OnGiveup(i)
  \/ type = "ForgiveRequest" /\ OnForgiveRequest(i)
  \/ type = "ForgiveResponse" /\ OnForgiveResponse(i, data.agree, data.fen)
  \/ type = "DrawRequest" /\ OnDrawRequest(i)
  \/ type = "DrawResponse" /\ OnDrawResponse(i, data.agree)

\* Does the page at i no longer wait for an opponent, or not for long?  It has
\* been told of a game or is about to be, or has only cancelled: then the
\* cancellation comes right behind the request, and nothing is wrong yet.
Outdated(i) ==
  \/ \E u \in Users : cid[u] = i /\ dialog[u] # "matching"
  \/ \E k \in DOMAIN downq[i] : downq[i][k].type = "MatchResponse"

Deliver(i) ==
  /\ upq[i] # <<>>
  /\ Handle(i, Head(upq[i]).type, Head(upq[i]).data)
  /\ upq' = [upq EXCEPT ![i] = Tail(@)]
  /\ mishaps' = IF Head(upq[i]).type = "MatchRequest" /\ Outdated(i) /\ state' # state
                  THEN mishaps \cup {"crossed"} ELSE mishaps
  /\ PassOn

Pair(r, b) ==
  /\ r # b
  /\ state[r] = "kMatching" /\ state[b] = "kMatching"
  /\ \A u \in {r, b} : userInfo[u].total < 1
  /\ \E type \in RoomTypes : OnMatchBackendResponse(r, b, type)
  /\ UNCHANGED <<upq, mishaps>>
  /\ PassOn

ClockRunsOut(u) ==
  /\ OnTimeOut(u)
  /\ UNCHANGED <<upq, mishaps>>
  /\ PassOn

\* The page is loaded anew; what was under way to the old one is lost.
Refresh(u) ==
  /\ up
  /\ returns < MaxReturns
  /\ returns' = returns + 1
  /\ MaySay
  /\ \E i \in ConnIds :
       /\ ~Present(i) /\ entrys[i] = Nil /\ upq[i] = <<>>
       /\ cid' = [cid EXCEPT ![u] = i]
  /\ Say(u, "Disconnected", NoBody)
  /\ downq' = [downq EXCEPT ![cid[u]] = <<>>]
  /\ Show(u, "login")
  /\ pos' = [pos EXCEPT ![u] = Nil]
  /\ undo' = [undo EXCEPT ![u] = 0]
  /\ side' = [side EXCEPT ![u] = "kRed"]
  /\ due' = [due EXCEPT ![u] = Nil]
  /\ selfUser' = [selfUser EXCEPT ![u] = Nil]
  /\ UNCHANGED <<centerVars, record, mishaps>>

GameNext ==
  \/ \E u \in Users : Click(u) \/ Ask(u)
  \/ \E u \in Users, m \in Moves : PlayMove(u, m)
  \/ \E u \in Users : Receive(u) \/ ShowResult(u)
  \/ \E i \in ConnIds : Deliver(i)
  \/ \E r, b \in Users : Pair(r, b)
  \/ \E u \in Users : ClockRunsOut(u)
  \/ \E u \in Users : Refresh(u)

GameSpec == GameInit /\ [][GameNext]_allVars

-----------------------------------------------------------------------------
(* Properties.  A late answer may have brought the server down (see        *)
(* CenterSession), so all of them are about the time before.               *)

\* Nothing is under way to or from u's page.
Quiet(u) == up /\ upq[cid[u]] = <<>> /\ downq[cid[u]] = <<>>
InGame(u) == state[u] = "kPlaying" /\ entrys[cid[u]] = u

Undisturbed == "torn" \notin mishaps

\* When nothing is under way, both boards of a game show the position the
\* center keeps for those who come back, the number of moves is the one its
\* clocks go by, and exactly one of the two players may move: whatever moves,
\* take-backs, refusals, closed and reopened pages there were (play, backStep,
\* responseGameSituation; onMoveStep, onForgiveResponse, onReconnected).
BoardsAgree ==
  \A u \in Users :
    Undisturbed /\ InGame(u) /\ Quiet(u) /\ (InGame(gameInfo[u].opp) => Quiet(gameInfo[u].opp))
      => /\ pos[u] = If(RoomOf(u).fen # Nil, RoomOf(u).fen)
         /\ Len(pos[u]) = RoomOf(u).totalSteps
         /\ side[u] = gameInfo[u].type
         /\ TurnToPlay(u) <=> IsTurnToPlay(u)

\* A move that was played on a page counts: while its game goes on the
\* center never ignores it as out of turn (onMoveStep), whatever crosses it.
MoveIsHeard ==
  [][\A i \in ConnIds :
       /\ upq[i] # <<>> /\ Head(upq[i]).type = "MoveStep" /\ Deliver(i)
       /\ Undisturbed
       /\ entrys[i] # Nil /\ IsInRoom(entrys[i])
       => up' /\ rooms' # rooms]_allVars

\* What the page says of its own user's record, by its own arithmetic, is
\* what the center has (updateUserInfo of ui_displayer.js and of
\* center_server.cc), and that is what the login server keeps.
OwnRecordIsRight ==
  \A u \in Users :
    Quiet(u) /\ entrys[cid[u]] = u /\ due[u] = Nil
      => selfUser[u] = userInfo[u] /\ userInfo[u] = record[u]

\* The dialog says what the center thinks: nobody looks for an opponent on
\* the page only or on the server only, nobody is in a game and sees
\* something else, nobody can log in who is in the hall.
DialogFitsState ==
  \A u \in Users :
    Quiet(u) /\ "crossed" \notin mishaps
      => /\ dialog[u] = "matching" <=> entrys[cid[u]] = u /\ state[u] = "kMatching"
         /\ dialog[u] = "match" => entrys[cid[u]] = u /\ state[u] = "kOnline"
         /\ dialog[u] = "login" <=> entrys[cid[u]] = Nil
         /\ InGame(u) => pos[u] # Nil /\ due[u] = Nil /\ dialog[u] # "result"

\* The pages keep what CenterSession asks of them: who agrees to a take-back
\* is on the move, in a game with a move to take back, and who asks for a
\* match has an Entry (ContractTakeBack and LoggedIn there).  A page that is
\* asked before the first move depends on backStep throwing.
KeepsContract ==
  [][\A i \in ConnIds :
       upq[i] # <<>> /\ Deliver(i)
       => LET msg == Head(upq[i])
              u == entrys[i]
          IN  /\ msg.type = "MatchRequest" => u # Nil
              /\ msg.type = "ForgiveResponse" /\ msg.data.agree /\ IsInRoom(u)
                   => RoomOf(u).totalSteps > 0 /\ IsTurnToPlay(u)]_allVars
=============================================================================
