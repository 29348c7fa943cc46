---------------------------- MODULE CenterServer ----------------------------
(***************************************************************************)
(* The center server (center_server.cc): who is in the hall, who plays     *)
(* whom, whose clock runs.  One event loop runs every handler and every    *)
(* timer, so each handler is one atomic action.  This module has only the  *)
(* server: its state and one action per handler.  Who calls the handlers,  *)
(* and when, is the business of the modules that extend it.                *)
(*                                                                         *)
(* An Entry object is identified with its username, so the fields of       *)
(* struct Entry are functions on Users; a RoomInfo object is identified    *)
(* with its red player.  A null pointer is Nil.  Dereferencing Nil, a      *)
(* failed assert and a send on a link that is down all end the process:    *)
(* up becomes FALSE and nothing happens afterwards.                        *)
(*                                                                         *)
(* Some definitions come with a variant, written just before them, that    *)
(* has a plausible mistake: CancelTimerAlways, TwoClocks and so on.        *)
(* No action uses a variant; put in place of the real one, it breaks the   *)
(* property that PROJECT.json pairs it with.                               *)
(***************************************************************************)
EXTENDS Integers, Sequences

CONSTANTS
  Users,       \* usernames
  ConnIds,     \* connection ids the front hands out
  RoomTypes,   \* QUICKLY_PATTERN, SLOWLY_PATTERN
  Fens,        \* positions (fen and last move together) clients report
  Nil          \* null pointer, absent map entry

Info == [score : Int, total : Nat, nwin : Nat, nloss : Nat]
PlayerTypes == {"kRed", "kBlack"}
GameInfo == [type : PlayerTypes, opp : Users, room : Users]
RoomInfo == [type : RoomTypes, timer : Users, fen : Fens \cup {Nil},
             totalSteps : Int]
Links == {"front", "login", "match"}

OverTypes == {"WIN", "SELF_TIMEOUT", "SELF_GIVEUP", "DRAW"}
GameOverTypes == OverTypes \cup {"LOSS", "OPP_TIMEOUT", "OPP_GIVEUP"}

\* What the messages carry (cchess.proto), as far as it matters here.
NoBody == <<>>
Body ==
  {NoBody}
  \cup [username : Users]
  \cup [username : Users, info : Info]
  \cup [reason : {"MULTI_LOGIN", "VERTIFY_ERROR"}]
  \cup [username : Users, type : RoomTypes, score : Int]
  \cup [selftype : {"RED", "BLACK"}, type : RoomTypes, oppuser : Users]
  \cup [over : BOOLEAN, fen : Fens]
  \cup [agree : BOOLEAN]
  \cup [red : BOOLEAN, fen : Fens \cup {Nil}, roomtype : RoomTypes, turntome : BOOLEAN]
  \cup [type : GameOverTypes, changescore : Int]

MessageTypes ==
  {"LoginRequest", "UpdateUserInfo", "LoginSuccessResponse", "LoginFailedResponse",
   "MatchBackendRequest", "CancelMatchBackendRequest", "MatchResponse", "GameSituation",
   "MoveStep", "ForgiveRequest", "ForgiveResponse", "DrawRequest", "DrawResponse",
   "OppDisconnected", "OppReconnected", "GameOver"}
Message == [to : Links, id : ConnIds, type : MessageTypes, data : Body]

\* "none": the user has no Entry object.
States == {"none", "kOnline", "kMatching", "kPlaying", "kDisconnecteInPlaying"}

\* Nil is none of the things a pointer or a map entry may hold.
ASSUME NilAssumption ==
  /\ Nil \notin Users
  /\ Nil \notin ConnIds
  /\ Nil \notin Fens
  /\ Nil \notin Info
  /\ Nil \notin GameInfo
  /\ Nil \notin RoomInfo

VARIABLES
  entrys,     \* entrys_   : connection id -> Entry (its user)
  userList,   \* userList_ : username -> connection id
  connId,     \* Entry::connId_ and, kept equal to it, InGameInfo::connId
  state,      \* Entry::state_
  userInfo,   \* Entry::userInfo_
  gameInfo,   \* Entry::gameInfo_
  rooms,      \* the RoomInfo of each red player
  timers,     \* number of armed onTimeOut timers bound to each Entry
  links,      \* front, login and match connections that are up
  up,         \* the process has not crashed
  sent        \* messages the last handler sent, in order

hallVars == <<entrys, userList, connId, state, userInfo>>
gameVars == <<gameInfo, rooms, timers>>
centerVars == <<hallVars, gameVars, links, up, sent>>

TypeOK ==
  /\ entrys \in [ConnIds -> Users \cup {Nil}]
  /\ userList \in [Users -> ConnIds \cup {Nil}]
  /\ connId \in [Users -> ConnIds \cup {Nil}]
  /\ state \in [Users -> States]
  /\ userInfo \in [Users -> Info \cup {Nil}]
  /\ gameInfo \in [Users -> GameInfo \cup {Nil}]
  /\ rooms \in [Users -> RoomInfo \cup {Nil}]
  /\ timers \in [Users -> Nat]
  /\ links \subseteq Links
  /\ up \in BOOLEAN
  /\ sent \in Seq(Message)

CenterInit ==
  /\ entrys = [i \in ConnIds |-> Nil]
  /\ userList = [u \in Users |-> Nil]
  /\ connId = [u \in Users |-> Nil]
  /\ state = [u \in Users |-> "none"]
  /\ userInfo = [u \in Users |-> Nil]
  /\ gameInfo = [u \in Users |-> Nil]
  /\ rooms = [u \in Users |-> Nil]
  /\ timers = [u \in Users |-> 0]
  /\ links = Links
  /\ up = TRUE
  /\ sent = <<>>

-----------------------------------------------------------------------------
(* What every handler is made of.                                          *)

Msg(to, id, type, data) == [to |-> to, id |-> id, type |-> type, data |-> data]
If(cond, msgs) == IF cond THEN msgs ELSE <<>>

\* The handler returns without changing anything.
Ignore == sent' = <<>> /\ UNCHANGED <<hallVars, gameVars, links, up>>

\* The process dies inside the handler.
Crash == up' = FALSE /\ sent' = <<>> /\ UNCHANGED <<hallVars, gameVars, links>>

\* std::map insert (which keeps an existing value) and erase.
Insert(map, key, val) == IF map[key] = Nil THEN [map EXCEPT ![key] = val] ELSE map
Erase(map, key) == [map EXCEPT ![key] = Nil]

FindEntryByUsername(u) == IF userList[u] = Nil THEN Nil ELSE entrys[userList[u]]

\* entry->gameInfo_->oppPlayer can be followed: neither pointer is null or
\* dangling.
HasOpp(u) == gameInfo[u] # Nil /\ gameInfo[gameInfo[u].opp] # Nil

\* The opponent's Entry, looked up in entrys_ by the connection id the
\* opponent's InGameInfo holds.
FindOppEntry(u) == entrys[connId[gameInfo[u].opp]]
OppFound(u) == HasOpp(u) /\ FindOppEntry(u) # Nil
OppInGame(u) == OppFound(u) /\ gameInfo[FindOppEntry(u)] # Nil

IsOnPlaying(u) == state[u] = "kPlaying"
IsInRoom(u) == state[u] \in {"kPlaying", "kDisconnecteInPlaying"}

RoomOf(u) == rooms[gameInfo[u].room]
IsTurnToPlay(u) == (gameInfo[u].type = "kRed") <=> (RoomOf(u).totalSteps % 2 = 0)

CancelTimerAlways(ts, u) == [ts EXCEPT ![u] = @ - 1]
CancelTimer(ts, u) == [ts EXCEPT ![u] = IF @ > 0 THEN @ - 1 ELSE 0]
ArmTimer(ts, u) == [ts EXCEPT ![u] = @ + 1]

-----------------------------------------------------------------------------
(* gameOver: settle the ratings, tell the login server and the players that*)
(* are still connected, take the room apart.                               *)

GetChangeScore(over) ==
  CASE over \in {"SELF_TIMEOUT", "SELF_GIVEUP"} -> -10
    [] over = "DRAW" -> 0
    [] OTHER -> 10

\* updateUserInfo: win and loss are the only results that are counted apart.
UpdateUserInfo(info, change, result) ==
  [score |-> info.score + change,
   total |-> info.total + 1,
   nwin  |-> info.nwin + (IF result = "WIN" THEN 1 ELSE 0),
   nloss |-> info.nloss + (IF result = "LOSS" THEN 1 ELSE 0)]

SelfResult(over) ==
  CASE over \in {"SELF_TIMEOUT", "SELF_GIVEUP"} -> "LOSS" [] OTHER -> over
OppResult(over) ==
  CASE over = "DRAW" -> "DRAW" [] over = "WIN" -> "LOSS" [] OTHER -> "WIN"
OppOverType(over) ==
  CASE over = "SELF_TIMEOUT" -> "OPP_TIMEOUT"
    [] over = "SELF_GIVEUP" -> "OPP_GIVEUP"
    [] OTHER -> OppResult(over)

\* The new userInfo_ of both players.
SelfInfo(s, over) == UpdateUserInfo(userInfo[s], GetChangeScore(over), SelfResult(over))
OppInfoSameSign(o, over) == UpdateUserInfo(userInfo[o], GetChangeScore(over), OppResult(over))
OppInfo(o, over) == UpdateUserInfo(userInfo[o], -GetChangeScore(over), OppResult(over))

GameOverMsg(u, over, change) ==
  Msg("front", connId[u], "GameOver", [type |-> over, changescore |-> change])
UpdateUserInfoMsg(u, info) ==
  Msg("login", connId[u], "UpdateUserInfo", [username |-> u, info |-> info])

GameOverMsgs(s, o, over) ==
  <<UpdateUserInfoMsg(s, SelfInfo(s, over)), UpdateUserInfoMsg(o, OppInfo(o, over))>>
  \o If(IsOnPlaying(s), <<GameOverMsg(s, over, GetChangeScore(over))>>)
  \o If(IsOnPlaying(o), <<GameOverMsg(o, OppOverType(over), -GetChangeScore(over))>>)

\* destroyRoomInfoOfEntry for both: a player that is connected goes back to
\* the hall, a disconnected one leaves it and its Entry is freed.
BothLeave(s, o) == {s, o}
Leavers(s, o) == {p \in {s, o} : ~IsOnPlaying(p)}

DestroyRoom(s, o, infos) ==
  LET gone == Leavers(s, o)
  IN  /\ entrys' = [i \in ConnIds |->
                      IF \E p \in gone : connId[p] = i THEN Nil ELSE entrys[i]]
      /\ userList' = [u \in Users |-> IF u \in gone THEN Nil ELSE userList[u]]
      /\ connId' = [u \in Users |-> IF u \in gone THEN Nil ELSE connId[u]]
      /\ userInfo' = [u \in Users |-> IF u \in gone THEN Nil ELSE infos[u]]
      /\ state' = [u \in Users |-> CASE u \in gone -> "none"
                                     [] u \in {s, o} \ gone -> "kOnline"
                                     [] OTHER -> state[u]]
      /\ gameInfo' = [u \in Users |-> IF u \in {s, o} THEN Nil ELSE gameInfo[u]]
      /\ rooms' = Erase(rooms, gameInfo[s].room)

\* gameOver(selfEntry, oppEntry, type); before is what the handler has
\* already sent, ts the timers still armed.
GameOver(s, o, over, ts, before) ==
  /\ timers' = CancelTimer(ts, RoomOf(s).timer)
  /\ sent' = before \o GameOverMsgs(s, o, over)
  /\ DestroyRoom(s, o, [userInfo EXCEPT ![s] = SelfInfo(s, over),
                                        ![o] = OppInfo(o, over)])
  /\ UNCHANGED <<links, up>>

GameOverLinks(s, o) ==
  {"login"} \cup (IF IsOnPlaying(s) \/ IsOnPlaying(o) THEN {"front"} ELSE {})

\* Find the opponent, then gameOver.
EndGame(s, over, ts, before) ==
  IF OppInGame(s) /\ GameOverLinks(s, FindOppEntry(s)) \subseteq links
    THEN GameOver(s, FindOppEntry(s), over, ts, before)
    ELSE Crash

-----------------------------------------------------------------------------
(* Connections to the other three servers.                                 *)

\* onFrontConnection, onLoginServerConnection, onMatchServerConnection.
OnConnection(l) ==
  /\ up
  /\ links' = links \cup {l}
  /\ sent' = <<>>
  /\ UNCHANGED <<hallVars, gameVars, up>>

OnDisconnection(l) ==
  /\ up
  /\ links' = links \ {l}
  /\ sent' = <<>>
  /\ UNCHANGED <<hallVars, gameVars, up>>

-----------------------------------------------------------------------------
(* Into the hall and out of it.                                            *)

\* Forwarded to the login server as it is.
OnLoginRequest(i, u) ==
  /\ up
  /\ IF "login" \in links
       THEN /\ sent' = <<Msg("login", i, "LoginRequest", [username |-> u])>>
            /\ UNCHANGED <<hallVars, gameVars, links, up>>
       ELSE Crash

OnLoginFailedResponse(i) ==
  /\ up
  /\ IF "front" \in links
       THEN /\ sent' = <<Msg("front", i, "LoginFailedResponse", [reason |-> "VERTIFY_ERROR"])>>
            /\ UNCHANGED <<hallVars, gameVars, links, up>>
       ELSE Crash

\* intoHall(connId, userInfo): if the connection id is taken, map::insert
\* keeps the old Entry and the new one is freed at once.
IntoHall(i, u, info) ==
  /\ entrys' = Insert(entrys, i, u)
  /\ userList' = Insert(userList, u, i)
  /\ IF entrys[i] = Nil
       THEN /\ connId' = [connId EXCEPT ![u] = i]
            /\ state' = [state EXCEPT ![u] = "kOnline"]
            /\ userInfo' = [userInfo EXCEPT ![u] = info]
       ELSE UNCHANGED <<connId, state, userInfo>>

\* The picture of the game a player gets when it is back.
SituationMsg(u, i) ==
  Msg("front", i, "GameSituation",
      [red |-> gameInfo[u].type = "kRed", fen |-> RoomOf(u).fen,
       roomtype |-> RoomOf(u).type, turntome |-> IsTurnToPlay(u)])

\* onReconnected(newId, oldId); e is the Entry found at oldId.
OnReconnected(newId, oldId, e) ==
  LET movedEntrys == Insert(Erase(entrys, oldId), newId, e)
      opp == gameInfo[e].opp
      oppEntry == movedEntrys[connId[opp]]
      told == IsOnPlaying(oppEntry)
  IN  IF HasOpp(e) /\ oppEntry # Nil /\ "front" \in links
        THEN /\ entrys' = movedEntrys
             /\ userList' = Insert(Erase(userList, e), e, newId)
             /\ connId' = [connId EXCEPT ![e] = newId]
             /\ state' = [state EXCEPT ![e] = "kPlaying"]
             /\ sent' = If(told, <<Msg("front", connId[oppEntry], "OppReconnected", NoBody)>>)
                        \o <<SituationMsg(e, newId)>>
             /\ UNCHANGED <<userInfo, gameVars, links, up>>
        ELSE Crash

OnLoginSuccessResponse(i, u, info) ==
  LET oldId == userList[u]
  IN  /\ up
      /\ \/ /\ oldId = Nil
            /\ IF "front" \in links
                 THEN /\ IntoHall(i, u, info)
                      /\ sent' = <<Msg("front", i, "LoginSuccessResponse",
                                   [username |-> u, info |-> info])>>
                      /\ UNCHANGED <<gameVars, links, up>>
                 ELSE Crash
         \/ oldId = i /\ Ignore
         \/ /\ oldId \notin {Nil, i}
            /\ \/ entrys[oldId] = Nil /\ Crash                  \* assert(entry)
               \/ /\ entrys[oldId] # Nil
                  /\ state[entrys[oldId]] = "kDisconnecteInPlaying"
                  /\ OnReconnected(i, oldId, entrys[oldId])
               \/ /\ entrys[oldId] # Nil
                  /\ state[entrys[oldId]] # "kDisconnecteInPlaying"
                  /\ IF "front" \in links
                       THEN /\ sent' = <<Msg("front", i, "LoginFailedResponse",
                                         [reason |-> "MULTI_LOGIN"])>>
                            /\ UNCHANGED <<hallVars, gameVars, links, up>>
                       ELSE Crash

OutOfHallStillListed(e) ==
  /\ entrys' = Erase(entrys, connId[e])
  /\ connId' = Erase(connId, e)
  /\ userInfo' = Erase(userInfo, e)
  /\ state' = [state EXCEPT ![e] = "none"]
  /\ UNCHANGED userList

\* outOfHall and the end of the Entry's life.
OutOfHall(e) ==
  /\ entrys' = Erase(entrys, connId[e])
  /\ userList' = Erase(userList, e)
  /\ connId' = Erase(connId, e)
  /\ userInfo' = Erase(userInfo, e)
  /\ state' = [state EXCEPT ![e] = "none"]

CancelMatchMsg(e) == Msg("match", connId[e], "CancelMatchBackendRequest", [username |-> e])

OnDisconnected(i) ==
  LET e == entrys[i]
      o == FindOppEntry(e)
  IN  /\ up
      /\ \/ e = Nil /\ Ignore
         \/ /\ e # Nil /\ state[e] = "kMatching"
            /\ IF "match" \in links
                 THEN /\ OutOfHall(e)
                      /\ sent' = <<CancelMatchMsg(e)>>
                      /\ UNCHANGED <<gameVars, links, up>>
                 ELSE Crash
         \/ /\ e # Nil /\ IsOnPlaying(e)
            /\ IF OppFound(e) /\ (IsOnPlaying(o) => "front" \in links)
                 THEN /\ state' = [state EXCEPT ![e] = "kDisconnecteInPlaying"]
                      /\ sent' = If(IsOnPlaying(o) /\ o # e,
                                    <<Msg("front", connId[o], "OppDisconnected", NoBody)>>)
                      /\ UNCHANGED <<entrys, userList, connId, userInfo, gameVars, links, up>>
                 ELSE Crash
         \/ /\ e # Nil /\ state[e] \notin {"kMatching", "kPlaying"}
            /\ OutOfHall(e)
            /\ sent' = <<>>
            /\ UNCHANGED <<gameVars, links, up>>

-----------------------------------------------------------------------------
(* Matching.                                                               *)

OnMatchRequest(i, type) ==
  LET e == entrys[i]
  IN  /\ up
      /\ \/ e = Nil /\ Crash
         \/ e # Nil /\ state[e] # "kOnline" /\ Ignore
         \/ /\ e # Nil /\ state[e] = "kOnline"
            /\ IF "match" \in links
                 THEN /\ state' = [state EXCEPT ![e] = "kMatching"]
                      /\ sent' = <<Msg("match", i, "MatchBackendRequest",
                                       [username |-> e, type |-> type, score |-> userInfo[e].score])>>
                      /\ UNCHANGED <<entrys, userList, connId, userInfo, gameVars, links, up>>
                 ELSE Crash

OnCancelMatchRequest(i) ==
  LET e == entrys[i]
  IN  /\ up
      /\ IF e # Nil /\ state[e] = "kMatching"
           THEN IF "match" \in links
                  THEN /\ state' = [state EXCEPT ![e] = "kOnline"]
                       /\ sent' = <<CancelMatchMsg(e)>>
                       /\ UNCHANGED <<entrys, userList, connId, userInfo, gameVars, links, up>>
                  ELSE Crash
           ELSE Ignore

MatchResponseMsg(u, selftype, type, opp) ==
  Msg("front", connId[u], "MatchResponse",
      [selftype |-> selftype, type |-> type, oppuser |-> opp])

\* createRoom and startNewGame: red is on the move and its clock runs.
StartNewGame(r, b, type) ==
  /\ gameInfo' = [gameInfo EXCEPT ![r] = [type |-> "kRed", opp |-> b, room |-> r],
                                  ![b] = [type |-> "kBlack", opp |-> r, room |-> r]]
  /\ rooms' = [rooms EXCEPT ![r] = [type |-> type, timer |-> r, fen |-> Nil, totalSteps |-> 0]]
  /\ state' = [state EXCEPT ![r] = "kPlaying", ![b] = "kPlaying"]
  /\ timers' = ArmTimer(timers, r)
  /\ sent' = <<MatchResponseMsg(r, "RED", type, b), MatchResponseMsg(b, "BLACK", type, r)>>
  /\ UNCHANGED <<entrys, userList, connId, userInfo, links, up>>

OnMatchBackendResponseUnchecked(redName, blackName, type) ==
  LET r == FindEntryByUsername(redName)
      b == FindEntryByUsername(blackName)
  IN  up /\ IF r # Nil /\ b # Nil /\ "front" \in links THEN StartNewGame(r, b, type) ELSE Ignore

OnMatchBackendResponse(redName, blackName, type) ==
  LET r == FindEntryByUsername(redName)
      b == FindEntryByUsername(blackName)
  IN  /\ up
      /\ IF r # Nil /\ b # Nil /\ state[r] = "kMatching" /\ state[b] = "kMatching"
           THEN IF "front" \in links THEN StartNewGame(r, b, type) ELSE Crash
           ELSE Ignore

-----------------------------------------------------------------------------
(* Playing.                                                                *)

\* stepTimer: cancel the clock that runs, start the one of o.
TwoClocks(s, o) == ArmTimer(timers, o)
ClockOfThePresent(s, o) ==
  LET ts == CancelTimer(timers, RoomOf(s).timer)
  IN  IF IsOnPlaying(o) THEN ArmTimer(ts, o) ELSE ts
SwitchClocks(s, o) == ArmTimer(CancelTimer(timers, RoomOf(s).timer), o)

\* The move is done: stop the mover's clock, start the opponent's.
\* totalSteps moves by step; the timer now belongs to o.
PassTheMove(s, o, fen, step) ==
  /\ timers' = SwitchClocks(s, o)
  /\ rooms' = [rooms EXCEPT ![gameInfo[s].room].timer = o,
                            ![gameInfo[s].room].fen = fen,
                            ![gameInfo[s].room].totalSteps = @ + step]
  /\ UNCHANGED <<hallVars, gameInfo, links, up>>

OnMoveStep(i, fen, over) ==
  LET s == entrys[i]
      o == FindOppEntry(s)
      relay == If(IsOnPlaying(o),
                  <<Msg("front", connId[o], "MoveStep", [over |-> over, fen |-> fen])>>)
  IN  /\ up
      /\ \/ s = Nil /\ Crash
         \/ s # Nil /\ ~(IsOnPlaying(s) /\ IsTurnToPlay(s)) /\ Ignore
         \/ /\ s # Nil /\ IsOnPlaying(s) /\ IsTurnToPlay(s)
            /\ \/ ~OppFound(s) /\ Crash
               \/ OppFound(s) /\ over /\ EndGame(s, "WIN", timers, relay)
               \/ /\ OppFound(s) /\ ~over
                  /\ IF OppInGame(s) /\ (IsOnPlaying(o) => "front" \in links)
                       THEN PassTheMove(s, o, fen, 1) /\ sent' = relay
                       ELSE Crash

OnGiveupUnchecked(i) ==
  LET s == entrys[i]
  IN  up /\ IF s = Nil THEN Crash ELSE EndGame(s, "SELF_GIVEUP", timers, <<>>)

OnGiveup(i) ==
  LET s == entrys[i]
  IN  /\ up
      /\ \/ s = Nil /\ Crash
         \/ s # Nil /\ ~IsOnPlaying(s) /\ Ignore
         \/ s # Nil /\ IsOnPlaying(s) /\ EndGame(s, "SELF_GIVEUP", timers, <<>>)

\* A message for the opponent's client.
Relay(o, type, data) ==
  IF "front" \in links
    THEN /\ sent' = <<Msg("front", connId[o], type, data)>>
         /\ UNCHANGED <<hallVars, gameVars, links, up>>
    ELSE Crash

OnForgiveRequest(i) ==
  LET s == entrys[i]
      o == FindOppEntry(s)
  IN  /\ up
      /\ \/ (s = Nil \/ ~OppFound(s)) /\ Crash
         \/ /\ s # Nil /\ OppFound(s)
            /\ IF IsOnPlaying(o) /\ IsTurnToPlay(o) THEN Relay(o, "ForgiveRequest", NoBody)
                                                    ELSE Ignore

OnForgiveResponse(i, agree, fen) ==
  LET s == entrys[i]
      o == FindOppEntry(s)
  IN  /\ up
      /\ \/ (s = Nil \/ ~OppFound(s)) /\ Crash
         \/ /\ s # Nil /\ OppFound(s) /\ agree
            /\ IF OppInGame(s) /\ (IsOnPlaying(o) => "front" \in links)
                 THEN /\ PassTheMove(s, o, fen, -1)
                      /\ sent' = If(IsOnPlaying(o), <<Msg("front", connId[o], "ForgiveResponse",
                                                     [agree |-> TRUE])>>)
                 ELSE Crash
         \/ /\ s # Nil /\ OppFound(s) /\ ~agree
            /\ IF IsOnPlaying(o) THEN Relay(o, "ForgiveResponse", [agree |-> FALSE]) ELSE Ignore

OnDrawRequest(i) ==
  LET s == entrys[i]
      o == FindOppEntry(s)
  IN  /\ up
      /\ \/ s = Nil /\ Crash
         \/ s # Nil /\ ~IsOnPlaying(s) /\ Ignore
         \/ /\ s # Nil /\ IsOnPlaying(s)
            /\ \/ ~OppFound(s) /\ Crash
               \/ OppFound(s) /\ IsOnPlaying(o) /\ Relay(o, "DrawRequest", NoBody)
               \/ OppFound(s) /\ ~IsOnPlaying(o) /\ Ignore

OnDrawResponse(i, agree) ==
  LET s == entrys[i]
      o == FindOppEntry(s)
  IN  /\ up
      /\ \/ (s = Nil \/ ~OppFound(s)) /\ Crash
         \/ s # Nil /\ OppFound(s) /\ agree /\ EndGame(s, "DRAW", timers, <<>>)
         \/ /\ s # Nil /\ OppFound(s) /\ ~agree
            /\ IF IsOnPlaying(o) THEN Relay(o, "DrawResponse", [agree |-> FALSE]) ELSE Ignore

\* The timer armed for u's Entry runs out.
OnTimeOut(u) ==
  /\ up
  /\ timers[u] > 0
  /\ EndGame(u, "SELF_TIMEOUT", CancelTimer(timers, u), <<>>)
=============================================================================
