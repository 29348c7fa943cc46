---------------------------- MODULE CenterProofs ----------------------------
(***************************************************************************)
(* Theorems about the center: about CenterSession, for every set of users, *)
(* of connection ids, of room types and positions and for every bound, and *)
(* about Game, the same handlers between the pages of the players and the  *)
(* login server.                                                           *)
(*                                                                         *)
(* The invariants of CenterSession hold only together.  A lookup succeeds  *)
(* because of HallOK and RoomOK; a clock is the right one because of       *)
(* RoomOK; and the hall keeps its shape because of what CallersOK says of  *)
(* the callers.  The inductive invariant is their conjunction.  What it    *)
(* says of the hall and the rooms alone, CenterInv, is what both           *)
(* specifications of the center share: the handlers keep it whoever calls. *)
(*                                                                         *)
(* The second half proves OwnRecordIsRight of Game.  Its invariant,        *)
(* WorldInv, follows the news of a user's record through the messages      *)
(* under way to its page (Fits), the boards those messages bring (Seats,   *)
(* Gets) and the owners of the connections (OwnersOK).                     *)
(***************************************************************************)
EXTENDS CenterSession, Game, FiniteSetTheorems, SequenceTheorems, TLAPS

CenterInv == TypeOK /\ HallOK /\ RoomOK

IInv == SessionTypeOK /\ HallOK /\ RoomOK /\ ClockOK /\ CallersOK

-----------------------------------------------------------------------------
(* Lookups.                                                                *)

\* Whoever has a seat has an opponent, and the lookup by connection id finds
\* that opponent's Entry.
LEMMA OppIsFound ==
  ASSUME CenterInv, NEW u \in Users, gameInfo[u] # Nil
  PROVE  /\ gameInfo[u] \in GameInfo
         /\ gameInfo[u].opp \in Users \ {u}
         /\ FindOppEntry(u) = gameInfo[u].opp
         /\ OppFound(u)
         /\ OppInGame(u)
         /\ gameInfo[gameInfo[u].opp] \in GameInfo
         /\ gameInfo[gameInfo[u].opp].opp = u
         /\ IsInRoom(u)
         /\ IsInRoom(gameInfo[u].opp)
<1>1. /\ gameInfo[u] \in GameInfo
      /\ gameInfo[u].opp \in Users \ {u}
      /\ gameInfo[gameInfo[u].opp] \in GameInfo
      /\ gameInfo[gameInfo[u].opp].opp = u
  BY NilAssumption DEF CenterInv, TypeOK, RoomOK, GameInfo
<1>2. IsInRoom(u) /\ IsInRoom(gameInfo[u].opp)
  BY <1>1, NilAssumption DEF CenterInv, RoomOK, GameInfo
<1>3. /\ state[gameInfo[u].opp] # "none"
      /\ connId[gameInfo[u].opp] # Nil
      /\ entrys[connId[gameInfo[u].opp]] = gameInfo[u].opp
  BY <1>1, <1>2 DEF CenterInv, HallOK, IsInRoom
<1> QED
  BY <1>1, <1>2, <1>3, NilAssumption DEF FindOppEntry, OppFound, OppInGame, HasOpp, GameInfo

-----------------------------------------------------------------------------
(* Handlers that leave the hall and the games alone.                       *)

LEMMA QuietStep ==
  ASSUME CenterInv, UNCHANGED <<hallVars, gameVars>>,
         links' \subseteq Links, up' \in BOOLEAN, sent' \in Seq(Message)
  PROVE  CenterInv'
  BY DEF CenterInv, TypeOK, HallOK, RoomOK, hallVars, gameVars, IsInRoom, RoomOf

LEMMA ClockStays ==
  ASSUME ClockOK, UNCHANGED gameVars
  PROVE  ClockOK'
  BY DEF ClockOK, gameVars, RoomOf, IsTurnToPlay

LEMMA IgnoreStep ==
  ASSUME CenterInv, Ignore \/ Crash
  PROVE  CenterInv'
<1>1. UNCHANGED <<hallVars, gameVars>> /\ links' = links /\ sent' = <<>>
  BY DEF Ignore, Crash
<1>2. links' \subseteq Links /\ up' \in BOOLEAN
  BY DEF Ignore, Crash, CenterInv, TypeOK
<1>3. sent' \in Seq(Message)
  BY <1>1
<1> QED
  BY <1>1, <1>2, <1>3, QuietStep

-----------------------------------------------------------------------------
(* What is sent is a sequence of messages, and those for a client go to a  *)
(* connection id that has an Entry.                                        *)

HallMessage == {m \in Message : m.to = "front" => entrys[m.id] # Nil}

LEMMA HallMsg ==
  ASSUME NEW to \in Links, NEW id \in ConnIds, NEW type \in MessageTypes, NEW data \in Body,
         to = "front" => entrys[id] # Nil
  PROVE  /\ Msg(to, id, type, data) \in HallMessage
         /\ <<Msg(to, id, type, data)>> \in Seq(HallMessage)
  BY DEF Msg, Message, HallMessage

LEMMA PlainMsg ==
  ASSUME NEW to \in Links, NEW id \in ConnIds, NEW type \in MessageTypes, NEW data \in Body
  PROVE  /\ Msg(to, id, type, data) \in Message
         /\ <<Msg(to, id, type, data)>> \in Seq(Message)
  BY DEF Msg, Message

LEMMA EmptyTyped ==
  ASSUME NEW S
  PROVE  <<>> \in Seq(S)
  OBVIOUS

LEMMA IfTyped ==
  ASSUME NEW S, NEW cond, NEW msgs \in Seq(S)
  PROVE  If(cond, msgs) \in Seq(S)
  BY DEF If

LEMMA ConcatTyped ==
  ASSUME NEW S, NEW x \in Seq(S), NEW y \in Seq(S)
  PROVE  x \o y \in Seq(S)
  OBVIOUS

LEMMA HallMessages ==
  ASSUME NEW ms \in Seq(HallMessage)
  PROVE  /\ ms \in Seq(Message)
         /\ \A k \in DOMAIN ms : ms[k].to = "front" => entrys[ms[k].id] # Nil
  BY DEF HallMessage

LEMMA BodyTyped ==
  /\ NoBody \in Body
  /\ \A u \in Users : [username |-> u] \in Body
  /\ \A u \in Users, info \in Info : [username |-> u, info |-> info] \in Body
  /\ \A r \in {"MULTI_LOGIN", "VERTIFY_ERROR"} : [reason |-> r] \in Body
  /\ \A u \in Users, t \in RoomTypes, n \in Int :
       [username |-> u, type |-> t, score |-> n] \in Body
  /\ \A c \in {"RED", "BLACK"}, t \in RoomTypes, o \in Users :
       [selftype |-> c, type |-> t, oppuser |-> o] \in Body
  /\ \A b \in BOOLEAN, fen \in Fens : [over |-> b, fen |-> fen] \in Body
  /\ \A b \in BOOLEAN : [agree |-> b] \in Body
  /\ \A red, turn \in BOOLEAN, fen \in Fens \cup {Nil}, t \in RoomTypes :
       [red |-> red, fen |-> fen, roomtype |-> t, turntome |-> turn] \in Body
  /\ \A t \in GameOverTypes, n \in Int : [type |-> t, changescore |-> n] \in Body
  BY DEF Body, NoBody

-----------------------------------------------------------------------------
(* The hall.                                                               *)

\* A step that only moves Entries in and out of the hall, and nobody in or
\* out of a room, has nothing to answer for but the hall.
LEMMA HallStep ==
  ASSUME CenterInv, UNCHANGED gameVars, TypeOK', HallOK',
         \A u \in Users : IsInRoom(u)' <=> IsInRoom(u)
  PROVE  CenterInv'
  BY DEF CenterInv, gameVars, RoomOK, IsInRoom, RoomOf

LEMMA IntoHallStep ==
  ASSUME CenterInv, NEW i \in ConnIds, NEW u \in Users, NEW info \in Info,
         entrys[i] = Nil, userList[u] = Nil,
         IntoHall(i, u, info), UNCHANGED <<gameVars, links, up>>,
         sent' \in Seq(Message)
  PROVE  CenterInv'
<1> USE NilAssumption DEF CenterInv, IntoHall, Insert
<1>1. TypeOK'
  <2>1. /\ entrys' = [entrys EXCEPT ![i] = u]
        /\ userList' = [userList EXCEPT ![u] = i]
        /\ connId' = [connId EXCEPT ![u] = i]
        /\ state' = [state EXCEPT ![u] = "kOnline"]
        /\ userInfo' = [userInfo EXCEPT ![u] = info]
    OBVIOUS
  <2> QED
    BY <2>1 DEF TypeOK, gameVars, States
<1>2. HallOK'
  BY DEF TypeOK, HallOK
<1>3. \A w \in Users : IsInRoom(w)' <=> IsInRoom(w)
  BY DEF TypeOK, HallOK, IsInRoom
<1> QED
  BY <1>1, <1>2, <1>3, HallStep

LEMMA OutOfHallStep ==
  ASSUME CenterInv, NEW e \in Users, state[e] # "none", ~IsInRoom(e),
         OutOfHall(e), UNCHANGED <<gameVars, links, up>>, sent' \in Seq(Message)
  PROVE  CenterInv'
<1> USE NilAssumption DEF CenterInv, OutOfHall, Erase
<1>1. TypeOK'
  BY DEF TypeOK, gameVars, States
<1>2. HallOK'
  BY DEF TypeOK, HallOK
<1>3. \A w \in Users : IsInRoom(w)' <=> IsInRoom(w)
  BY DEF TypeOK, IsInRoom
<1> QED
  BY <1>1, <1>2, <1>3, HallStep

\* kOnline <-> kMatching, kPlaying -> kDisconnecteInPlaying.
LEMMA StateStep ==
  ASSUME CenterInv, NEW e \in Users, NEW st \in States \ {"none"}, state[e] # "none",
         IsInRoom(e) <=> st \in {"kPlaying", "kDisconnecteInPlaying"},
         state' = [state EXCEPT ![e] = st],
         UNCHANGED <<entrys, userList, connId, userInfo, gameVars, links, up>>,
         sent' \in Seq(Message)
  PROVE  CenterInv'
<1> USE DEF CenterInv
<1>1. TypeOK'
  BY DEF TypeOK, gameVars
<1>2. HallOK'
  BY DEF TypeOK, HallOK
<1>3. \A w \in Users : IsInRoom(w)' <=> IsInRoom(w)
  BY DEF TypeOK, IsInRoom
<1> QED
  BY <1>1, <1>2, <1>3, HallStep

LEMMA ReconnectedStep ==
  ASSUME CenterInv, NEW e \in Users, NEW newId \in ConnIds, connId[e] # Nil,
         entrys[newId] = Nil, IsInRoom(e),
         entrys' = Insert(Erase(entrys, connId[e]), newId, e),
         userList' = Insert(Erase(userList, e), e, newId),
         connId' = [connId EXCEPT ![e] = newId],
         state' = [state EXCEPT ![e] = "kPlaying"],
         UNCHANGED <<userInfo, gameVars, links, up>>, sent' \in Seq(Message)
  PROVE  CenterInv'
<1> USE NilAssumption DEF CenterInv, Insert, Erase
<1>1. TypeOK'
  BY DEF TypeOK, gameVars, States
<1>2. HallOK'
  BY DEF TypeOK, HallOK
<1>3. \A w \in Users : IsInRoom(w)' <=> IsInRoom(w)
  BY DEF TypeOK, IsInRoom
<1> QED
  BY <1>1, <1>2, <1>3, HallStep

-----------------------------------------------------------------------------
(* Games.                                                                  *)

LEMMA NewGameStep ==
  ASSUME CenterInv, NEW r \in Users, NEW b \in Users \ {r}, NEW type \in RoomTypes,
         state[r] = "kMatching", state[b] = "kMatching",
         StartNewGame(r, b, type), sent' \in Seq(Message)
  PROVE  CenterInv'
<1> USE NilAssumption DEF CenterInv, StartNewGame
<1>1. /\ gameInfo[r] = Nil /\ gameInfo[b] = Nil
      /\ rooms[r] = Nil /\ rooms[b] = Nil
  BY DEF TypeOK, RoomOK, IsInRoom
<1>2. TypeOK'
  <2>1. /\ [type |-> "kRed", opp |-> b, room |-> r] \in GameInfo
        /\ [type |-> "kBlack", opp |-> r, room |-> r] \in GameInfo
        /\ [type |-> type, timer |-> r, fen |-> Nil, totalSteps |-> 0] \in RoomInfo
    BY DEF GameInfo, RoomInfo, PlayerTypes
  <2>2. ArmTimer(timers, r) \in [Users -> Nat]
    BY DEF TypeOK, ArmTimer
  <2> QED
    BY <2>1, <2>2 DEF TypeOK, States
<1>3. HallOK'
  BY DEF TypeOK, HallOK
<1>4. RoomOK'
  <2>1. \A u \in Users \ {r, b} : /\ gameInfo'[u] = gameInfo[u]
                                  /\ state'[u] = state[u]
                                  /\ rooms'[u] = rooms[u]
    BY DEF TypeOK
  <2>2. /\ gameInfo'[r] = [type |-> "kRed", opp |-> b, room |-> r]
        /\ gameInfo'[b] = [type |-> "kBlack", opp |-> r, room |-> r]
        /\ state'[r] = "kPlaying" /\ state'[b] = "kPlaying"
        /\ rooms'[r] = [type |-> type, timer |-> r, fen |-> Nil, totalSteps |-> 0]
        /\ rooms'[b] = Nil
    BY <1>1 DEF TypeOK
  <2>3. rooms'[r] # Nil /\ gameInfo'[r] # Nil /\ gameInfo'[b] # Nil
    BY <2>2 DEF GameInfo, RoomInfo, PlayerTypes
  <2>4. \A u \in Users : gameInfo[u] # Nil => /\ gameInfo[u].opp \notin {r, b}
                                              /\ gameInfo[u].room \notin {r, b}
    BY <1>1 DEF RoomOK, TypeOK, GameInfo
  <2>5. \A u \in Users : gameInfo[u] # Nil => gameInfo[u].opp \in Users /\ gameInfo[u].room \in Users
    BY DEF TypeOK, GameInfo
  <2> SUFFICES ASSUME NEW u \in Users
               PROVE  RoomOK!(u)'
    BY DEF RoomOK
  <2>6. CASE u \in {r, b}
    BY <2>2, <2>3, <2>6 DEF IsInRoom, RoomOf
  <2>7. CASE u \notin {r, b}
    <3> HIDE DEF StartNewGame
    <3>0. RoomOK!(u)
      BY DEF RoomOK
    <3>1. gameInfo'[u] # Nil <=> IsInRoom(u)'
      BY <2>1, <2>7, <3>0 DEF IsInRoom
    <3>2. rooms'[u] # Nil => gameInfo'[u] # Nil /\ gameInfo'[u].room = u
      BY <2>1, <2>7, <3>0
    <3>3. ASSUME gameInfo[u] # Nil
          PROVE  LET o == gameInfo[u].opp
                 IN  gameInfo'[o] = gameInfo[o] /\ rooms'[gameInfo[u].room] = RoomOf(u)
      BY <2>1, <2>4, <2>5, <3>3 DEF RoomOf
    <3> QED
      BY <2>1, <2>7, <3>0, <3>1, <3>2, <3>3 DEF RoomOf
  <2> QED
    BY <2>6, <2>7
<1> QED
  BY <1>2, <1>3, <1>4

LEMMA NewGameClock ==
  ASSUME CenterInv, ClockOK, NEW r \in Users, NEW b \in Users \ {r}, NEW type \in RoomTypes,
         state[r] = "kMatching", state[b] = "kMatching", StartNewGame(r, b, type)
  PROVE  ClockOK'
<1> USE NilAssumption DEF CenterInv, StartNewGame
<1>1. /\ gameInfo[r] = Nil /\ gameInfo[b] = Nil
      /\ rooms[r] = Nil /\ rooms[b] = Nil
      /\ timers[r] = 0 /\ timers[b] = 0
  BY DEF TypeOK, RoomOK, ClockOK, IsInRoom
<1> SUFFICES ASSUME NEW u \in Users
             PROVE  LET onMove == gameInfo'[u] # Nil /\ IsTurnToPlay(u)'
                    IN  /\ timers'[u] = IF onMove THEN 1 ELSE 0
                        /\ onMove => RoomOf(u)'.timer = u
  BY DEF ClockOK
<1>2. CASE u = r
  BY <1>1, <1>2 DEF TypeOK, ArmTimer, IsTurnToPlay, RoomOf, GameInfo, PlayerTypes
<1>3. CASE u = b
  BY <1>1, <1>3 DEF TypeOK, ArmTimer, IsTurnToPlay, RoomOf, GameInfo, PlayerTypes
<1>4. CASE u \notin {r, b}
  <2>1. gameInfo'[u] = gameInfo[u] /\ timers'[u] = timers[u]
    BY <1>4 DEF TypeOK, ArmTimer
  <2>2. gameInfo[u] # Nil => gameInfo[u].room \in Users \ {r}
    BY <1>1, <1>4 DEF RoomOK, TypeOK, GameInfo
  <2>3. gameInfo[u] # Nil => RoomOf(u)' = RoomOf(u)
    BY <2>1, <2>2 DEF TypeOK, RoomOf
  <2> QED
    BY <2>1, <2>3 DEF ClockOK, IsTurnToPlay
<1> QED
  BY <1>2, <1>3, <1>4

LEMMA TimerArithmetic ==
  ASSUME NEW ts \in [Users -> Nat], NEW u \in Users
  PROVE  /\ CancelTimer(ts, u) \in [Users -> Nat]
         /\ CancelTimer(ts, u)[u] = IF ts[u] > 0 THEN ts[u] - 1 ELSE 0
         /\ \A w \in Users \ {u} : CancelTimer(ts, u)[w] = ts[w]
         /\ ArmTimer(ts, u) \in [Users -> Nat]
         /\ ArmTimer(ts, u)[u] = ts[u] + 1
         /\ \A w \in Users \ {u} : ArmTimer(ts, u)[w] = ts[w]
  BY DEF CancelTimer, ArmTimer

LEMMA Parity ==
  \A n \in Int, d \in {1, -1} : (n % 2 = 0) <=> ~((n + d) % 2 = 0)
  OBVIOUS

\* A move is made, or taken back.
PassedRoom(s, fen, step) ==
  [rooms[gameInfo[s].room] EXCEPT !.timer = gameInfo[s].opp, !.fen = fen, !.totalSteps = @ + step]

LEMMA PassedRooms ==
  ASSUME CenterInv, NEW s \in Users, NEW fen \in Fens, NEW step \in {1, -1},
         gameInfo[s] # Nil, PassTheMove(s, FindOppEntry(s), fen, step)
  PROVE  LET o == gameInfo[s].opp
             rm == gameInfo[s].room
         IN  /\ o \in Users \ {s} /\ rm \in Users /\ rm \in {s, o}
             /\ gameInfo[s] \in GameInfo /\ gameInfo[o] \in GameInfo
             /\ gameInfo[o] # Nil /\ gameInfo[o].opp = s /\ gameInfo[o].room = rm
             /\ gameInfo[o].type # gameInfo[s].type
             /\ rooms[rm] # Nil /\ rooms[rm] \in RoomInfo
             /\ FindOppEntry(s) = o
             /\ rooms' = [rooms EXCEPT ![rm] = PassedRoom(s, fen, step)]
             /\ rooms'[rm] \in RoomInfo
             /\ rooms'[rm].timer = o
             /\ rooms'[rm].totalSteps = rooms[rm].totalSteps + step
             /\ \A u \in Users \ {rm} : rooms'[u] = rooms[u]
             /\ UNCHANGED <<entrys, userList, connId, state, userInfo, gameInfo, links, up>>
<1> DEFINE o == gameInfo[s].opp
           rm == gameInfo[s].room
<1>1. /\ o \in Users \ {s} /\ rm \in Users /\ rm \in {s, o}
      /\ gameInfo[s] \in GameInfo /\ gameInfo[o] \in GameInfo
      /\ gameInfo[o] # Nil /\ gameInfo[o].opp = s /\ gameInfo[o].room = rm
      /\ gameInfo[o].type # gameInfo[s].type
      /\ rooms[rm] # Nil /\ rooms[rm] \in RoomInfo
      /\ FindOppEntry(s) = o
  BY OppIsFound, NilAssumption DEF CenterInv, TypeOK, RoomOK, RoomOf, GameInfo
<1>2. rooms' = [rooms EXCEPT ![rm] = PassedRoom(s, fen, step)]
  BY <1>1 DEF PassTheMove, CenterInv, TypeOK, PassedRoom
<1>3. UNCHANGED <<entrys, userList, connId, state, userInfo, gameInfo, links, up>>
  BY DEF PassTheMove, hallVars
<1>4. /\ rooms'[rm] \in RoomInfo
      /\ rooms'[rm].timer = o
      /\ rooms'[rm].totalSteps = rooms[rm].totalSteps + step
  <2>1. rooms'[rm] = PassedRoom(s, fen, step)
    BY <1>1, <1>2 DEF CenterInv, TypeOK
  <2>2. rooms[rm].totalSteps + step \in Int
    BY <1>1 DEF RoomInfo
  <2>3. rooms'[rm] = [type |-> rooms[rm].type, timer |-> o, fen |-> fen,
                      totalSteps |-> rooms[rm].totalSteps + step]
    BY <1>1, <2>1 DEF RoomInfo, PassedRoom
  <2> QED
    BY <1>1, <2>2, <2>3 DEF RoomInfo
<1>5. \A u \in Users \ {rm} : rooms'[u] = rooms[u]
  BY <1>2 DEF CenterInv, TypeOK
<1> QED
  BY <1>1, <1>2, <1>3, <1>4, <1>5

LEMMA PassTheMoveStep ==
  ASSUME CenterInv, NEW s \in Users, NEW fen \in Fens, NEW step \in {1, -1},
         gameInfo[s] # Nil,
         PassTheMove(s, FindOppEntry(s), fen, step), sent' \in Seq(Message)
  PROVE  CenterInv'
<1> DEFINE o == gameInfo[s].opp
           rm == gameInfo[s].room
<1>1. /\ o \in Users \ {s} /\ rm \in Users
      /\ rooms[rm] # Nil /\ rooms[rm] \in RoomInfo
      /\ FindOppEntry(s) = o
      /\ rooms' = [rooms EXCEPT ![rm] = PassedRoom(s, fen, step)]
      /\ rooms'[rm] \in RoomInfo
      /\ \A u \in Users \ {rm} : rooms'[u] = rooms[u]
      /\ UNCHANGED <<entrys, userList, connId, state, userInfo, gameInfo, links, up>>
  BY PassedRooms
<1>2. timers' \in [Users -> Nat]
  <2>1. timers \in [Users -> Nat] /\ RoomOf(s) \in RoomInfo
    BY <1>1 DEF CenterInv, TypeOK, RoomOf
  <2>2. RoomOf(s).timer \in Users
    BY <2>1 DEF RoomInfo
  <2>3. CancelTimer(timers, RoomOf(s).timer) \in [Users -> Nat]
    BY <2>1, <2>2, TimerArithmetic
  <2>4. timers' = ArmTimer(CancelTimer(timers, RoomOf(s).timer), o)
    BY <1>1 DEF PassTheMove, SwitchClocks
  <2> QED
    BY <1>1, <2>3, <2>4, TimerArithmetic
<1>3. TypeOK'
  <2>1. rooms' \in [Users -> RoomInfo \cup {Nil}]
    <3> HIDE DEF rm
    <3> QED
      BY <1>1 DEF CenterInv, TypeOK
  <2> QED
    BY <1>1, <1>2, <2>1 DEF CenterInv, TypeOK
<1>4. HallOK'
  BY <1>1 DEF CenterInv, HallOK
<1>5. \A u \in Users : rooms'[u] # Nil <=> rooms[u] # Nil
  BY <1>1, NilAssumption
<1>6. RoomOK'
  <2> SUFFICES ASSUME NEW u \in Users
               PROVE  RoomOK!(u)'
    BY DEF RoomOK
  <2>1. RoomOK!(u)
    BY DEF CenterInv, RoomOK
  <2>2. gameInfo[u] # Nil => gameInfo[u].room \in Users
    BY DEF CenterInv, TypeOK, GameInfo
  <2> QED
    BY <1>1, <1>5, <2>1, <2>2 DEF IsInRoom, RoomOf
<1> QED
  BY <1>3, <1>4, <1>6 DEF CenterInv

\* The clocks are right if it was the player on the move who made it or took
\* it back.
LEMMA PassTheMoveClock ==
  ASSUME CenterInv, ClockOK, NEW s \in Users, NEW fen \in Fens, NEW step \in {1, -1},
         gameInfo[s] # Nil, IsTurnToPlay(s), PassTheMove(s, FindOppEntry(s), fen, step)
  PROVE  ClockOK'
<1> DEFINE o == gameInfo[s].opp
           rm == gameInfo[s].room
<1>1. /\ o \in Users \ {s} /\ rm \in Users /\ rm \in {s, o}
      /\ gameInfo[s] \in GameInfo /\ gameInfo[o] \in GameInfo
      /\ gameInfo[o] # Nil /\ gameInfo[o].opp = s /\ gameInfo[o].room = rm
      /\ gameInfo[o].type # gameInfo[s].type
      /\ rooms[rm] \in RoomInfo
      /\ FindOppEntry(s) = o
      /\ rooms'[rm].timer = o
      /\ rooms'[rm].totalSteps = rooms[rm].totalSteps + step
      /\ \A u \in Users \ {rm} : rooms'[u] = rooms[u]
      /\ UNCHANGED gameInfo
  BY PassedRooms
<1>2. /\ RoomOf(s) = rooms[rm] /\ RoomOf(o) = rooms[rm]
      /\ rooms[rm].timer = s
      /\ timers[s] = 1 /\ timers[o] = 0
  <2>1. RoomOf(s) = rooms[rm] /\ RoomOf(o) = rooms[rm]
    BY <1>1 DEF RoomOf
  <2>2. ~IsTurnToPlay(o)
    BY <1>1, <2>1 DEF IsTurnToPlay, GameInfo, PlayerTypes
  <2> QED
    BY <1>1, <2>1, <2>2 DEF ClockOK
<1>3. /\ timers'[s] = 0 /\ timers'[o] = 1
      /\ \A u \in Users \ {s, o} : timers'[u] = timers[u]
  <2>1. timers' = ArmTimer(CancelTimer(timers, s), o)
    BY <1>1, <1>2 DEF PassTheMove, SwitchClocks
  <2> DEFINE ts == CancelTimer(timers, s)
  <2>2. /\ ts \in [Users -> Nat] /\ ts[s] = 0
        /\ \A u \in Users \ {s} : ts[u] = timers[u]
    <3>1. timers \in [Users -> Nat]
      BY DEF CenterInv, TypeOK
    <3>2. /\ ts \in [Users -> Nat]
          /\ ts[s] = IF timers[s] > 0 THEN timers[s] - 1 ELSE 0
          /\ \A u \in Users \ {s} : ts[u] = timers[u]
      BY <3>1, TimerArithmetic
    <3> QED
      BY <1>2, <3>2
  <2> HIDE DEF ts
  <2>3. /\ ArmTimer(ts, o)[o] = ts[o] + 1
        /\ \A u \in Users \ {o} : ArmTimer(ts, o)[u] = ts[u]
    BY <1>1, <2>2, TimerArithmetic
  <2> QED
    BY <1>1, <1>2, <2>1, <2>2, <2>3 DEF ts
<1> SUFFICES ASSUME NEW u \in Users
             PROVE  ClockOK!(u)'
  BY DEF ClockOK
<1>4. (rooms[rm].totalSteps % 2 = 0) <=> ~(rooms'[rm].totalSteps % 2 = 0)
  BY <1>1, Parity DEF RoomInfo
<1>5. CASE u = s
  BY <1>1, <1>2, <1>3, <1>4, <1>5 DEF IsTurnToPlay, RoomOf
<1>6. CASE u = o
  BY <1>1, <1>2, <1>3, <1>4, <1>6 DEF IsTurnToPlay, RoomOf, GameInfo, PlayerTypes
<1>7. CASE u \notin {s, o}
  <2>1. gameInfo[u] # Nil => gameInfo[u].room \in Users \ {rm}
    BY <1>1, <1>7 DEF CenterInv, TypeOK, RoomOK, GameInfo
  <2>2. ClockOK!(u)
    BY DEF ClockOK
  <2> QED
    BY <1>1, <1>3, <1>7, <2>1, <2>2 DEF IsTurnToPlay, RoomOf
<1> QED
  BY <1>5, <1>6, <1>7

LEMMA ResultTyped ==
  ASSUME NEW s \in Users, NEW o \in Users, userInfo[s] \in Info, userInfo[o] \in Info,
         NEW over \in OverTypes
  PROVE  /\ GetChangeScore(over) \in Int
         /\ SelfInfo(s, over) \in Info
         /\ OppInfo(o, over) \in Info
<1>1. GetChangeScore(over) \in Int
  BY DEF GetChangeScore
<1>2. ASSUME NEW info \in Info, NEW change \in Int, NEW result
      PROVE  UpdateUserInfo(info, change, result) \in Info
  BY DEF UpdateUserInfo, Info
<1>3. SelfInfo(s, over) \in Info
  BY <1>1, <1>2 DEF SelfInfo
<1>4. -GetChangeScore(over) \in Int
  BY <1>1
<1>5. OppInfo(o, over) \in Info
  BY <1>2, <1>4 DEF OppInfo
<1> QED
  BY <1>1, <1>3, <1>5

\* A game ends, with the timers that are armed or, when one has just run
\* out, with those that are left.
LEMMA GameOverStep ==
  ASSUME CenterInv, NEW s \in Users, NEW over \in OverTypes, NEW ts, NEW before,
         gameInfo[s] # Nil, ts \in {timers, CancelTimer(timers, s)},
         GameOver(s, FindOppEntry(s), over, ts, before), sent' \in Seq(Message)
  PROVE  CenterInv'
<1> DEFINE o == gameInfo[s].opp
           rm == gameInfo[s].room
           seats == {s, o}
           gone == {p \in seats : ~IsOnPlaying(p)}
<1>1. /\ o \in Users \ {s} /\ rm \in seats
      /\ gameInfo[s] \in GameInfo /\ gameInfo[o] \in GameInfo
      /\ gameInfo[o] # Nil /\ gameInfo[o].opp = s /\ gameInfo[o].room = rm
      /\ gameInfo[o].type # gameInfo[s].type
      /\ FindOppEntry(s) = o
      /\ IsInRoom(s) /\ IsInRoom(o)
  BY OppIsFound, NilAssumption DEF CenterInv, TypeOK, RoomOK, GameInfo
<1>2. timers' \in [Users -> Nat]
  <2>1. timers' = CancelTimer(ts, RoomOf(s).timer)
    BY DEF GameOver
  <2>2. RoomOf(s).timer \in Users
    BY <1>1 DEF CenterInv, TypeOK, RoomOK, RoomOf, RoomInfo
  <2>3. timers \in [Users -> Nat]
    BY DEF CenterInv, TypeOK
  <2>4. ts \in [Users -> Nat]
    BY <2>3, TimerArithmetic
  <2> QED
    BY <2>1, <2>2, <2>4, TimerArithmetic
<1>3. /\ entrys' = [i \in ConnIds |->
                      IF \E p \in gone : connId[p] = i THEN Nil ELSE entrys[i]]
      /\ userList' = [u \in Users |-> IF u \in gone THEN Nil ELSE userList[u]]
      /\ connId' = [u \in Users |-> IF u \in gone THEN Nil ELSE connId[u]]
      /\ state' = [u \in Users |-> CASE u \in gone -> "none"
                                     [] u \in seats \ gone -> "kOnline"
                                     [] OTHER -> state[u]]
      /\ gameInfo' = [u \in Users |-> IF u \in seats THEN Nil ELSE gameInfo[u]]
      /\ rooms' = [rooms EXCEPT ![rm] = Nil]
      /\ UNCHANGED <<links, up>>
  BY <1>1 DEF GameOver, DestroyRoom, Leavers, Erase
<1>4. /\ userInfo' \in [Users -> Info \cup {Nil}]
      /\ \A u \in Users : userInfo'[u] = Nil <=> (u \in gone \/ userInfo[u] = Nil)
  <2>1. userInfo[s] \in Info /\ userInfo[o] \in Info
    BY <1>1 DEF CenterInv, TypeOK, HallOK, IsInRoom
  <2>2. SelfInfo(s, over) \in Info /\ OppInfo(o, over) \in Info
    BY <1>1, <2>1, ResultTyped
  <2>3. userInfo' = [u \in Users |-> IF u \in gone THEN Nil
                                     ELSE IF u = o THEN OppInfo(o, over)
                                     ELSE IF u = s THEN SelfInfo(s, over)
                                     ELSE userInfo[u]]
    BY <1>1 DEF GameOver, DestroyRoom, Leavers, CenterInv, TypeOK
  <2> QED
    BY <1>1, <2>1, <2>2, <2>3, NilAssumption DEF CenterInv, TypeOK
<1> HIDE DEF gone, seats
<1>5. seats = {s, o} /\ gone = {p \in {s, o} : ~IsOnPlaying(p)} /\ gone \subseteq seats
  BY DEF gone, seats
<1>6. TypeOK'
  BY <1>1, <1>2, <1>3, <1>4, <1>5 DEF CenterInv, TypeOK, States
<1>7. HallOK'
  <2>1. \A p \in gone : connId[p] # Nil /\ entrys[connId[p]] = p
    BY <1>1, <1>5 DEF CenterInv, HallOK, IsInRoom
  <2>2. \A i \in ConnIds : entrys'[i] # Nil => connId'[entrys'[i]] = i
    BY <1>3, <2>1 DEF CenterInv, TypeOK, HallOK
  <2>3. ASSUME NEW u \in Users
        PROVE  /\ userList'[u] = connId'[u]
               /\ state'[u] = "none" <=> connId'[u] = Nil
               /\ userInfo'[u] = Nil <=> connId'[u] = Nil
               /\ connId'[u] # Nil => entrys'[connId'[u]] = u
    <3>1. /\ userList[u] = connId[u]
          /\ state[u] = "none" <=> connId[u] = Nil
          /\ userInfo[u] = Nil <=> connId[u] = Nil
          /\ connId[u] # Nil => connId[u] \in ConnIds /\ entrys[connId[u]] = u
      BY DEF CenterInv, TypeOK, HallOK
    <3>2. CASE u \in gone
      BY <1>3, <1>4, <3>2
    <3>3. CASE u \notin gone
      <4>1. u \in seats => state[u] # "none"
        BY <1>1, <1>5 DEF IsInRoom
      <4>2. connId[u] # Nil => ~\E p \in gone : connId[p] = connId[u]
        BY <2>1, <3>1, <3>3
      <4> QED
        BY <1>3, <1>4, <3>1, <3>3, <4>1, <4>2
    <3> QED
      BY <3>2, <3>3
  <2> QED
    BY <2>2, <2>3 DEF HallOK
<1>8. \A u \in Users \ seats : gameInfo[u] # Nil => /\ gameInfo[u].opp \in Users \ seats
                                                    /\ gameInfo[u].room \in Users \ seats
  BY <1>1, <1>5 DEF CenterInv, TypeOK, RoomOK, GameInfo
<1>9. \A u \in Users : /\ u \in seats => gameInfo'[u] = Nil
                       /\ u \notin seats => /\ gameInfo'[u] = gameInfo[u]
                                            /\ rooms'[u] = rooms[u]
                                            /\ state'[u] = state[u]
                       /\ rooms'[u] = IF u = rm THEN Nil ELSE rooms[u]
  BY <1>1, <1>3, <1>5 DEF CenterInv, TypeOK
<1>10. RoomOK'
  <2> SUFFICES ASSUME NEW u \in Users
               PROVE  RoomOK!(u)'
    BY DEF RoomOK
  <2>1. RoomOK!(u)
    BY DEF CenterInv, RoomOK
  <2>2. CASE u \in seats
    <3>1. ~IsInRoom(u)'
      BY <1>3, <1>5, <2>2 DEF IsInRoom
    <3>2. rooms[u] # Nil => u = rm
      BY <1>1, <1>5, <2>1, <2>2
    <3> QED
      BY <1>9, <2>2, <3>1, <3>2
  <2>3. CASE u \notin seats
    BY <1>8, <1>9, <2>1, <2>3 DEF IsInRoom, RoomOf
  <2> QED
    BY <2>2, <2>3
<1> QED
  BY <1>6, <1>7, <1>10 DEF CenterInv

LEMMA GameOverClock ==
  ASSUME CenterInv, ClockOK, NEW s \in Users, NEW over, NEW ts, NEW before,
         gameInfo[s] # Nil,
         \/ ts = timers
         \/ IsTurnToPlay(s) /\ ts = CancelTimer(timers, s),
         GameOver(s, FindOppEntry(s), over, ts, before)
  PROVE  ClockOK'
<1> DEFINE o == gameInfo[s].opp
           rm == gameInfo[s].room
           seats == {s, o}
<1>1. /\ o \in Users \ {s} /\ rm \in seats
      /\ gameInfo[s] \in GameInfo /\ gameInfo[o] \in GameInfo
      /\ gameInfo[o] # Nil /\ gameInfo[o].opp = s /\ gameInfo[o].room = rm
      /\ gameInfo[o].type # gameInfo[s].type
      /\ FindOppEntry(s) = o
  BY OppIsFound, NilAssumption DEF CenterInv, TypeOK, RoomOK, GameInfo
<1>2. /\ \A u \in seats : timers'[u] = 0
      /\ \A u \in Users \ seats : timers'[u] = timers[u]
  <2>1. RoomOf(o) = RoomOf(s)
    BY <1>1 DEF RoomOf
  <2>2. IsTurnToPlay(s) <=> ~IsTurnToPlay(o)
    BY <1>1, <2>1 DEF IsTurnToPlay, GameInfo, PlayerTypes
  <2>3. timers' = CancelTimer(ts, RoomOf(s).timer)
    BY DEF GameOver
  <2>4. /\ IsTurnToPlay(s) => RoomOf(s).timer = s /\ timers[s] = 1 /\ timers[o] = 0
        /\ ~IsTurnToPlay(s) => RoomOf(s).timer = o /\ timers[s] = 0 /\ timers[o] = 1
    BY <1>1, <2>1, <2>2 DEF ClockOK
  <2>5. timers \in [Users -> Nat]
    BY DEF CenterInv, TypeOK
  <2> QED
    BY <1>1, <2>3, <2>4, <2>5 DEF CancelTimer
<1>3. /\ gameInfo' = [u \in Users |-> IF u \in seats THEN Nil ELSE gameInfo[u]]
      /\ rooms' = [rooms EXCEPT ![rm] = Nil]
  BY <1>1 DEF GameOver, DestroyRoom, Erase
<1> HIDE DEF seats
<1>4. seats = {s, o}
  BY DEF seats
<1>5. \A u \in Users \ seats : gameInfo[u] # Nil => gameInfo[u].room \in Users \ seats
  BY <1>1, <1>4 DEF CenterInv, TypeOK, RoomOK, GameInfo
<1>6. \A u \in Users : /\ u \in seats => gameInfo'[u] = Nil
                       /\ u \notin seats => gameInfo'[u] = gameInfo[u] /\ rooms'[u] = rooms[u]
  BY <1>1, <1>3, <1>4 DEF CenterInv, TypeOK
<1> SUFFICES ASSUME NEW u \in Users
             PROVE  ClockOK!(u)'
  BY DEF ClockOK
<1>7. ClockOK!(u)
  BY DEF ClockOK
<1>8. CASE u \in seats
  BY <1>2, <1>6, <1>8
<1>9. CASE u \notin seats
  BY <1>2, <1>5, <1>6, <1>7, <1>9 DEF IsTurnToPlay, RoomOf
<1> QED
  BY <1>8, <1>9

-----------------------------------------------------------------------------
(* The handlers of a game, called by whoever a connection id stands for.   *)

\* What such a handler leaves to the callers: no Entry moves to another id,
\* and the Entry of a connected client stays, connected.
KeepsCallers ==
  \A i \in ConnIds :
    /\ entrys'[i] \in {entrys[i], Nil}
    /\ entrys[i] # Nil /\ state[entrys[i]] # "kDisconnecteInPlaying" =>
         entrys'[i] = entrys[i] /\ state'[entrys[i]] # "kDisconnecteInPlaying"

KeepsSeats == CenterInv' /\ KeepsCallers /\ sent' \in Seq(HallMessage)
Kept == KeepsSeats /\ (ClockOK => ClockOK')

LEMMA KeptQuietly ==
  ASSUME CenterInv, UNCHANGED <<hallVars, gameVars, links, up>>, sent' \in Seq(HallMessage)
  PROVE  Kept
  BY QuietStep, ClockStays, HallMessages DEF Kept, KeepsSeats, KeepsCallers, CenterInv, TypeOK, hallVars

LEMMA KeptIgnored ==
  ASSUME CenterInv, Ignore \/ Crash
  PROVE  Kept
<1>1. CenterInv'
  BY IgnoreStep
<1>2. entrys' = entrys /\ state' = state /\ sent' = <<>>
  BY DEF Ignore, Crash, hallVars
<1>3. ClockOK => ClockOK'
  BY ClockStays DEF Ignore, Crash
<1> QED
  BY <1>1, <1>2, <1>3 DEF Kept, KeepsSeats, KeepsCallers

LEMMA SeatHasId ==
  ASSUME CenterInv, NEW u \in Users, state[u] # "none"
  PROVE  /\ connId[u] \in ConnIds
         /\ entrys[connId[u]] = u
         /\ entrys[connId[u]] # Nil
         /\ userInfo[u] \in Info
  BY NilAssumption DEF CenterInv, TypeOK, HallOK

LEMMA EntryIsUser ==
  ASSUME CenterInv, NEW i \in ConnIds, entrys[i] # Nil
  PROVE  /\ entrys[i] \in Users
         /\ connId[entrys[i]] = i
         /\ state[entrys[i]] # "none"
  BY NilAssumption DEF CenterInv, TypeOK, HallOK

LEMMA RelayKept ==
  ASSUME CenterInv, NEW o \in Users, state[o] # "none", NEW type \in MessageTypes,
         NEW data \in Body, Relay(o, type, data)
  PROVE  Kept
<1>1. <<Msg("front", connId[o], type, data)>> \in Seq(HallMessage)
  BY SeatHasId, HallMsg DEF Links
<1> QED
  BY <1>1, KeptQuietly, KeptIgnored DEF Relay

LEMMA PassTheMoveSeats ==
  ASSUME CenterInv, NEW s \in Users, NEW fen \in Fens, NEW step \in {1, -1}, gameInfo[s] # Nil,
         PassTheMove(s, FindOppEntry(s), fen, step), sent' \in Seq(HallMessage)
  PROVE  KeepsSeats
<1>1. CenterInv'
  BY PassTheMoveStep, HallMessages
<1>2. entrys' = entrys /\ state' = state
  BY DEF PassTheMove, hallVars
<1> QED
  BY <1>1, <1>2 DEF KeepsSeats, KeepsCallers

LEMMA PassTheMoveKept ==
  ASSUME CenterInv, NEW s \in Users, NEW fen \in Fens, NEW step \in {1, -1},
         gameInfo[s] # Nil, IsTurnToPlay(s),
         PassTheMove(s, FindOppEntry(s), fen, step), sent' \in Seq(HallMessage)
  PROVE  Kept
  BY PassTheMoveSeats, PassTheMoveClock DEF Kept

LEMMA GameOverMsgsTyped ==
  ASSUME CenterInv, NEW s \in Users, NEW over \in OverTypes, gameInfo[s] # Nil
  PROVE  GameOverMsgs(s, FindOppEntry(s), over) \in Seq(HallMessage)
<1> DEFINE o == gameInfo[s].opp
<1>1. /\ o \in Users /\ FindOppEntry(s) = o
      /\ state[s] # "none" /\ state[o] # "none"
  BY OppIsFound DEF IsInRoom
<1>2. SelfInfo(s, over) \in Info /\ OppInfo(o, over) \in Info /\ GetChangeScore(over) \in Int
  BY <1>1, SeatHasId, ResultTyped
<1>3. ASSUME NEW u \in {s, o}, NEW info \in Info
      PROVE  UpdateUserInfoMsg(u, info) \in HallMessage
  <2>1. [username |-> u, info |-> info] \in Body
    BY <1>1, BodyTyped
  <2>2. connId[u] \in ConnIds
    BY <1>1, SeatHasId
  <2> QED
    BY <2>1, <2>2, HallMsg DEF UpdateUserInfoMsg, Links, MessageTypes
<1>4. ASSUME NEW u \in {s, o}, NEW type \in GameOverTypes, NEW change \in Int
      PROVE  GameOverMsg(u, type, change) \in HallMessage
  <2>1. [type |-> type, changescore |-> change] \in Body
    BY BodyTyped
  <2>2. connId[u] \in ConnIds /\ entrys[connId[u]] # Nil
    BY <1>1, SeatHasId
  <2> QED
    BY <2>1, <2>2, HallMsg DEF GameOverMsg, Links, MessageTypes
<1>5. over \in GameOverTypes /\ OppOverType(over) \in GameOverTypes
  BY DEF OverTypes, GameOverTypes, OppOverType, OppResult
<1>6. -GetChangeScore(over) \in Int
  BY <1>2
<1> DEFINE a == UpdateUserInfoMsg(s, SelfInfo(s, over))
           b == UpdateUserInfoMsg(o, OppInfo(o, over))
           c == GameOverMsg(s, over, GetChangeScore(over))
           d == GameOverMsg(o, OppOverType(over), -GetChangeScore(over))
<1>7. a \in HallMessage /\ b \in HallMessage /\ c \in HallMessage /\ d \in HallMessage
  BY <1>2, <1>3, <1>4, <1>5, <1>6
<1>8. GameOverMsgs(s, o, over) = (<<a, b>> \o If(IsOnPlaying(s), <<c>>)) \o If(IsOnPlaying(o), <<d>>)
  BY DEF GameOverMsgs
<1> HIDE DEF a, b, c, d
<1>9. /\ <<a, b>> \in Seq(HallMessage)
      /\ <<c>> \in Seq(HallMessage)
      /\ <<d>> \in Seq(HallMessage)
  BY <1>7
<1>10. /\ If(IsOnPlaying(s), <<c>>) \in Seq(HallMessage)
       /\ If(IsOnPlaying(o), <<d>>) \in Seq(HallMessage)
  BY <1>9, IfTyped
<1> DEFINE x == <<a, b>>
           y == If(IsOnPlaying(s), <<c>>)
           z == If(IsOnPlaying(o), <<d>>)
<1>11. GameOverMsgs(s, o, over) = (x \o y) \o z
  BY <1>8
<1>12. x \in Seq(HallMessage) /\ y \in Seq(HallMessage) /\ z \in Seq(HallMessage)
  BY <1>9, <1>10
<1> HIDE DEF x, y, z
<1>13. x \o y \in Seq(HallMessage)
  BY <1>12, ConcatTyped
<1>14. (x \o y) \o z \in Seq(HallMessage)
  BY <1>12, <1>13, ConcatTyped
<1> QED
  BY <1>1, <1>11, <1>14

LEMMA EndGameSeats ==
  ASSUME CenterInv, NEW s \in Users, NEW over \in OverTypes, NEW ts,
         NEW before \in Seq(HallMessage), ts \in {timers, CancelTimer(timers, s)},
         EndGame(s, over, ts, before)
  PROVE  KeepsSeats
<1> DEFINE o == gameInfo[s].opp
<1>1. CASE Crash
  BY <1>1, KeptIgnored DEF Kept
<1>2. CASE gameInfo[s] # Nil /\ GameOver(s, FindOppEntry(s), over, ts, before)
  <2>1. sent' \in Seq(HallMessage)
    BY <1>2, ConcatTyped, GameOverMsgsTyped DEF GameOver
  <2>2. CenterInv'
    BY <1>2, <2>1, HallMessages, GameOverStep
  <2>3. o \in Users \ {s} /\ FindOppEntry(s) = o /\ IsInRoom(s) /\ IsInRoom(o)
    BY <1>2, OppIsFound
  <2>4. /\ entrys' = [i \in ConnIds |-> IF \E p \in {s, o} : ~IsOnPlaying(p) /\ connId[p] = i
                                          THEN Nil ELSE entrys[i]]
        /\ \A u \in Users : state'[u] \in {"none", "kOnline", state[u]}
    BY <1>2, <2>3 DEF GameOver, DestroyRoom, Leavers
  <2>5. ASSUME NEW i \in ConnIds, entrys[i] # Nil,
               state[entrys[i]] # "kDisconnecteInPlaying",
               NEW p \in {s, o}, ~IsOnPlaying(p), connId[p] = i
        PROVE  FALSE
    <3>1. state[p] = "kDisconnecteInPlaying" /\ p \in Users
      BY <2>3, <2>5 DEF IsInRoom, IsOnPlaying
    <3>2. entrys[i] = p
      BY <2>5, <3>1, SeatHasId
    <3> QED
      BY <2>5, <3>1, <3>2
  <2>6. KeepsCallers
    BY <2>4, <2>5, EntryIsUser DEF KeepsCallers
  <2> QED
    BY <2>1, <2>2, <2>6 DEF KeepsSeats
<1> QED
  BY <1>1, <1>2 DEF EndGame, OppInGame, OppFound, HasOpp

LEMMA EndGameKept ==
  ASSUME CenterInv, NEW s \in Users, NEW over \in OverTypes, NEW ts,
         NEW before \in Seq(HallMessage), gameInfo[s] # Nil,
         \/ ts = timers
         \/ IsTurnToPlay(s) /\ ts = CancelTimer(timers, s),
         EndGame(s, over, ts, before)
  PROVE  Kept
<1>1. KeepsSeats
  BY EndGameSeats
<1>2. ClockOK => ClockOK'
  BY GameOverClock, ClockStays DEF EndGame, Crash
<1> QED
  BY <1>1, <1>2 DEF Kept

\* A room has both seats, so whoever is playing finds the opponent.
LEMMA PlayerHasOpp ==
  ASSUME CenterInv, NEW i \in ConnIds, entrys[i] # Nil, IsInRoom(entrys[i])
  PROVE  /\ gameInfo[entrys[i]] # Nil
         /\ OppInGame(entrys[i])
         /\ OppFound(entrys[i])
         /\ FindOppEntry(entrys[i]) \in Users
         /\ IsInRoom(FindOppEntry(entrys[i]))
  BY EntryIsUser, OppIsFound DEF CenterInv, RoomOK

LEMMA FoundIsInHall ==
  ASSUME CenterInv, NEW i \in ConnIds, entrys[i] # Nil, OppFound(entrys[i])
  PROVE  /\ entrys[i] \in Users
         /\ gameInfo[entrys[i]] # Nil
         /\ FindOppEntry(entrys[i]) \in Users
         /\ state[FindOppEntry(entrys[i])] # "none"
  BY EntryIsUser, OppIsFound DEF OppFound, HasOpp, IsInRoom

LEMMA CancelMatchMsgTyped ==
  ASSUME NEW e \in Users, connId[e] \in ConnIds
  PROVE  <<CancelMatchMsg(e)>> \in Seq(HallMessage)
<1>1. [username |-> e] \in Body
  BY BodyTyped
<1> QED
  BY <1>1, HallMsg DEF CancelMatchMsg, Links, MessageTypes

LEMMA MoveStepKept ==
  ASSUME CenterInv, NEW i \in ConnIds, NEW fen \in Fens, NEW over \in BOOLEAN,
         OnMoveStep(i, fen, over)
  PROVE  Kept
<1> DEFINE s == entrys[i]
           o == FindOppEntry(s)
           relay == If(IsOnPlaying(o), <<Msg("front", connId[o], "MoveStep",
                                              [over |-> over, fen |-> fen])>>)
<1>1. CASE Ignore \/ Crash
  BY <1>1, KeptIgnored
<1>2. ASSUME s # Nil, IsOnPlaying(s), IsTurnToPlay(s)
      PROVE  /\ s \in Users /\ gameInfo[s] # Nil
             /\ relay \in Seq(HallMessage)
  <2>1. s \in Users /\ gameInfo[s] # Nil /\ o \in Users /\ IsInRoom(o)
    BY <1>2, EntryIsUser, PlayerHasOpp DEF IsOnPlaying, IsInRoom
  <2>2. connId[o] \in ConnIds /\ entrys[connId[o]] # Nil
    BY <2>1, SeatHasId DEF IsInRoom
  <2>3. [over |-> over, fen |-> fen] \in Body
    BY BodyTyped
  <2>4. <<Msg("front", connId[o], "MoveStep", [over |-> over, fen |-> fen])>> \in Seq(HallMessage)
    BY <2>2, <2>3, HallMsg DEF Links, MessageTypes
  <2> QED
    BY <2>1, <2>4, IfTyped
<1>3. CASE s # Nil /\ IsOnPlaying(s) /\ IsTurnToPlay(s) /\ EndGame(s, "WIN", timers, relay)
  BY <1>2, <1>3, EndGameKept DEF OverTypes
<1>4. CASE /\ s # Nil /\ IsOnPlaying(s) /\ IsTurnToPlay(s)
           /\ PassTheMove(s, o, fen, 1) /\ sent' = relay
  BY <1>2, <1>4, PassTheMoveKept
<1> QED
  BY <1>1, <1>3, <1>4 DEF OnMoveStep

LEMMA GiveupKept ==
  ASSUME CenterInv, NEW i \in ConnIds, OnGiveup(i)
  PROVE  Kept
<1> DEFINE s == entrys[i]
<1>1. CASE Ignore \/ Crash
  BY <1>1, KeptIgnored
<1>2. CASE s # Nil /\ IsOnPlaying(s) /\ EndGame(s, "SELF_GIVEUP", timers, <<>>)
  <2>1. s \in Users /\ gameInfo[s] # Nil
    BY <1>2, EntryIsUser, PlayerHasOpp DEF IsOnPlaying, IsInRoom
  <2>2. "SELF_GIVEUP" \in OverTypes /\ <<>> \in Seq(HallMessage)
    BY DEF OverTypes
  <2> QED
    BY <1>2, <2>1, <2>2, EndGameKept
<1> QED
  BY <1>1, <1>2 DEF OnGiveup

LEMMA ForgiveRequestKept ==
  ASSUME CenterInv, NEW i \in ConnIds, OnForgiveRequest(i)
  PROVE  Kept
<1> DEFINE s == entrys[i]
           o == FindOppEntry(s)
<1>1. CASE Ignore \/ Crash
  BY <1>1, KeptIgnored
<1>2. CASE s # Nil /\ OppFound(s) /\ Relay(o, "ForgiveRequest", NoBody)
  <2>1. o \in Users /\ state[o] # "none"
    BY <1>2, FoundIsInHall
  <2> QED
    BY <1>2, <2>1, RelayKept, BodyTyped DEF MessageTypes
<1> QED
  BY <1>1, <1>2 DEF OnForgiveRequest

LEMMA ForgiveResponseSeats ==
  ASSUME CenterInv, NEW i \in ConnIds, NEW fen \in Fens, NEW agree \in BOOLEAN,
         OnForgiveResponse(i, agree, fen)
  PROVE  KeepsSeats
<1> DEFINE s == entrys[i]
           o == FindOppEntry(s)
           answer == If(IsOnPlaying(o), <<Msg("front", connId[o], "ForgiveResponse",
                                               [agree |-> TRUE])>>)
<1>1. CASE Ignore \/ Crash
  BY <1>1, KeptIgnored DEF Kept
<1>2. CASE /\ s # Nil /\ OppFound(s) /\ ~agree
           /\ Relay(o, "ForgiveResponse", [agree |-> FALSE])
  <2>1. o \in Users /\ state[o] # "none"
    BY <1>2, FoundIsInHall
  <2>2. [agree |-> FALSE] \in Body
    BY BodyTyped
  <2> QED
    BY <1>2, <2>1, <2>2, RelayKept DEF MessageTypes, Kept
<1>3. CASE /\ s # Nil /\ OppFound(s) /\ agree
           /\ PassTheMove(s, o, fen, -1)
           /\ sent' = answer
  <2>1. s \in Users /\ gameInfo[s] # Nil /\ o \in Users /\ state[o] # "none"
    BY <1>3, FoundIsInHall
  <2>2. connId[o] \in ConnIds /\ entrys[connId[o]] # Nil
    BY <2>1, SeatHasId
  <2>3. [agree |-> TRUE] \in Body
    BY BodyTyped
  <2>4. <<Msg("front", connId[o], "ForgiveResponse", [agree |-> TRUE])>> \in Seq(HallMessage)
    BY <2>2, <2>3, HallMsg DEF Links, MessageTypes
  <2>5. answer \in Seq(HallMessage)
    BY <2>4, IfTyped
  <2> QED
    BY <1>3, <2>1, <2>5, PassTheMoveSeats
<1> QED
  BY <1>1, <1>2, <1>3 DEF OnForgiveResponse

LEMMA ForgiveResponseKept ==
  ASSUME CenterInv, NEW i \in ConnIds, NEW fen \in Fens, NEW agree \in BOOLEAN,
         agree => (gameInfo[entrys[i]] # Nil => IsTurnToPlay(entrys[i])),
         OnForgiveResponse(i, agree, fen)
  PROVE  Kept
<1> DEFINE s == entrys[i]
<1>1. KeepsSeats
  BY ForgiveResponseSeats
<1>2. CASE UNCHANGED gameVars
  BY <1>1, <1>2, ClockStays DEF Kept
<1>3. CASE s # Nil /\ OppFound(s) /\ agree /\ PassTheMove(s, FindOppEntry(s), fen, -1)
  <2>1. s \in Users /\ gameInfo[s] # Nil
    BY <1>3, FoundIsInHall
  <2> QED
    BY <1>1, <1>3, <2>1, PassTheMoveClock DEF Kept
<1> QED
  BY <1>2, <1>3 DEF OnForgiveResponse, Ignore, Crash, Relay

LEMMA DrawRequestKept ==
  ASSUME CenterInv, NEW i \in ConnIds, OnDrawRequest(i)
  PROVE  Kept
<1> DEFINE s == entrys[i]
           o == FindOppEntry(s)
<1>1. CASE Ignore \/ Crash
  BY <1>1, KeptIgnored
<1>2. CASE s # Nil /\ OppFound(s) /\ Relay(o, "DrawRequest", NoBody)
  <2>1. o \in Users /\ state[o] # "none"
    BY <1>2, FoundIsInHall
  <2> QED
    BY <1>2, <2>1, RelayKept, BodyTyped DEF MessageTypes
<1> QED
  BY <1>1, <1>2 DEF OnDrawRequest

LEMMA DrawResponseKept ==
  ASSUME CenterInv, NEW i \in ConnIds, NEW agree \in BOOLEAN, OnDrawResponse(i, agree)
  PROVE  Kept
<1> DEFINE s == entrys[i]
           o == FindOppEntry(s)
<1>1. CASE Ignore \/ Crash
  BY <1>1, KeptIgnored
<1>2. CASE /\ s # Nil /\ OppFound(s)
           /\ Relay(o, "DrawResponse", [agree |-> FALSE])
  <2>1. o \in Users /\ state[o] # "none"
    BY <1>2, FoundIsInHall
  <2>2. [agree |-> FALSE] \in Body
    BY BodyTyped
  <2> QED
    BY <1>2, <2>1, <2>2, RelayKept DEF MessageTypes
<1>3. CASE s # Nil /\ OppFound(s) /\ EndGame(s, "DRAW", timers, <<>>)
  <2>1. s \in Users /\ gameInfo[s] # Nil
    BY <1>3, FoundIsInHall
  <2>2. "DRAW" \in OverTypes /\ <<>> \in Seq(HallMessage)
    BY DEF OverTypes
  <2> QED
    BY <1>3, <2>1, <2>2, EndGameKept
<1> QED
  BY <1>1, <1>2, <1>3 DEF OnDrawResponse

LEMMA TimeOutSeats ==
  ASSUME CenterInv, NEW u \in Users, OnTimeOut(u)
  PROVE  KeepsSeats
<1>1. EndGame(u, "SELF_TIMEOUT", CancelTimer(timers, u), <<>>)
  BY DEF OnTimeOut
<1>2. "SELF_TIMEOUT" \in OverTypes /\ <<>> \in Seq(HallMessage)
  BY DEF OverTypes
<1> QED
  BY <1>1, <1>2, EndGameSeats

LEMMA TimeOutKept ==
  ASSUME CenterInv, ClockOK, NEW u \in Users, OnTimeOut(u)
  PROVE  Kept
<1>1. gameInfo[u] # Nil /\ IsTurnToPlay(u)
  BY DEF ClockOK, OnTimeOut
<1>2. EndGame(u, "SELF_TIMEOUT", CancelTimer(timers, u), <<>>)
  BY DEF OnTimeOut
<1>3. "SELF_TIMEOUT" \in OverTypes /\ <<>> \in Seq(HallMessage)
  BY DEF OverTypes
<1> QED
  BY <1>1, <1>2, <1>3, EndGameKept

-----------------------------------------------------------------------------
(* Matching.                                                               *)

LEMMA MatchRequestKept ==
  ASSUME CenterInv, NEW i \in ConnIds, NEW type \in RoomTypes, OnMatchRequest(i, type)
  PROVE  Kept
<1> DEFINE e == entrys[i]
           msg == Msg("match", i, "MatchBackendRequest",
                      [username |-> e, type |-> type, score |-> userInfo[e].score])
<1>1. CASE Ignore \/ Crash
  BY <1>1, KeptIgnored
<1>2. CASE /\ e # Nil /\ state[e] = "kOnline"
           /\ state' = [state EXCEPT ![e] = "kMatching"]
           /\ sent' = <<msg>>
           /\ UNCHANGED <<entrys, userList, connId, userInfo, gameVars, links, up>>
  <2>1. e \in Users /\ state[e] # "none" /\ userInfo[e] \in Info
    BY <1>2, EntryIsUser, SeatHasId
  <2>2. [username |-> e, type |-> type, score |-> userInfo[e].score] \in Body
    BY <2>1, BodyTyped DEF Info
  <2>3. <<msg>> \in Seq(HallMessage)
    BY <2>2, HallMsg DEF Links, MessageTypes
  <2>4. CenterInv'
    BY <1>2, <2>1, <2>3, StateStep, HallMessages DEF IsInRoom, States
  <2>5. KeepsCallers
    BY <1>2, <2>1, EntryIsUser DEF KeepsCallers, CenterInv, TypeOK
  <2>6. ClockOK => ClockOK'
    BY <1>2, ClockStays
  <2> QED
    BY <1>2, <2>3, <2>4, <2>5, <2>6 DEF Kept, KeepsSeats
<1> QED
  BY <1>1, <1>2 DEF OnMatchRequest

LEMMA CancelMatchRequestKept ==
  ASSUME CenterInv, NEW i \in ConnIds, OnCancelMatchRequest(i)
  PROVE  Kept
<1> DEFINE e == entrys[i]
<1>1. CASE Ignore \/ Crash
  BY <1>1, KeptIgnored
<1>2. CASE /\ e # Nil /\ state[e] = "kMatching"
           /\ state' = [state EXCEPT ![e] = "kOnline"]
           /\ sent' = <<CancelMatchMsg(e)>>
           /\ UNCHANGED <<entrys, userList, connId, userInfo, gameVars, links, up>>
  <2>1. e \in Users /\ state[e] # "none" /\ connId[e] \in ConnIds
    BY <1>2, EntryIsUser, SeatHasId
  <2>2. <<CancelMatchMsg(e)>> \in Seq(HallMessage)
    BY <2>1, CancelMatchMsgTyped
  <2>3. CenterInv'
    BY <1>2, <2>1, <2>2, StateStep, HallMessages DEF IsInRoom, States
  <2>4. KeepsCallers
    BY <1>2, <2>1, EntryIsUser DEF KeepsCallers, CenterInv, TypeOK
  <2>6. ClockOK => ClockOK'
    BY <1>2, ClockStays
  <2> QED
    BY <1>2, <2>2, <2>3, <2>4, <2>6 DEF Kept, KeepsSeats
<1> QED
  BY <1>1, <1>2 DEF OnCancelMatchRequest

LEMMA MatchBackendResponseKept ==
  ASSUME CenterInv, NEW redName \in Users, NEW blackName \in Users \ {redName},
         NEW type \in RoomTypes, OnMatchBackendResponse(redName, blackName, type)
  PROVE  Kept
<1> DEFINE r == FindEntryByUsername(redName)
           b == FindEntryByUsername(blackName)
<1>1. CASE Ignore \/ Crash
  BY <1>1, KeptIgnored
<1>2. CASE /\ r # Nil /\ b # Nil /\ state[r] = "kMatching" /\ state[b] = "kMatching"
           /\ StartNewGame(r, b, type)
  <2>1. r = redName /\ b = blackName
    BY <1>2, NilAssumption DEF CenterInv, TypeOK, HallOK, FindEntryByUsername
  <2> HIDE DEF r, b
  <2>2. ASSUME NEW u \in {r, b}, NEW c \in {"RED", "BLACK"}, NEW w \in {r, b}
        PROVE  MatchResponseMsg(u, c, type, w) \in HallMessage
    <3>1. connId[u] \in ConnIds /\ entrys[connId[u]] # Nil
      BY <1>2, <2>1, SeatHasId
    <3>2. [selftype |-> c, type |-> type, oppuser |-> w] \in Body
      BY <2>1, BodyTyped
    <3> QED
      BY <3>1, <3>2, HallMsg DEF MatchResponseMsg, Links, MessageTypes
  <2>3. sent' \in Seq(HallMessage)
    <3>1. sent' = <<MatchResponseMsg(r, "RED", type, b), MatchResponseMsg(b, "BLACK", type, r)>>
      BY <1>2 DEF StartNewGame
    <3> QED
      BY <2>2, <3>1
  <2>4. CenterInv'
    BY <1>2, <2>1, <2>3, NewGameStep, HallMessages
  <2>5. KeepsCallers
    BY <1>2, <2>1, EntryIsUser DEF StartNewGame, KeepsCallers, CenterInv, TypeOK
  <2>6. ClockOK => ClockOK'
    BY <1>2, <2>1, NewGameClock
  <2> QED
    BY <2>3, <2>4, <2>5, <2>6 DEF Kept, KeepsSeats
<1> QED
  BY <1>1, <1>2 DEF OnMatchBackendResponse

-----------------------------------------------------------------------------
(* The callers.  What a step of the session leaves true of them follows    *)
(* from what the handler keeps and from whom it writes to.                 *)

LEMMA KeptStep ==
  ASSUME IInv, Kept, UNCHANGED login,
         \/ UNCHANGED client
         \/ Learn,
         forgiveAsked' \subseteq ConnIds, drawAsked' \subseteq ConnIds
  PROVE  IInv'
<1>1. ASSUME NEW i \in ConnIds, entrys[i] = Nil, NEW types
      PROVE  i \notin Told(types)
  BY <1>1, HallMessages DEF Kept, KeepsSeats, Told
<1>2. ASSUME NEW i \in ConnIds
      PROVE  /\ client'[i] \in ClientStates
             /\ client'[i] = "open" => client[i] = "open"
             /\ LoggedIn(i)' => LoggedIn(i)
  <2>1. client[i] \in ClientStates /\ (client[i] = "open" => entrys[i] = Nil)
    BY DEF IInv, SessionTypeOK, CallersOK
  <2>2. CASE Learn
    <3>1. client'[i] = CASE client[i] = "closed" -> "closed"
                         [] client[i] # "closed" /\ i \in NewGame -> "game"
                         [] client[i] # "closed" /\ i \in Told({"LoginSuccessResponse"}) -> "hall"
                         [] OTHER -> client[i]
      BY <2>2 DEF Learn
    <3>2. client[i] = "open" => client'[i] = "open"
      BY <1>1, <2>1, <3>1 DEF NewGame
    <3> QED
      BY <2>1, <3>1, <3>2 DEF ClientStates, LoggedIn
  <2> QED
    BY <2>1, <2>2 DEF LoggedIn
<1>3. CallersOK'
  <2> SUFFICES ASSUME NEW i \in ConnIds
               PROVE  CallersOK!(i)'
    BY DEF CallersOK
  <2>1. CallersOK!(i)
    BY DEF IInv, CallersOK
  <2> QED
    BY <1>2, <2>1 DEF Kept, KeepsSeats, KeepsCallers
<1>4. SessionTypeOK'
  <2>1. client' \in [ConnIds -> ClientStates]
    BY <1>2 DEF Learn, IInv, SessionTypeOK
  <2> QED
    BY <2>1 DEF IInv, SessionTypeOK, Kept, KeepsSeats, CenterInv
<1> QED
  BY <1>3, <1>4 DEF IInv, Kept, KeepsSeats, CenterInv

LEMMA IInvIsCenterInv == IInv => CenterInv
  BY DEF IInv, CenterInv, SessionTypeOK

LEMMA OpenConnectionStep ==
  ASSUME IInv, NEW i \in ConnIds, OpenConnection(i)
  PROVE  IInv'
<1>1. CenterInv' /\ UNCHANGED <<entrys, state, login, forgiveAsked, drawAsked>>
  BY IInvIsCenterInv, IgnoreStep DEF OpenConnection, Ignore, hallVars
<1>2. client' = [client EXCEPT ![i] = "open"] /\ entrys[i] = Nil
  BY DEF OpenConnection, ContractFreshId
<1>3. SessionTypeOK'
  BY <1>1, <1>2 DEF IInv, SessionTypeOK, CenterInv, ClientStates
<1>4. CallersOK'
  BY <1>1, <1>2 DEF IInv, SessionTypeOK, CallersOK, LoggedIn
<1>5. ClockOK'
  BY ClockStays DEF IInv, OpenConnection, Ignore
<1> QED
  BY <1>1, <1>3, <1>4, <1>5 DEF IInv, CenterInv

LEMMA CloseConnectionStep ==
  ASSUME IInv, NEW i \in ConnIds, CloseConnection(i)
  PROVE  IInv'
<1> DEFINE e == entrys[i]
           o == FindOppEntry(e)
<1>1. client[i] # "closed" /\ client' = [client EXCEPT ![i] = "closed"] /\ OnDisconnected(i)
      /\ login' = login /\ forgiveAsked' = forgiveAsked \ {i} /\ drawAsked' = drawAsked \ {i}
  BY DEF CloseConnection
<1>2. CenterInv
  BY IInvIsCenterInv
<1>3. e # Nil => e \in Users /\ connId[e] = i /\ state[e] \in {"kOnline", "kMatching", "kPlaying"}
  <2>1. client[i] \in ClientStates
    BY DEF IInv, SessionTypeOK
  <2>2. e # Nil => state[e] # "kDisconnecteInPlaying"
    BY <1>1, <2>1 DEF IInv, CallersOK, LoggedIn, ClientStates
  <2> QED
    BY <1>2, <2>2, EntryIsUser DEF CenterInv, TypeOK, States
\* What the step does to the other connections: nothing.
<1> DEFINE Others == \A j \in ConnIds \ {i} :
                       /\ entrys'[j] = entrys[j]
                       /\ entrys[j] # Nil => state'[entrys[j]] = state[entrys[j]]
<1>4. CASE Ignore \/ Crash
  <2>1. CenterInv'
    BY <1>2, <1>4, IgnoreStep
  <2>2. entrys' = entrys /\ state' = state
    BY <1>4 DEF Ignore, Crash, hallVars
  <2>3. ClockOK'
    BY <1>4, ClockStays DEF IInv, Ignore, Crash
  <2> QED
    BY <1>1, <2>1, <2>2, <2>3
       DEF IInv, SessionTypeOK, CallersOK, CenterInv, LoggedIn, ClientStates
<1>5. ASSUME e # Nil, CenterInv', UNCHANGED gameVars, entrys'[i] \in {Nil, e}, Others
      PROVE  IInv'
  <2>1. SessionTypeOK'
    BY <1>1, <1>5 DEF IInv, SessionTypeOK, CenterInv, ClientStates
  <2>2. CallersOK'
    <3> SUFFICES ASSUME NEW j \in ConnIds
                 PROVE  CallersOK!(j)'
      BY DEF CallersOK
    <3>1. CallersOK!(j)
      BY DEF IInv, CallersOK
    <3>2. client \in [ConnIds -> ClientStates]
      BY DEF IInv, SessionTypeOK
    <3>3. CASE j = i
      BY <1>1, <1>5, <3>1, <3>2, <3>3 DEF LoggedIn
    <3>4. CASE j # i
      BY <1>1, <1>5, <3>1, <3>2, <3>4 DEF LoggedIn
    <3> QED
      BY <3>3, <3>4
  <2>3. ClockOK'
    BY <1>5, ClockStays DEF IInv
  <2> QED
    BY <1>5, <2>1, <2>2, <2>3 DEF IInv, CenterInv
<1>6. ASSUME NEW j \in ConnIds \ {i}, e # Nil, entrys[j] # Nil
      PROVE  entrys[j] # e
  BY <1>2, <1>6, EntryIsUser
<1>7. CASE e # Nil /\ ~IsInRoom(e) /\ OutOfHall(e) /\ sent' \in Seq(Message)
           /\ UNCHANGED <<gameVars, links, up>>
  <2>1. CenterInv'
    BY <1>2, <1>3, <1>7, OutOfHallStep
  <2>2. entrys'[i] = Nil /\ Others
    BY <1>2, <1>3, <1>6, <1>7 DEF OutOfHall, Erase, CenterInv, TypeOK
  <2> QED
    BY <1>5, <1>7, <2>1, <2>2
<1>8. CASE /\ e # Nil /\ IsOnPlaying(e) /\ OppFound(e)
           /\ state' = [state EXCEPT ![e] = "kDisconnecteInPlaying"]
           /\ sent' = If(IsOnPlaying(o) /\ o # e,
                         <<Msg("front", connId[o], "OppDisconnected", NoBody)>>)
           /\ UNCHANGED <<entrys, userList, connId, userInfo, gameVars, links, up>>
  <2>1. o \in Users /\ state[o] # "none"
    BY <1>2, <1>8, FoundIsInHall
  <2>2. connId[o] \in ConnIds
    BY <1>2, <2>1, SeatHasId
  <2>3. <<Msg("front", connId[o], "OppDisconnected", NoBody)>> \in Seq(Message)
    BY <2>2, PlainMsg, BodyTyped DEF Links, MessageTypes
  <2>4. sent' \in Seq(Message)
    BY <1>8, <2>3, IfTyped
  <2>5. CenterInv'
    BY <1>2, <1>3, <1>8, <2>4, StateStep DEF IsOnPlaying, IsInRoom, States
  <2>6. Others
    BY <1>2, <1>3, <1>6, <1>8 DEF CenterInv, TypeOK
  <2> QED
    BY <1>5, <1>8, <2>5, <2>6
<1>9. CASE e # Nil /\ state[e] = "kMatching" /\ OutOfHall(e) /\ sent' = <<CancelMatchMsg(e)>>
           /\ UNCHANGED <<gameVars, links, up>>
  <2>1. <<CancelMatchMsg(e)>> \in Seq(Message)
    BY <1>3, <1>9, CancelMatchMsgTyped, HallMessages
  <2> QED
    BY <1>7, <1>9, <2>1 DEF IsInRoom
<1>10. CASE e # Nil /\ state[e] \notin {"kMatching", "kPlaying"} /\ OutOfHall(e) /\ sent' = <<>>
            /\ UNCHANGED <<gameVars, links, up>>
  <2>1. ~IsInRoom(e) /\ <<>> \in Seq(Message)
    BY <1>3, <1>10 DEF IsInRoom
  <2> QED
    BY <1>7, <1>10, <2>1
<1> QED
  BY <1>1, <1>4, <1>8, <1>9, <1>10 DEF OnDisconnected

\* Nothing but what is sent, and to whom a login is owed, changes.
LEMMA QuietSession ==
  ASSUME IInv, UNCHANGED <<hallVars, gameVars, client, forgiveAsked, drawAsked>>,
         links' \subseteq Links, up' \in BOOLEAN, sent' \in Seq(Message),
         login' \in [ConnIds -> SUBSET Users],
         \A i \in ConnIds : \/ login'[i] \subseteq login[i]
                            \/ \E u \in Users : client[i] = "open" /\ login'[i] = {u}
  PROVE  IInv'
<1>1. CenterInv'
  BY IInvIsCenterInv, QuietStep
<1>2. SessionTypeOK'
  BY <1>1 DEF IInv, SessionTypeOK, CenterInv
<1>3. CallersOK'
  BY DEF IInv, CallersOK, LoggedIn, hallVars
<1>4. ClockOK'
  BY ClockStays DEF IInv
<1> QED
  BY <1>1, <1>2, <1>3, <1>4 DEF IInv, CenterInv

LEMMA AskLoginStep ==
  ASSUME IInv, NEW i \in ConnIds, NEW u \in Users, AskLogin(i, u)
  PROVE  IInv'
<1>1. /\ UNCHANGED <<hallVars, gameVars, links, client, forgiveAsked, drawAsked>>
      /\ client[i] = "open" /\ login[i] \subseteq {u}
      /\ login' = [login EXCEPT ![i] = @ \cup {u}]
  BY DEF AskLogin, ContractOneName, OnLoginRequest, Crash
<1>2. [username |-> u] \in Body
  BY BodyTyped
<1>3. sent' \in Seq(Message)
  <2>1. <<Msg("login", i, "LoginRequest", [username |-> u])>> \in Seq(Message)
    BY <1>2, PlainMsg DEF Links, MessageTypes
  <2>2. \/ sent' = <<Msg("login", i, "LoginRequest", [username |-> u])>>
        \/ sent' = <<>>
    BY DEF AskLogin, OnLoginRequest, Crash
  <2> QED
    BY <2>1, <2>2, EmptyTyped
<1>4. up' \in BOOLEAN /\ links' \subseteq Links
  BY <1>1 DEF AskLogin, OnLoginRequest, Crash, IInv, SessionTypeOK, TypeOK
<1>5. login' \in [ConnIds -> SUBSET Users] /\ login'[i] = {u}
      /\ \A j \in ConnIds \ {i} : login'[j] = login[j]
  BY <1>1 DEF IInv, SessionTypeOK
<1> QED
  BY <1>1, <1>3, <1>4, <1>5, QuietSession

LEMMA AnsweredTyped ==
  ASSUME IInv, NEW i \in ConnIds, NEW u \in Users, NEW more \in BOOLEAN, Answered(i, u, more)
  PROVE  /\ login' \in [ConnIds -> SUBSET Users]
         /\ \A j \in ConnIds : login'[j] \subseteq login[j]
  BY DEF IInv, SessionTypeOK, Answered

LEMMA LoginFailsStep ==
  ASSUME IInv, NEW i \in ConnIds, NEW u \in Users, NEW more \in BOOLEAN, LoginFails(i, u, more)
  PROVE  IInv'
<1>1. /\ UNCHANGED <<hallVars, gameVars, links, client, forgiveAsked, drawAsked>>
      /\ up' \in BOOLEAN
  BY DEF LoginFails, OnLoginFailedResponse, Crash, IInv, SessionTypeOK, TypeOK
<1>2. sent' \in Seq(Message)
  <2>1. [reason |-> "VERTIFY_ERROR"] \in Body
    BY BodyTyped
  <2>2. <<Msg("front", i, "LoginFailedResponse", [reason |-> "VERTIFY_ERROR"])>> \in Seq(Message)
    BY <2>1, PlainMsg DEF Links, MessageTypes
  <2>3. \/ sent' = <<Msg("front", i, "LoginFailedResponse", [reason |-> "VERTIFY_ERROR"])>>
        \/ sent' = <<>>
    BY DEF LoginFails, OnLoginFailedResponse, Crash
  <2> QED
    BY <2>2, <2>3, EmptyTyped
<1>3. links' \subseteq Links
  BY <1>1 DEF IInv, SessionTypeOK, TypeOK
<1> QED
  BY <1>1, <1>2, <1>3, AnsweredTyped, QuietSession DEF LoginFails

\* What the client makes of an answer: the one it is for may be let in, and
\* nobody else is told anything about a login or a game.
LEMMA LetIn ==
  ASSUME IInv, CenterInv', ClockOK', NEW i \in ConnIds, NEW u \in Users, u \in login[i],
         entrys[i] = Nil, entrys'[i] = u, state'[u] # "kDisconnecteInPlaying",
         \A j \in ConnIds \ {i} :
           \/ entrys'[j] = entrys[j] /\ (entrys[j] # Nil => state'[entrys[j]] = state[entrys[j]])
           \/ entrys'[j] = Nil /\ entrys[j] # Nil /\ state[entrys[j]] = "kDisconnecteInPlaying",
         \A k \in DOMAIN sent' : sent'[k].id # i => entrys[sent'[k].id] # Nil,
         i \in NewGame \cup Told({"LoginSuccessResponse"}),
         login' \in [ConnIds -> SUBSET Users],
         \A j \in ConnIds : login'[j] \subseteq login[j],
         Hear
  PROVE  IInv'
<1>1. \A j \in ConnIds : client[j] \in ClientStates
  BY DEF IInv, SessionTypeOK
<1>2. ASSUME NEW j \in ConnIds
      PROVE  client'[j] = CASE client[j] = "closed" -> "closed"
                            [] client[j] # "closed" /\ j \in NewGame -> "game"
                            [] client[j] # "closed" /\ j \in Told({"LoginSuccessResponse"}) -> "hall"
                            [] OTHER -> client[j]
  BY DEF Hear, Learn
<1>3. SessionTypeOK'
  <2>1. client' \in [ConnIds -> ClientStates]
    BY <1>1, <1>2 DEF Hear, Learn, ClientStates
  <2>2. forgiveAsked' \subseteq ConnIds /\ drawAsked' \subseteq ConnIds
    BY DEF Hear, Asked, Told, IInv, SessionTypeOK
  <2> QED
    BY <2>1, <2>2 DEF CenterInv, SessionTypeOK
<1>4. CallersOK'
  <2> SUFFICES ASSUME NEW j \in ConnIds
               PROVE  CallersOK!(j)'
    BY DEF CallersOK
  <2>1. CallersOK!(j) /\ CallersOK!(i)
    BY DEF IInv, CallersOK
  <2>2. u # Nil
    BY NilAssumption
  <2>3. CASE j = i
    <3>1. client'[i] # "open"
      BY <1>1, <1>2
    <3>2. login'[i] \subseteq {u}
      BY <2>1
    <3> QED
      BY <2>1, <2>2, <2>3, <3>1, <3>2
  <2>4. CASE j # i
    <3>1. entrys[j] = Nil => \A types : j \notin Told(types)
      BY <2>4 DEF Told
    <3>2. /\ client'[j] = "open" => client[j] = "open"
          /\ LoggedIn(j)' => LoggedIn(j)
      <4>1. client[j] = "open" => client'[j] = "open"
        BY <1>2, <2>1, <3>1 DEF NewGame
      <4> QED
        BY <1>1, <1>2, <4>1 DEF LoggedIn, ClientStates
    <3> QED
      BY <2>1, <2>4, <3>2
  <2> QED
    BY <2>3, <2>4
<1> QED
  BY <1>3, <1>4 DEF IInv, CenterInv

LEMMA LoginSucceedsStep ==
  ASSUME IInv, NEW i \in ConnIds, NEW u \in Users, NEW info \in LoginInfos,
         NEW more \in BOOLEAN, LoginSucceeds(i, u, info, more)
  PROVE  IInv'
<1> DEFINE oldId == userList[u]
           e == entrys[oldId]
<1>1. /\ u \in login[i] /\ OnLoginSuccessResponse(i, u, info)
      /\ Answered(i, u, more) /\ Hear
      /\ info \in Info
  BY SessionAssumption DEF LoginSucceeds
<1>2. CenterInv
  BY IInvIsCenterInv
<1>3. /\ entrys[i] # Nil => entrys[i] = u /\ oldId = i
      /\ oldId # Nil => oldId \in ConnIds /\ e = u /\ connId[u] = oldId /\ state[u] # "none"
      /\ u # Nil
  BY <1>1, <1>2, NilAssumption DEF IInv, CallersOK, CenterInv, TypeOK, HallOK
<1>4. /\ login' \in [ConnIds -> SUBSET Users]
      /\ \A j \in ConnIds : login'[j] \subseteq login[j]
  BY <1>1, AnsweredTyped
<1>10. ASSUME UNCHANGED gameVars
       PROVE  ClockOK'
  BY <1>10, ClockStays DEF IInv
<1>5. ASSUME UNCHANGED <<hallVars, gameVars, links>>, up' \in BOOLEAN,
             sent' \in Seq(Message), Told({"MatchResponse", "GameSituation"}) = {},
             Told({"LoginSuccessResponse"}) = {}, Told({"ForgiveRequest"}) = {},
             Told({"DrawRequest"}) = {}
      PROVE  IInv'
  <2>1. UNCHANGED <<client, forgiveAsked, drawAsked>>
    BY <1>1, <1>5 DEF Hear, Learn, NewGame, Asked, IInv, SessionTypeOK
  <2>2. links' \subseteq Links
    BY <1>5 DEF IInv, SessionTypeOK, TypeOK
  <2> QED
    BY <1>4, <1>5, <2>1, <2>2, QuietSession
<1>6. CASE Ignore \/ Crash
  <2>1. /\ UNCHANGED <<hallVars, gameVars, links>> /\ up' \in BOOLEAN /\ sent' = <<>>
    BY <1>6 DEF Ignore, Crash, IInv, SessionTypeOK, TypeOK
  <2>2. \A types : Told(types) = {}
    BY <2>1 DEF Told
  <2> QED
    BY <1>5, <2>1, <2>2, EmptyTyped
<1>7. CASE /\ oldId = Nil
           /\ IntoHall(i, u, info)
           /\ sent' = <<Msg("front", i, "LoginSuccessResponse", [username |-> u, info |-> info])>>
           /\ UNCHANGED <<gameVars, links, up>>
  <2>1. entrys[i] = Nil
    BY <1>3, <1>7, NilAssumption
  <2>2. [username |-> u, info |-> info] \in Body
    BY <1>1, BodyTyped
  <2>3. sent' \in Seq(Message)
    BY <1>7, <2>2, PlainMsg DEF Links, MessageTypes
  <2>4. CenterInv'
    BY <1>1, <1>2, <1>7, <2>1, <2>3, IntoHallStep
  <2>5. /\ entrys' = [entrys EXCEPT ![i] = u]
        /\ state' = [state EXCEPT ![u] = "kOnline"]
    BY <1>7, <2>1 DEF IntoHall, Insert
  <2>6. ASSUME NEW j \in ConnIds
        PROVE  entrys[j] # u
    BY <1>2, <1>7, NilAssumption DEF CenterInv, TypeOK, HallOK
  <2>7. /\ entrys'[i] = u /\ state'[u] = "kOnline"
        /\ \A j \in ConnIds \ {i} :
             entrys'[j] = entrys[j] /\ (entrys[j] # Nil => state'[entrys[j]] = state[entrys[j]])
    BY <1>2, <2>5, <2>6 DEF CenterInv, TypeOK
  <2>8. \A k \in DOMAIN sent' : sent'[k].id = i
    BY <1>7 DEF Msg
  <2>9. i \in Told({"LoginSuccessResponse"})
    BY <1>7 DEF Told, Msg
  <2> QED
    BY <1>1, <1>4, <1>10, <2>1, <2>4, <2>7, <2>8, <2>9, <1>7, LetIn
<1>8. CASE /\ oldId \notin {Nil, i} /\ e # Nil
           /\ sent' = <<Msg("front", i, "LoginFailedResponse", [reason |-> "MULTI_LOGIN"])>>
           /\ UNCHANGED <<hallVars, gameVars, links, up>>
  <2>1. [reason |-> "MULTI_LOGIN"] \in Body
    BY BodyTyped
  <2>2. sent' \in Seq(Message)
    BY <1>8, <2>1, PlainMsg DEF Links, MessageTypes
  <2>3. \A types : "LoginFailedResponse" \notin types => Told(types) = {}
    BY <1>8 DEF Told, Msg
  <2>4. up' \in BOOLEAN
    BY <1>8 DEF IInv, SessionTypeOK, TypeOK
  <2> QED
    BY <1>5, <1>8, <2>2, <2>3, <2>4
<1>9. CASE /\ oldId \notin {Nil, i} /\ e # Nil
           /\ state[e] = "kDisconnecteInPlaying"
           /\ OnReconnected(i, oldId, e)
           /\ ~Crash
  <2> DEFINE opp == gameInfo[u].opp
             told == If(IsOnPlaying(opp), <<Msg("front", connId[opp], "OppReconnected", NoBody)>>)
             movedEntrys == Insert(Erase(entrys, oldId), i, u)
  <2>1. /\ e = u /\ entrys[i] = Nil /\ oldId \in ConnIds \ {i} /\ connId[u] = oldId
        /\ state[u] = "kDisconnecteInPlaying"
    BY <1>3, <1>9
  <2>2. gameInfo[u] # Nil
    BY <1>2, <2>1 DEF CenterInv, RoomOK, IsInRoom
  <2>3. /\ opp \in Users \ {u} /\ connId[opp] \in ConnIds \ {i, oldId}
        /\ entrys[connId[opp]] = opp /\ opp # Nil
    <3>1. opp \in Users \ {u} /\ state[opp] # "none"
      BY <1>2, <2>2, OppIsFound DEF IsInRoom
    <3>2. connId[opp] \in ConnIds /\ entrys[connId[opp]] = opp
      BY <1>2, <3>1, SeatHasId
    <3> QED
      BY <2>1, <3>1, <3>2, NilAssumption
  <2>4. movedEntrys = [[entrys EXCEPT ![oldId] = Nil] EXCEPT ![i] = u]
    BY <1>2, <2>1 DEF Insert, Erase, CenterInv, TypeOK
  <2>5. movedEntrys[connId[opp]] = opp
    BY <1>2, <2>3, <2>4 DEF CenterInv, TypeOK
  <2>6. /\ entrys' = movedEntrys
        /\ userList' = Insert(Erase(userList, u), u, i)
        /\ connId' = [connId EXCEPT ![u] = i]
        /\ state' = [state EXCEPT ![u] = "kPlaying"]
        /\ sent' = told \o <<SituationMsg(u, i)>>
        /\ UNCHANGED <<userInfo, gameVars, links, up>>
    BY <1>9, <2>1, <2>5 DEF OnReconnected
  <2>7. <<SituationMsg(u, i)>> \in Seq(Message) /\ SituationMsg(u, i) \in Message
    <3>1. /\ gameInfo[u] \in GameInfo /\ RoomOf(u) \in RoomInfo
      BY <1>2, <2>2, NilAssumption DEF CenterInv, TypeOK, RoomOK, RoomOf, GameInfo
    <3>2. [red |-> gameInfo[u].type = "kRed", fen |-> RoomOf(u).fen,
           roomtype |-> RoomOf(u).type, turntome |-> IsTurnToPlay(u)] \in Body
      BY <3>1, BodyTyped DEF RoomInfo, IsTurnToPlay
    <3> QED
      BY <3>2, PlainMsg DEF SituationMsg, Links, MessageTypes
  <2>8. told \in Seq(HallMessage) /\ told \in Seq(Message)
    <3>1. <<Msg("front", connId[opp], "OppReconnected", NoBody)>> \in Seq(HallMessage)
      BY <2>3, HallMsg, BodyTyped DEF Links, MessageTypes
    <3>2. told \in Seq(HallMessage)
      BY <3>1, IfTyped
    <3> QED
      BY <3>2, HallMessages
  <2>9. sent' \in Seq(Message)
    BY <2>6, <2>7, <2>8, ConcatTyped
  <2>10. CenterInv'
    <3>1. connId[u] # Nil /\ IsInRoom(u)
      BY <2>1, <1>9 DEF IsInRoom
    <3>2. entrys' = Insert(Erase(entrys, connId[u]), i, u)
      BY <2>1, <2>6
    <3> QED
      BY <1>2, <2>1, <2>6, <2>9, <3>1, <3>2, ReconnectedStep
  <2>11. \A j \in ConnIds \ {i} :
           \/ entrys'[j] = entrys[j] /\ (entrys[j] # Nil => state'[entrys[j]] = state[entrys[j]])
           \/ entrys'[j] = Nil /\ entrys[j] # Nil /\ state[entrys[j]] = "kDisconnecteInPlaying"
    <3>1. entrys' \in [ConnIds -> Users \cup {Nil}] /\ entrys'[oldId] = Nil
          /\ \A j \in ConnIds \ {i, oldId} : entrys'[j] = entrys[j]
      BY Zenon, <1>2, <2>1, <2>4, <2>6 DEF CenterInv, TypeOK
    <3>2. \A j \in ConnIds \ {oldId} : entrys[j] # u
      BY <1>2, <2>1, <1>3 DEF CenterInv, HallOK
    <3> QED
      BY <1>2, <1>9, <2>1, <2>6, <3>1, <3>2 DEF CenterInv, TypeOK
  <2>12. entrys'[i] = u /\ state'[u] = "kPlaying"
    BY <1>2, <2>4, <2>6 DEF CenterInv, TypeOK
  <2>13. \A k \in DOMAIN sent' : sent'[k].id # i => entrys[sent'[k].id] # Nil
    BY <2>3, <2>6 DEF If, Msg, SituationMsg
  <2>14. i \in NewGame
    BY <2>6 DEF If, Msg, SituationMsg, NewGame, Told
  <2> QED
    BY Zenon, <1>1, <1>4, <1>10, <2>1, <2>6, <2>10, <2>11, <2>12, <2>13, <2>14, LetIn
<1> QED
  BY <1>1, <1>6, <1>7, <1>8, <1>9 DEF OnLoginSuccessResponse

-----------------------------------------------------------------------------
(* The whole.                                                              *)

LEMMA InitIInv == Init => IInv
<1> SUFFICES ASSUME Init PROVE IInv
  OBVIOUS
<1> USE DEF Init, CenterInit
<1>1. SessionTypeOK
  BY EmptyTyped DEF SessionTypeOK, TypeOK, States, ClientStates
<1>2. HallOK /\ RoomOK /\ ClockOK /\ CallersOK
  BY DEF HallOK, RoomOK, ClockOK, CallersOK, IsInRoom, LoggedIn
<1> QED
  BY <1>1, <1>2 DEF IInv

LEMMA PlayStep ==
  ASSUME IInv, Kept, Hear, UNCHANGED login
  PROVE  IInv'
  BY KeptStep DEF Hear, Asked, Told, IInv, SessionTypeOK

LEMMA AnswerStep ==
  ASSUME IInv, Kept, UNCHANGED <<client, login>>,
         forgiveAsked' \subseteq forgiveAsked, drawAsked' \subseteq drawAsked
  PROVE  IInv'
  BY KeptStep DEF IInv, SessionTypeOK

LEMMA NextIInv == IInv /\ [Next]_vars => IInv'
<1> SUFFICES ASSUME IInv, [Next]_vars PROVE IInv'
  OBVIOUS
<1> USE IInvIsCenterInv
<1>1. CASE UNCHANGED vars
  BY <1>1 DEF vars, centerVars, sessionVars, hallVars, gameVars, IInv, SessionTypeOK, TypeOK,
              HallOK, RoomOK, ClockOK, CallersOK, IsInRoom, RoomOf, IsTurnToPlay, LoggedIn
<1>2. ASSUME NEW i \in ConnIds, OpenConnection(i) \/ CloseConnection(i)
      PROVE  IInv'
  BY <1>2, OpenConnectionStep, CloseConnectionStep
<1>3. ASSUME NEW i \in ConnIds, NEW u \in Users, AskLogin(i, u)
      PROVE  IInv'
  BY <1>3, AskLoginStep
<1>4. ASSUME NEW i \in ConnIds, NEW u \in Users, NEW info \in LoginInfos, NEW more \in BOOLEAN,
             LoginSucceeds(i, u, info, more)
      PROVE  IInv'
  BY <1>4, LoginSucceedsStep
<1>5. ASSUME NEW i \in ConnIds, NEW u \in Users, NEW more \in BOOLEAN, LoginFails(i, u, more)
      PROVE  IInv'
  BY <1>5, LoginFailsStep
<1>6. ASSUME NEW l \in Flaky, LinkDown(l) \/ LinkUp(l)
      PROVE  IInv'
  <2>1. /\ UNCHANGED <<hallVars, gameVars, sessionVars, up>> /\ sent' = <<>>
        /\ links' \in {links \cup {l}, links \ {l}}
    BY <1>6 DEF LinkDown, LinkUp, OnConnection, OnDisconnection
  <2>2. links' \subseteq Links /\ up' \in BOOLEAN
    BY <2>1, SessionAssumption DEF IInv, SessionTypeOK, TypeOK
  <2>3. login' \in [ConnIds -> SUBSET Users]
    BY <2>1 DEF sessionVars, IInv, SessionTypeOK
  <2> QED
    BY <2>1, <2>2, <2>3, QuietSession, EmptyTyped DEF sessionVars
<1>7. ASSUME NEW i \in ConnIds, NEW type \in RoomTypes, AskMatch(i, type)
      PROVE  IInv'
  BY <1>7, MatchRequestKept, AnswerStep DEF AskMatch, sessionVars
<1>8. ASSUME NEW i \in ConnIds, CancelMatch(i)
      PROVE  IInv'
  BY <1>8, CancelMatchRequestKept, AnswerStep DEF CancelMatch, sessionVars
<1>9. ASSUME NEW r \in Users, NEW b \in Users, NEW type \in RoomTypes, MatchFound(r, b, type)
      PROVE  IInv'
  BY <1>9, MatchBackendResponseKept, PlayStep DEF MatchFound
<1>10. ASSUME NEW i \in ConnIds, NEW fen \in Fens, NEW over \in BOOLEAN, Move(i, fen, over)
       PROVE  IInv'
  BY <1>10, MoveStepKept, PlayStep DEF Move
<1>11. ASSUME NEW i \in ConnIds, Giveup(i)
       PROVE  IInv'
  BY <1>11, GiveupKept, PlayStep DEF Giveup
<1>12. ASSUME NEW i \in ConnIds, AskForgive(i)
       PROVE  IInv'
  BY <1>12, ForgiveRequestKept, PlayStep DEF AskForgive
<1>13. ASSUME NEW i \in ConnIds, AskDraw(i)
       PROVE  IInv'
  BY <1>13, DrawRequestKept, PlayStep DEF AskDraw
<1>14. ASSUME NEW i \in ConnIds, NEW agree \in BOOLEAN, NEW fen \in Fens,
              AnswerForgive(i, agree, fen)
       PROVE  IInv'
  BY <1>14, ForgiveResponseKept, AnswerStep DEF AnswerForgive, ContractTakeBack
<1>15. ASSUME NEW i \in ConnIds, NEW agree \in BOOLEAN, AnswerDraw(i, agree)
       PROVE  IInv'
  BY <1>15, DrawResponseKept, AnswerStep DEF AnswerDraw
<1>16. ASSUME NEW u \in Users, TimeOut(u)
       PROVE  IInv'
  BY <1>16, TimeOutKept, AnswerStep DEF TimeOut, sessionVars, IInv
<1> QED
  BY <1>1, <1>2, <1>3, <1>4, <1>5, <1>6, <1>7, <1>8, <1>9, <1>10, <1>11, <1>12, <1>13,
     <1>14, <1>15, <1>16 DEF Next

LEMMA Invariance == Spec => []IInv
  BY InitIInv, NextIInv, PTL DEF Spec

\* Every variable, and everything the center sends, has its type.
THEOREM TypesHold == Spec => []SessionTypeOK
  BY Invariance, PTL DEF IInv

\* The hall's maps agree with the Entries, whatever connections come, go and
\* log in, in whatever order the answers arrive.
THEOREM HallIsSound == Spec => []HallOK
  BY Invariance, PTL DEF IInv

\* Every game has its two seats and its room, and nobody else has one:
\* following oppPlayer never leads to an Entry that is gone.
THEOREM RoomsAreSound == Spec => []RoomOK
  BY Invariance, PTL DEF IInv

\* In every game exactly the clock of the player on the move runs.
THEOREM ClocksAreSound == Spec => []ClockOK
  BY Invariance, PTL DEF IInv

\* The front, the login server and the clients always address the Entry they
\* mean, as long as the contract clauses hold.
THEOREM CallersAreSound == Spec => []CallersOK
  BY Invariance, PTL DEF IInv

\* A second answer for a connection that is already logged in finds the user
\* under that very connection and changes nothing.
THEOREM RepeatedLoginsAreIgnored == Spec => RepeatedLoginIgnored
<1> DEFINE A == \A i \in ConnIds, u \in Users :
                  LoggedIn(i)
                    /\ (\E info \in LoginInfos, more \in BOOLEAN : LoginSucceeds(i, u, info, more))
                  => UNCHANGED <<hallVars, gameVars>> /\ sent' = <<>>
<1>1. ASSUME IInv
      PROVE  A
  <2> SUFFICES ASSUME NEW i \in ConnIds, NEW u \in Users, NEW info \in LoginInfos,
                      NEW more \in BOOLEAN, LoginSucceeds(i, u, info, more), LoggedIn(i)
               PROVE  UNCHANGED <<hallVars, gameVars>> /\ sent' = <<>>
    OBVIOUS
  <2>1. entrys[i] = u /\ userList[u] = i
    BY <1>1, NilAssumption DEF IInv, CallersOK, HallOK, LoginSucceeds
  <2>2. i # Nil
    BY NilAssumption
  <2>3. Ignore
    BY <2>1, <2>2 DEF LoginSucceeds, OnLoginSuccessResponse
  <2> QED
    BY <2>3 DEF Ignore
<1>2. IInv => [A]_vars
  BY <1>1
<1>3. Spec => [][A]_vars
  BY <1>2, Invariance, PTL
<1> QED
  BY <1>3 DEF RepeatedLoginIgnored

-----------------------------------------------------------------------------
(* CenterSession implements Lobby: every step of the center is a step of   *)
(* Lobby on the states and the seats, or leaves them alone.  The inductive *)
(* invariant says which seats there are; that no third player's room is    *)
(* touched is the main part of the argument.                               *)

Promised == [L!Next]_(L!vars)

-----------------------------------------------------------------------------
(* Steps that leave states and seats alone, and steps of one user.         *)

LEMMA SameSeats ==
  ASSUME UNCHANGED <<gameInfo, rooms>>
  PROVE  SeatOf' = SeatOf
  BY DEF SeatOf, IsTurnToPlay, RoomOf

LEMMA Stutters ==
  ASSUME UNCHANGED <<state, gameInfo, rooms>>
  PROVE  Promised
  BY SameSeats DEF Promised, L!vars

LEMMA IgnoredStutters ==
  ASSUME Ignore \/ Crash
  PROVE  Promised
  BY Stutters DEF Ignore, Crash, hallVars, gameVars

LEMMA RelayStutters ==
  ASSUME NEW o, NEW type, NEW data, Relay(o, type, data)
  PROVE  Promised
  BY Stutters, IgnoredStutters DEF Relay, hallVars, gameVars

LEMMA OneGoes ==
  ASSUME NEW u \in Users, NEW to, UNCHANGED gameVars,
         state' = [state EXCEPT ![u] = to],
         \/ state[u] = "none" /\ to = "kOnline"
         \/ state[u] \in {"kOnline", "kMatching"} /\ to = "none"
         \/ state[u] = "kOnline" /\ to = "kMatching"
         \/ state[u] = "kMatching" /\ to = "kOnline"
         \/ state[u] = "kPlaying" /\ to = "kDisconnecteInPlaying"
         \/ state[u] = "kDisconnecteInPlaying" /\ to = "kPlaying"
  PROVE  Promised
<1>1. SeatOf' = SeatOf
  BY SameSeats DEF gameVars
<1>2. \/ L!Enter(u) \/ L!Leave(u) \/ L!Seek(u) \/ L!Cancel(u) \/ L!Drop(u) \/ L!Return(u)
  BY <1>1 DEF L!Enter, L!Leave, L!Seek, L!Cancel, L!Drop, L!Return, L!Goes
<1> QED
  BY <1>2 DEF Promised, L!Next

-----------------------------------------------------------------------------
(* Steps of a game.                                                        *)

\* Nobody else's seat is in this game's room.
LEMMA ThirdPlayer ==
  ASSUME CenterInv, NEW s \in Users, gameInfo[s] # Nil,
         NEW u \in Users \ {s, gameInfo[s].opp}, gameInfo[u] # Nil
  PROVE  gameInfo[u].room # gameInfo[s].room
  BY OppIsFound DEF CenterInv, RoomOK

LEMMA SeatIsNotNil ==
  ASSUME CenterInv, NEW u \in Users, gameInfo[u] # Nil
  PROVE  /\ SeatOf[u] # Nil
         /\ SeatOf[u].opp = gameInfo[u].opp
         /\ SeatOf[u].onMove = IsTurnToPlay(u)
<1>1. /\ SeatOf[u] = [opp |-> gameInfo[u].opp, onMove |-> IsTurnToPlay(u)]
      /\ gameInfo[u].opp \in Users /\ IsTurnToPlay(u) \in BOOLEAN
  BY OppIsFound DEF SeatOf, IsTurnToPlay
<1>2. SeatOf[u] \in L!Seat
  BY <1>1 DEF L!Seat
<1> QED
  BY <1>1, <1>2, SeatAssumption

LEMMA GameStarts ==
  ASSUME CenterInv, NEW r \in Users, NEW b \in Users, r # b, NEW type \in RoomTypes,
         state[r] = "kMatching", state[b] = "kMatching", StartNewGame(r, b, type)
  PROVE  Promised
<1>1. gameInfo[r] = Nil /\ gameInfo[b] = Nil /\ rooms[r] = Nil
  BY DEF CenterInv, RoomOK, IsInRoom
<1> DEFINE red == [type |-> "kRed", opp |-> b, room |-> r]
           black == [type |-> "kBlack", opp |-> r, room |-> r]
           room == [type |-> type, timer |-> r, fen |-> Nil, totalSteps |-> 0]
<1>2. red # Nil /\ black # Nil
  <2>1. red \in GameInfo /\ black \in GameInfo
    BY DEF GameInfo, PlayerTypes
  <2> QED
    BY <2>1, NilAssumption
<1>3. /\ gameInfo' = [gameInfo EXCEPT ![r] = red, ![b] = black]
      /\ rooms' = [rooms EXCEPT ![r] = room]
      /\ state' = [state EXCEPT ![r] = "kPlaying", ![b] = "kPlaying"]
  BY DEF StartNewGame
<1>4. gameInfo'[r] = red /\ gameInfo'[b] = black /\ rooms'[r] = room
  BY <1>3 DEF CenterInv, TypeOK
<1>5. IsTurnToPlay(r)' = TRUE /\ IsTurnToPlay(b)' = FALSE
  BY <1>4 DEF IsTurnToPlay, RoomOf
<1>6. ASSUME NEW u \in Users \ {r, b}
      PROVE  gameInfo'[u] = gameInfo[u] /\ (gameInfo[u] # Nil => IsTurnToPlay(u)' = IsTurnToPlay(u))
  <2>1. gameInfo'[u] = gameInfo[u]
    BY <1>3 DEF CenterInv, TypeOK
  <2>2. ASSUME gameInfo[u] # Nil
        PROVE  rooms'[gameInfo[u].room] = rooms[gameInfo[u].room]
    <3>1. rooms[gameInfo[u].room] # Nil
      BY <2>2 DEF CenterInv, RoomOK, RoomOf
    <3> QED
      BY <1>1, <1>3, <3>1
  <2> QED
    BY <2>1, <2>2 DEF IsTurnToPlay, RoomOf
<1>7. SeatOf' = [SeatOf EXCEPT ![r] = [opp |-> b, onMove |-> TRUE],
                               ![b] = [opp |-> r, onMove |-> FALSE]]
  <2>1. SeatOf'[r] = [opp |-> b, onMove |-> TRUE]
    <3>1. gameInfo'[r] # Nil /\ gameInfo'[r].opp = b
      BY <1>2, <1>4
    <3>2. SeatOf'[r] = [opp |-> gameInfo'[r].opp, onMove |-> IsTurnToPlay(r)']
      BY <3>1 DEF SeatOf
    <3> QED
      BY <1>5, <3>1, <3>2
  <2>2. SeatOf'[b] = [opp |-> r, onMove |-> FALSE]
    <3>1. gameInfo'[b] # Nil /\ gameInfo'[b].opp = r
      BY <1>2, <1>4
    <3>2. SeatOf'[b] = [opp |-> gameInfo'[b].opp, onMove |-> IsTurnToPlay(b)']
      BY <3>1 DEF SeatOf
    <3> QED
      BY <1>5, <3>1, <3>2
  <2>3. \A u \in Users \ {r, b} : SeatOf'[u] = SeatOf[u]
    BY <1>6 DEF SeatOf
  <2>4. SeatOf = [u \in Users |-> SeatOf[u]] /\ SeatOf' = [u \in Users |-> SeatOf'[u]]
    BY DEF SeatOf
  <2> QED
    BY <2>1, <2>2, <2>3, <2>4
<1>8. L!Pair(r, b)
  BY <1>3, <1>7 DEF L!Pair
<1> QED
  BY <1>8 DEF Promised, L!Next

LEMMA MovePasses ==
  ASSUME CenterInv, NEW s \in Users, NEW fen \in Fens, NEW step \in {1, -1},
         gameInfo[s] # Nil, IsTurnToPlay(s), PassTheMove(s, FindOppEntry(s), fen, step)
  PROVE  Promised
<1> DEFINE o == gameInfo[s].opp
           rm == gameInfo[s].room
<1>1. /\ o \in Users \ {s} /\ rm \in Users
      /\ gameInfo[o] # Nil /\ gameInfo[o].opp = s /\ gameInfo[o].room = rm
      /\ gameInfo[o].type # gameInfo[s].type
      /\ gameInfo[s] \in GameInfo /\ gameInfo[o] \in GameInfo
      /\ rooms[rm] \in RoomInfo
  BY OppIsFound, NilAssumption DEF CenterInv, TypeOK, RoomOK, RoomOf, GameInfo
<1>2. /\ UNCHANGED <<state, gameInfo>>
      /\ rooms'[rm].totalSteps = rooms[rm].totalSteps + step
      /\ \A x \in Users \ {rm} : rooms'[x] = rooms[x]
  BY <1>1 DEF PassTheMove, hallVars, RoomInfo, CenterInv, TypeOK
<1>3. rooms[rm].totalSteps \in Int
  BY <1>1 DEF RoomInfo
<1>4. /\ IsTurnToPlay(s)' = FALSE
      /\ IsTurnToPlay(o)' = TRUE
      /\ IsTurnToPlay(o) = FALSE
  BY <1>1, <1>2, <1>3, Parity DEF IsTurnToPlay, RoomOf, GameInfo, PlayerTypes
<1>5. ASSUME NEW u \in Users \ {s, o}, gameInfo[u] # Nil
      PROVE  IsTurnToPlay(u)' = IsTurnToPlay(u)
  <2>1. gameInfo[u].room # rm /\ gameInfo[u].room \in Users
    BY <1>5, ThirdPlayer DEF CenterInv, TypeOK, GameInfo
  <2> QED
    BY <1>2, <2>1 DEF IsTurnToPlay, RoomOf
<1>6. SeatOf' = [SeatOf EXCEPT ![s].onMove = FALSE, ![o].onMove = TRUE]
  <2>1. ASSUME NEW u \in Users
        PROVE  SeatOf'[u] = CASE u = s -> [SeatOf[s] EXCEPT !.onMove = FALSE]
                              [] u = o -> [SeatOf[o] EXCEPT !.onMove = TRUE]
                              [] OTHER -> SeatOf[u]
    <3>1. CASE u = s
      BY <1>1, <1>2, <1>4, <3>1 DEF SeatOf
    <3>2. CASE u = o
      BY <1>1, <1>2, <1>4, <3>2 DEF SeatOf
    <3>3. CASE u \notin {s, o}
      BY <1>1, <1>2, <1>5, <3>3 DEF SeatOf
    <3> QED
      BY <3>1, <3>2, <3>3
  <2>2. SeatOf = [u \in Users |-> SeatOf[u]] /\ SeatOf' = [u \in Users |-> SeatOf'[u]]
    BY DEF SeatOf
  <2> HIDE DEF o
  <2> QED
    BY <1>1, <2>1, <2>2
<1>7. L!PassTheMove(s, o)
  BY <1>1, <1>2, <1>6, SeatIsNotNil DEF L!PassTheMove, L!Opponents
<1> QED
  BY <1>1, <1>7 DEF Promised, L!Next

LEMMA GameEnds ==
  ASSUME CenterInv, NEW s \in Users, NEW over, NEW ts, NEW before, gameInfo[s] # Nil,
         EndGame(s, over, ts, before)
  PROVE  Promised
<1> DEFINE o == gameInfo[s].opp
           rm == gameInfo[s].room
<1>1. CASE Crash
  BY <1>1, IgnoredStutters
<1>2. CASE GameOver(s, FindOppEntry(s), over, ts, before)
  <2>1. /\ o \in Users \ {s} /\ FindOppEntry(s) = o
        /\ gameInfo[o] # Nil
    BY OppIsFound, NilAssumption DEF GameInfo
  <2>2. /\ gameInfo' = [u \in Users |-> IF u \in {s, o} THEN Nil ELSE gameInfo[u]]
        /\ rooms' = [rooms EXCEPT ![rm] = Nil]
        /\ state' = [u \in Users |-> CASE u \in Leavers(s, o) -> "none"
                                       [] u \in {s, o} \ Leavers(s, o) -> "kOnline"
                                       [] OTHER -> state[u]]
    BY <1>2, <2>1 DEF GameOver, DestroyRoom, Erase
  <2>3. ASSUME NEW u \in Users \ {s, o}, gameInfo[u] # Nil
        PROVE  IsTurnToPlay(u)' = IsTurnToPlay(u)
    <3>1. gameInfo[u].room # rm /\ gameInfo[u].room \in Users /\ gameInfo'[u] = gameInfo[u]
      BY <2>2, <2>3, ThirdPlayer DEF CenterInv, TypeOK, GameInfo
    <3> QED
      BY <2>2, <3>1 DEF IsTurnToPlay, RoomOf, CenterInv, TypeOK
  <2>4. SeatOf' = [SeatOf EXCEPT ![s] = Nil, ![o] = Nil]
    <3>1. ASSUME NEW u \in Users
          PROVE  SeatOf'[u] = IF u \in {s, o} THEN Nil ELSE SeatOf[u]
      BY <2>2, <2>3 DEF SeatOf
    <3>2. SeatOf = [u \in Users |-> SeatOf[u]] /\ SeatOf' = [u \in Users |-> SeatOf'[u]]
      BY DEF SeatOf
    <3> HIDE DEF o
    <3> QED
      BY <2>1, <3>1, <3>2
  <2>5. state' = [state EXCEPT ![s] = L!AfterGame(s), ![o] = L!AfterGame(o)]
    BY <2>1, <2>2 DEF Leavers, IsOnPlaying, L!AfterGame, CenterInv, TypeOK
  <2>6. L!End(s, o)
    BY <2>1, <2>4, <2>5, SeatIsNotNil DEF L!End, L!Opponents
  <2> QED
    BY <2>1, <2>6 DEF Promised, L!Next
<1> QED
  BY <1>1, <1>2 DEF EndGame

-----------------------------------------------------------------------------
(* The handlers.                                                           *)

LEMMA LoginPromised ==
  ASSUME IInv, NEW i \in ConnIds, NEW u \in Users, NEW info \in LoginInfos,
         OnLoginSuccessResponse(i, u, info), u \in login[i]
  PROVE  Promised
<1>1. CenterInv
  BY IInvIsCenterInv
<1>2. CASE userList[u] = Nil /\ IntoHall(i, u, info) /\ UNCHANGED gameVars
  <2>1. state[u] = "none"
    BY <1>1, <1>2 DEF CenterInv, HallOK
  <2>2. CASE entrys[i] = Nil
    BY <1>2, <2>1, <2>2, OneGoes DEF IntoHall
  <2>3. CASE entrys[i] # Nil
    BY <1>2, <2>3, Stutters DEF IntoHall, gameVars
  <2> QED
    BY <2>2, <2>3
<1>3. CASE /\ userList[u] \notin {Nil, i}
           /\ entrys[userList[u]] # Nil
           /\ state[entrys[userList[u]]] = "kDisconnecteInPlaying"
           /\ OnReconnected(i, userList[u], entrys[userList[u]])
  <2>1. entrys[userList[u]] \in Users
    BY <1>1, <1>3 DEF CenterInv, TypeOK
  <2>2. CASE /\ state' = [state EXCEPT ![entrys[userList[u]]] = "kPlaying"]
             /\ UNCHANGED gameVars
    BY <1>3, <2>1, <2>2, OneGoes
  <2> QED
    BY Zenon, <1>3, <2>2, IgnoredStutters DEF OnReconnected
<1>4. CASE Ignore \/ Crash
  BY <1>4, IgnoredStutters
<1>5. CASE UNCHANGED <<hallVars, gameVars>>
  BY <1>5, Stutters DEF hallVars, gameVars
<1> QED
  BY <1>2, <1>3, <1>4, <1>5 DEF OnLoginSuccessResponse

LEMMA ClosePromised ==
  ASSUME IInv, NEW i \in ConnIds, CloseConnection(i)
  PROVE  Promised
<1> DEFINE e == entrys[i]
<1>1. CenterInv
  BY IInvIsCenterInv
<1>2. CASE Ignore \/ Crash
  BY <1>2, IgnoredStutters
<1>3. CASE /\ e # Nil /\ state[e] # "kPlaying"
           /\ OutOfHall(e) /\ UNCHANGED gameVars
  <2>1. e \in Users /\ state[e] # "none" /\ state[e] \in States
    BY <1>1, <1>3, EntryIsUser DEF CenterInv, TypeOK
  <2>2. state[e] # "kDisconnecteInPlaying"
    BY <1>3 DEF CloseConnection, IInv, SessionTypeOK, ClientStates, CallersOK, LoggedIn
  <2>3. state[e] \in {"kOnline", "kMatching"}
    BY <1>3, <2>1, <2>2 DEF States
  <2> QED
    BY <1>3, <2>1, <2>3, OneGoes DEF OutOfHall
<1>4. CASE /\ e # Nil /\ IsOnPlaying(e)
           /\ state' = [state EXCEPT ![e] = "kDisconnecteInPlaying"] /\ UNCHANGED gameVars
  BY <1>1, <1>4, EntryIsUser, OneGoes DEF IsOnPlaying
<1> QED
  BY <1>2, <1>3, <1>4 DEF CloseConnection, OnDisconnected, IsOnPlaying

LEMMA InAndOutOfTheQueue ==
  ASSUME IInv, NEW i \in ConnIds, entrys[i] # Nil, UNCHANGED gameVars,
         \/ /\ state[entrys[i]] = "kOnline"
            /\ state' = [state EXCEPT ![entrys[i]] = "kMatching"]
         \/ /\ state[entrys[i]] = "kMatching"
            /\ state' = [state EXCEPT ![entrys[i]] = "kOnline"]
  PROVE  Promised
  BY IInvIsCenterInv, EntryIsUser, OneGoes

LEMMA MatchRequestPromised ==
  ASSUME IInv, NEW i \in ConnIds, NEW type \in RoomTypes, OnMatchRequest(i, type)
  PROVE  Promised
  BY InAndOutOfTheQueue, IgnoredStutters DEF OnMatchRequest

LEMMA CancelMatchPromised ==
  ASSUME IInv, NEW i \in ConnIds, OnCancelMatchRequest(i)
  PROVE  Promised
  BY InAndOutOfTheQueue, IgnoredStutters DEF OnCancelMatchRequest

LEMMA MatchFoundPromised ==
  ASSUME IInv, NEW r \in Users, NEW b \in Users, NEW type \in RoomTypes, MatchFound(r, b, type)
  PROVE  Promised
<1>1. CenterInv
  BY IInvIsCenterInv
<1>2. FindEntryByUsername(r) \in {r, Nil} /\ FindEntryByUsername(b) \in {b, Nil}
  BY <1>1 DEF FindEntryByUsername, CenterInv, HallOK
<1>3. CASE Ignore \/ Crash
  BY <1>3, IgnoredStutters
<1>4. CASE /\ state[r] = "kMatching" /\ state[b] = "kMatching"
           /\ StartNewGame(r, b, type)
  BY <1>1, <1>4, GameStarts DEF MatchFound
<1> QED
  BY <1>2, <1>3, <1>4 DEF MatchFound, OnMatchBackendResponse

LEMMA PlayerHasSeat ==
  ASSUME IInv, NEW i \in ConnIds, entrys[i] # Nil,
         IsOnPlaying(entrys[i]) \/ OppFound(entrys[i])
  PROVE  entrys[i] \in Users /\ gameInfo[entrys[i]] # Nil
  BY IInvIsCenterInv, EntryIsUser DEF IsOnPlaying, IsInRoom, OppFound, HasOpp, CenterInv, RoomOK

LEMMA MovePromised ==
  ASSUME IInv, NEW i \in ConnIds, NEW fen \in Fens, NEW over \in BOOLEAN,
         OnMoveStep(i, fen, over)
  PROVE  Promised
<1> DEFINE s == entrys[i]
<1>1. CenterInv
  BY IInvIsCenterInv
<1>2. CASE Ignore \/ Crash
  BY <1>2, IgnoredStutters
<1>3. ASSUME s # Nil, IsOnPlaying(s), NEW before, EndGame(s, "WIN", timers, before)
      PROVE  Promised
  BY <1>1, <1>3, PlayerHasSeat, GameEnds
<1>4. ASSUME s # Nil, IsOnPlaying(s), IsTurnToPlay(s), PassTheMove(s, FindOppEntry(s), fen, 1)
      PROVE  Promised
  BY <1>1, <1>4, PlayerHasSeat, MovePasses
<1> QED
  BY <1>2, <1>3, <1>4 DEF OnMoveStep

LEMMA GiveupPromised ==
  ASSUME IInv, NEW i \in ConnIds, OnGiveup(i)
  PROVE  Promised
  BY IInvIsCenterInv, PlayerHasSeat, GameEnds, IgnoredStutters DEF OnGiveup

LEMMA AnswerForgivePromised ==
  ASSUME IInv, NEW i \in ConnIds, NEW fen \in Fens, NEW agree \in BOOLEAN,
         OnForgiveResponse(i, agree, fen), agree => ContractTakeBack(i)
  PROVE  Promised
<1> DEFINE s == entrys[i]
<1>1. CenterInv
  BY IInvIsCenterInv
<1>2. CASE Ignore \/ Crash
  BY <1>2, IgnoredStutters
<1>3. ASSUME s # Nil, OppFound(s), agree, PassTheMove(s, FindOppEntry(s), fen, -1)
      PROVE  Promised
  BY <1>1, <1>3, PlayerHasSeat, MovePasses DEF ContractTakeBack
<1> QED
  BY <1>2, <1>3, RelayStutters DEF OnForgiveResponse

LEMMA AnswerDrawPromised ==
  ASSUME IInv, NEW i \in ConnIds, NEW agree \in BOOLEAN, OnDrawResponse(i, agree)
  PROVE  Promised
  BY IInvIsCenterInv, PlayerHasSeat, GameEnds, IgnoredStutters, RelayStutters
     DEF OnDrawResponse

LEMMA TimeOutPromised ==
  ASSUME IInv, NEW u \in Users, OnTimeOut(u)
  PROVE  Promised
<1>1. CenterInv
  BY IInvIsCenterInv
<1>2. gameInfo[u] # Nil
  BY DEF OnTimeOut, IInv, ClockOK
<1> QED
  BY <1>1, <1>2, GameEnds DEF OnTimeOut

-----------------------------------------------------------------------------
(* The whole.                                                              *)

LEMMA InitPromised == Init => L!Init
  BY DEF Init, CenterInit, L!Init, SeatOf

LEMMA NextPromised == IInv /\ [Next]_vars => Promised
<1> SUFFICES ASSUME IInv, [Next]_vars PROVE Promised
  OBVIOUS
<1>1. CASE UNCHANGED vars
  BY <1>1, Stutters DEF vars, centerVars, hallVars, gameVars
<1>2. ASSUME NEW i \in ConnIds, OpenConnection(i)
      PROVE  Promised
  BY <1>2, IgnoredStutters DEF OpenConnection
<1>3. ASSUME NEW i \in ConnIds, CloseConnection(i)
      PROVE  Promised
  BY <1>3, ClosePromised
<1>4. ASSUME NEW i \in ConnIds, NEW u \in Users, AskLogin(i, u)
      PROVE  Promised
  BY <1>4, Stutters, IgnoredStutters DEF AskLogin, OnLoginRequest, hallVars, gameVars
<1>5. ASSUME NEW i \in ConnIds, NEW u \in Users, NEW info \in LoginInfos, NEW more \in BOOLEAN,
             LoginSucceeds(i, u, info, more)
      PROVE  Promised
  BY <1>5, LoginPromised DEF LoginSucceeds
<1>6. ASSUME NEW i \in ConnIds, NEW u \in Users, NEW more \in BOOLEAN, LoginFails(i, u, more)
      PROVE  Promised
  BY <1>6, Stutters, IgnoredStutters DEF LoginFails, OnLoginFailedResponse, hallVars, gameVars
<1>7. ASSUME NEW l \in Flaky, LinkDown(l) \/ LinkUp(l)
      PROVE  Promised
  BY <1>7, Stutters DEF LinkDown, LinkUp, OnConnection, OnDisconnection, hallVars, gameVars
<1>8. ASSUME NEW i \in ConnIds, NEW type \in RoomTypes, AskMatch(i, type)
      PROVE  Promised
  BY <1>8, MatchRequestPromised DEF AskMatch
<1>9. ASSUME NEW i \in ConnIds, CancelMatch(i)
      PROVE  Promised
  BY <1>9, CancelMatchPromised DEF CancelMatch
<1>10. ASSUME NEW r \in Users, NEW b \in Users, NEW type \in RoomTypes, MatchFound(r, b, type)
       PROVE  Promised
  BY <1>10, MatchFoundPromised
<1>11. ASSUME NEW i \in ConnIds, NEW fen \in Fens, NEW over \in BOOLEAN, Move(i, fen, over)
       PROVE  Promised
  BY <1>11, MovePromised DEF Move
<1>12. ASSUME NEW i \in ConnIds, Giveup(i) \/ AskForgive(i) \/ AskDraw(i)
       PROVE  Promised
  BY <1>12, GiveupPromised, IgnoredStutters, RelayStutters
     DEF Giveup, AskForgive, AskDraw, OnForgiveRequest, OnDrawRequest
<1>13. ASSUME NEW i \in ConnIds, NEW agree \in BOOLEAN, NEW fen \in Fens,
              AnswerForgive(i, agree, fen)
       PROVE  Promised
  BY <1>13, AnswerForgivePromised DEF AnswerForgive
<1>14. ASSUME NEW i \in ConnIds, NEW agree \in BOOLEAN, AnswerDraw(i, agree)
       PROVE  Promised
  BY <1>14, AnswerDrawPromised DEF AnswerDraw
<1>15. ASSUME NEW u \in Users, TimeOut(u)
       PROVE  Promised
  BY <1>15, TimeOutPromised DEF TimeOut
<1> QED
  BY <1>1, <1>2, <1>3, <1>4, <1>5, <1>6, <1>7, <1>8, <1>9, <1>10, <1>11, <1>12, <1>13,
     <1>14, <1>15 DEF Next

\* The center keeps the promise of Lobby.
THEOREM CenterImplementsLobby == Spec => ImplementsLobby
<1>1. Spec => L!Init
  BY InitPromised DEF Spec
<1>2. IInv /\ [Next]_vars => [L!Next]_(L!vars)
  BY NextPromised DEF Promised
<1> QED
  BY <1>1, <1>2, Invariance, PTL DEF Spec, ImplementsLobby, L!Spec

-----------------------------------------------------------------------------
(* What the steps come to: which of them may end the process, and that     *)
(* each game is settled once.  The first needs one more fact: a client     *)
(* that owes an answer has an Entry, and it is connected.                  *)

AskingTypes == {"ForgiveRequest", "DrawRequest"}
Connected(i) == entrys[i] # Nil /\ state[entrys[i]] # "kDisconnecteInPlaying"
AskedOK == \A i \in forgiveAsked \cup drawAsked : Connected(i)
OInv == IInv /\ AskedOK

-----------------------------------------------------------------------------
(* What gameOver sends, place by place.                                    *)

LEMMA ConcatFacts ==
  ASSUME NEW S, NEW x \in Seq(S), NEW y \in Seq(S)
  PROVE  /\ x \o y \in Seq(S) /\ Len(x) \in Nat /\ Len(y) \in Nat
         /\ Len(x \o y) = Len(x) + Len(y)
         /\ \A k \in 1..Len(x) : (x \o y)[k] = x[k]
         /\ \A k \in 1..Len(y) : (x \o y)[Len(x) + k] = y[k]
  OBVIOUS

LEMMA SeqGrows ==
  ASSUME NEW S, NEW T, S \subseteq T, NEW x \in Seq(S)
  PROVE  x \in Seq(T)
  OBVIOUS

\* From place n on there are only GameOver messages.
OnlyGameOver(q, n) == \A k \in n..Len(q) : q[k].type = "GameOver"

LEMMA OneGameOver ==
  ASSUME NEW T, NEW m \in T, m.type = "GameOver", NEW cond, NEW q, q = If(cond, <<m>>)
  PROVE  q \in Seq(T) /\ OnlyGameOver(q, 1)
<1>1. CASE cond
  BY <1>1 DEF If, OnlyGameOver
<1>2. CASE ~cond
  BY <1>2 DEF If, OnlyGameOver
<1> QED
  BY <1>1, <1>2

\* A sequence that begins with a and b, and has nothing but GameOver after.
Settles(q, T, a, b) ==
  q \in Seq(T) /\ Len(q) >= 2 /\ q[1] = a /\ q[2] = b /\ OnlyGameOver(q, 3)

LEMMA ThenGameOver ==
  ASSUME NEW T, NEW a, NEW b, NEW x, Settles(x, T, a, b),
         NEW y \in Seq(T), OnlyGameOver(y, 1), NEW q, q = x \o y
  PROVE  Settles(q, T, a, b)
<1>1. /\ x \in Seq(T) /\ Len(x) >= 2 /\ x[1] = a /\ x[2] = b
      /\ \A k \in 3..Len(x) : x[k].type = "GameOver"
  BY DEF Settles, OnlyGameOver
<1>2. /\ q \in Seq(T) /\ Len(x) \in Nat /\ Len(y) \in Nat
      /\ Len(q) = Len(x) + Len(y)
      /\ \A k \in 1..Len(x) : q[k] = x[k]
      /\ \A k \in 1..Len(y) : q[Len(x) + k] = y[k]
  BY <1>1, ConcatFacts
<1>3. ASSUME NEW k \in 3..Len(q)
      PROVE  q[k].type = "GameOver"
  <2>1. CASE k <= Len(x)
    BY <1>1, <1>2, <2>1
  <2>2. CASE ~(k <= Len(x))
    <3>1. k - Len(x) \in 1..Len(y) /\ k = Len(x) + (k - Len(x))
      BY <1>2, <2>2
    <3>2. q[Len(x) + (k - Len(x))] = y[k - Len(x)]
      BY <1>2, <3>1
    <3> QED
      BY <3>1, <3>2 DEF OnlyGameOver
  <2> QED
    BY <2>1, <2>2
<1> QED
  BY <1>1, <1>2, <1>3 DEF Settles, OnlyGameOver

LEMMA AfterThese ==
  ASSUME NEW T, NEW p \in Seq(T), NEW a, NEW b, NEW x, Settles(x, T, a, b), NEW q, q = p \o x
  PROVE  /\ Len(p) \in Nat /\ DOMAIN p = 1..Len(p) /\ DOMAIN q \subseteq Nat
         /\ Len(p) + 1 \in DOMAIN q /\ Len(p) + 2 \in DOMAIN q
         /\ q[Len(p) + 1] = a /\ q[Len(p) + 2] = b
         /\ \A k \in DOMAIN q : \/ k \in DOMAIN p /\ q[k] = p[k]
                                \/ k \in {Len(p) + 1, Len(p) + 2}
                                \/ q[k].type = "GameOver"
<1>0. /\ x \in Seq(T) /\ Len(x) >= 2 /\ x[1] = a /\ x[2] = b
      /\ \A k \in 3..Len(x) : x[k].type = "GameOver"
  BY DEF Settles, OnlyGameOver
<1>1. /\ q \in Seq(T) /\ Len(p) \in Nat /\ Len(x) \in Nat
      /\ Len(q) = Len(p) + Len(x)
      /\ \A k \in 1..Len(p) : q[k] = p[k]
      /\ \A k \in 1..Len(x) : q[Len(p) + k] = x[k]
  BY <1>0, ConcatFacts
<1>2. DOMAIN p = 1..Len(p) /\ DOMAIN q = 1..(Len(p) + Len(x))
  BY <1>1
<1>3. ASSUME NEW k \in DOMAIN q, k \notin DOMAIN p, k \notin {Len(p) + 1, Len(p) + 2}
      PROVE  q[k].type = "GameOver"
  <2>1. k - Len(p) \in 3..Len(x) /\ k = Len(p) + (k - Len(p))
    BY <1>1, <1>2, <1>3
  <2>2. q[Len(p) + (k - Len(p))] = x[k - Len(p)]
    BY <1>1, <2>1
  <2> QED
    BY <1>0, <2>1, <2>2
<1> QED
  BY <1>0, <1>1, <1>2, <1>3

\* What is sent when gameOver is called after the messages of before.
LEMMA GameOverSent ==
  ASSUME NEW s, NEW o, NEW over, NEW S, NEW before \in Seq(S),
         NEW q, q = before \o GameOverMsgs(s, o, over)
  PROVE  /\ Len(before) \in Nat /\ DOMAIN before = 1..Len(before)
         /\ DOMAIN q \subseteq Nat
         /\ Len(before) + 1 \in DOMAIN q /\ Len(before) + 2 \in DOMAIN q
         /\ q[Len(before) + 1] = UpdateUserInfoMsg(s, SelfInfo(s, over))
         /\ q[Len(before) + 2] = UpdateUserInfoMsg(o, OppInfo(o, over))
         /\ \A k \in DOMAIN q : \/ k \in DOMAIN before /\ q[k] = before[k]
                                \/ k \in {Len(before) + 1, Len(before) + 2}
                                \/ q[k].type = "GameOver"
<1>1. PICK a, b : /\ a = UpdateUserInfoMsg(s, SelfInfo(s, over))
                  /\ b = UpdateUserInfoMsg(o, OppInfo(o, over))
  OBVIOUS
<1>3. PICK c : c = GameOverMsg(s, over, GetChangeScore(over))
  OBVIOUS
<1>4. PICK d : d = GameOverMsg(o, OppOverType(over), -GetChangeScore(over))
  OBVIOUS
<1>5. c.type = "GameOver" /\ d.type = "GameOver"
  BY <1>3, <1>4 DEF GameOverMsg, Msg
<1>6. PICK T : T = S \cup {a, b, c, d}
  OBVIOUS
<1>7. before \in Seq(T) /\ a \in T /\ b \in T /\ c \in T /\ d \in T
  BY <1>6, SeqGrows
<1>8. PICK y : y = If(IsOnPlaying(s), <<c>>)
  OBVIOUS
<1>9. PICK z : z = If(IsOnPlaying(o), <<d>>)
  OBVIOUS
<1>10. y \in Seq(T) /\ OnlyGameOver(y, 1)
  BY <1>5, <1>7, <1>8, OneGameOver
<1>11. z \in Seq(T) /\ OnlyGameOver(z, 1)
  BY <1>5, <1>7, <1>9, OneGameOver
<1>12. PICK x : x = <<a, b>>
  OBVIOUS
<1>13. Settles(x, T, a, b)
  BY <1>7, <1>12 DEF Settles, OnlyGameOver
<1>14. PICK xy : xy = x \o y
  OBVIOUS
<1>15. Settles(xy, T, a, b)
  BY <1>10, <1>13, <1>14, ThenGameOver
<1>16. PICK xyz : xyz = xy \o z
  OBVIOUS
<1>17. Settles(xyz, T, a, b)
  BY <1>11, <1>15, <1>16, ThenGameOver
<1>18. GameOverMsgs(s, o, over) = xyz
  BY <1>1, <1>3, <1>4, <1>8, <1>9, <1>12, <1>14, <1>16 DEF GameOverMsgs
<1>19. q = before \o xyz
  BY <1>18
<1>20. /\ Len(before) + 1 \in DOMAIN q /\ Len(before) + 2 \in DOMAIN q
       /\ Len(before) \in Nat /\ DOMAIN before = 1..Len(before) /\ DOMAIN q \subseteq Nat
       /\ q[Len(before) + 1] = a /\ q[Len(before) + 2] = b
       /\ \A k \in DOMAIN q : \/ k \in DOMAIN before /\ q[k] = before[k]
                              \/ k \in {Len(before) + 1, Len(before) + 2}
                              \/ q[k].type = "GameOver"
  BY <1>7, <1>17, <1>19, AfterThese
<1> QED
  BY <1>1, <1>20

-----------------------------------------------------------------------------
(* A client that owes an answer is connected.                              *)

AskedNow == forgiveAsked \cup drawAsked
NoQuestion == \A k \in DOMAIN sent' : sent'[k].type \notin AskingTypes

\* Whoever is connected stays so, under the same id.
KeepsConnected ==
  \A i \in ConnIds : Connected(i) => /\ entrys'[i] = entrys[i]
                                     /\ state'[entrys[i]] # "kDisconnecteInPlaying"

LEMMA KeptConnected ==
  ASSUME Kept
  PROVE  KeepsConnected
  BY DEF Kept, KeepsSeats, KeepsCallers, KeepsConnected, Connected

LEMMA QuietConnected ==
  ASSUME UNCHANGED hallVars
  PROVE  KeepsConnected
  BY DEF hallVars, KeepsConnected, Connected

LEMMA AskedStays ==
  ASSUME OInv, KeepsConnected, AskedNow' \subseteq AskedNow
  PROVE  AskedOK'
  BY DEF OInv, AskedOK, AskedNow, KeepsConnected, Connected, IInv, SessionTypeOK

LEMMA AskedHears ==
  ASSUME OInv, Hear, KeepsConnected, \A i \in Told(AskingTypes) : Connected(i)
  PROVE  AskedOK'
<1>1. AskedNow' \subseteq AskedNow \cup Told(AskingTypes)
  BY DEF Hear, Asked, AskedNow, Told, AskingTypes
<1>2. AskedNow' \subseteq ConnIds
  BY <1>1 DEF AskedNow, Told, OInv, IInv, SessionTypeOK
<1> QED
  BY <1>1, <1>2 DEF OInv, AskedOK, AskedNow, KeepsConnected, Connected

LEMMA AskedUnlessAsking ==
  ASSUME OInv, Hear, KeepsConnected, NoQuestion
  PROVE  AskedOK'
<1>1. Told(AskingTypes) = {}
  BY DEF Told, NoQuestion
<1> QED
  BY <1>1, AskedHears

LEMMA NothingAsked ==
  ASSUME sent' = <<>>
  PROVE  NoQuestion
  BY DEF NoQuestion

LEMMA OneNotAsked ==
  ASSUME NEW to, NEW id, NEW type, NEW data, type \notin AskingTypes, NEW cond,
         \/ sent' = <<Msg(to, id, type, data)>>
         \/ sent' = If(cond, <<Msg(to, id, type, data)>>)
  PROVE  NoQuestion
  BY DEF NoQuestion, Msg, If

\* The end of a game asks nobody anything.
LEMMA EndAsksNobody ==
  ASSUME NEW s, NEW over, NEW ts, NEW S, NEW before \in Seq(S), EndGame(s, over, ts, before),
         \A k \in DOMAIN before : before[k].type \notin AskingTypes
  PROVE  NoQuestion
<1>1. CASE Crash
  BY <1>1, NothingAsked DEF Crash
<1>2. CASE GameOver(s, FindOppEntry(s), over, ts, before)
  <2>1. PICK o : o = FindOppEntry(s)
    OBVIOUS
  <2>2. PICK q : q = sent'
    OBVIOUS
  <2>3. q = before \o GameOverMsgs(s, o, over)
    BY <1>2, <2>1, <2>2 DEF GameOver
  <2>4. /\ q[Len(before) + 1] = UpdateUserInfoMsg(s, SelfInfo(s, over))
        /\ q[Len(before) + 2] = UpdateUserInfoMsg(o, OppInfo(o, over))
        /\ \A k \in DOMAIN q : \/ k \in DOMAIN before /\ q[k] = before[k]
                               \/ k \in {Len(before) + 1, Len(before) + 2}
                               \/ q[k].type = "GameOver"
    BY <2>3, GameOverSent
  <2> QED
    BY <2>2, <2>4 DEF NoQuestion, AskingTypes, UpdateUserInfoMsg, Msg
<1> QED
  BY <1>1, <1>2 DEF EndGame

\* A question goes to an opponent who is playing.
LEMMA RelayedToConnected ==
  ASSUME OInv, NEW o \in Users, IsOnPlaying(o), NEW type, NEW data,
         sent' = <<Msg("front", connId[o], type, data)>>
  PROVE  \A i \in Told(AskingTypes) : Connected(i)
<1>1. CenterInv
  BY IInvIsCenterInv DEF OInv
<1>2. connId[o] \in ConnIds /\ entrys[connId[o]] = o /\ o # Nil
  BY <1>1, SeatHasId DEF IsOnPlaying
<1>3. \A i \in Told(AskingTypes) : i = connId[o]
  BY DEF Told, Msg
<1> QED
  BY <1>2, <1>3 DEF Connected, IsOnPlaying

LEMMA MoveAsksNobody ==
  ASSUME OInv, NEW i \in ConnIds, NEW fen \in Fens, NEW over \in BOOLEAN,
         OnMoveStep(i, fen, over)
  PROVE  NoQuestion
<1> DEFINE s == entrys[i]
           o == FindOppEntry(s)
           m == Msg("front", connId[o], "MoveStep", [over |-> over, fen |-> fen])
<1>1. CASE Ignore \/ Crash
  BY <1>1, NothingAsked DEF Ignore, Crash
<1>2. CASE sent' = If(IsOnPlaying(o), <<m>>)
  BY <1>2, OneNotAsked DEF AskingTypes
<1>3. CASE EndGame(s, "WIN", timers, If(IsOnPlaying(o), <<m>>))
  <2>1. PICK before : before = If(IsOnPlaying(o), <<m>>)
    OBVIOUS
  <2>2. before = <<>> \/ before = <<m>>
    BY <2>1 DEF If
  <2>3. m.type = "MoveStep"
    BY DEF Msg
  <2> HIDE DEF m
  <2>4. before \in Seq({m}) /\ \A k \in DOMAIN before : before[k].type = "MoveStep"
    <3>1. CASE before = <<>>
      BY <3>1
    <3>2. CASE before = <<m>>
      BY <2>3, <3>2
    <3> QED
      BY <2>2, <3>1, <3>2
  <2>5. EndGame(s, "WIN", timers, before)
    BY <1>3, <2>1
  <2> QED
    BY <2>4, <2>5, EndAsksNobody DEF AskingTypes
<1> QED
  BY <1>1, <1>2, <1>3 DEF OnMoveStep

LEMMA GiveupAsksNobody ==
  ASSUME NEW i \in ConnIds, OnGiveup(i)
  PROVE  NoQuestion
<1>1. CASE Ignore \/ Crash
  BY <1>1, NothingAsked DEF Ignore, Crash
<1>2. CASE EndGame(entrys[i], "SELF_GIVEUP", timers, <<>>)
  <2>1. <<>> \in Seq({}) /\ \A k \in DOMAIN <<>> : <<>>[k].type \notin AskingTypes
    OBVIOUS
  <2> QED
    BY <1>2, <2>1, EndAsksNobody
<1> QED
  BY <1>1, <1>2 DEF OnGiveup

LEMMA AskForgiveAsks ==
  ASSUME OInv, NEW i \in ConnIds, OnForgiveRequest(i)
  PROVE  \A j \in Told(AskingTypes) : Connected(j)
<1>1. CASE Ignore \/ Crash
  BY <1>1 DEF Ignore, Crash, Told
<1>2. CASE /\ entrys[i] # Nil /\ OppFound(entrys[i]) /\ IsOnPlaying(FindOppEntry(entrys[i]))
           /\ sent' = <<Msg("front", connId[FindOppEntry(entrys[i])], "ForgiveRequest", NoBody)>>
  <2>1. FindOppEntry(entrys[i]) \in Users
    BY <1>2, FoundIsInHall, IInvIsCenterInv DEF OInv
  <2> QED
    BY <1>2, <2>1, RelayedToConnected
<1> QED
  BY <1>1, <1>2 DEF OnForgiveRequest, Relay

LEMMA AskDrawAsks ==
  ASSUME OInv, NEW i \in ConnIds, OnDrawRequest(i)
  PROVE  \A j \in Told(AskingTypes) : Connected(j)
<1>1. CASE Ignore \/ Crash
  BY <1>1 DEF Ignore, Crash, Told
<1>2. CASE /\ entrys[i] # Nil /\ OppFound(entrys[i]) /\ IsOnPlaying(FindOppEntry(entrys[i]))
           /\ sent' = <<Msg("front", connId[FindOppEntry(entrys[i])], "DrawRequest", NoBody)>>
  <2>1. FindOppEntry(entrys[i]) \in Users
    BY <1>2, FoundIsInHall, IInvIsCenterInv DEF OInv
  <2> QED
    BY <1>2, <2>1, RelayedToConnected
<1> QED
  BY <1>1, <1>2 DEF OnDrawRequest, Relay

LEMMA MatchAsksNobody ==
  ASSUME NEW r, NEW b, NEW type, OnMatchBackendResponse(r, b, type)
  PROVE  NoQuestion
<1>1. CASE Ignore \/ Crash
  BY <1>1, NothingAsked DEF Ignore, Crash
<1>2. ASSUME NEW x, NEW y, StartNewGame(x, y, type)
      PROVE  NoQuestion
  <2>1. PICK m, n : /\ sent' = <<m, n>>
                    /\ m.type = "MatchResponse" /\ n.type = "MatchResponse"
    BY <1>2 DEF StartNewGame, MatchResponseMsg, Msg
  <2> QED
    BY <2>1 DEF NoQuestion, AskingTypes
<1> QED
  BY <1>1, <1>2 DEF OnMatchBackendResponse

\* A login answer asks nobody, disturbs nobody who is connected, and with the
\* links up it is survived.
LEMMA LoginOutcome ==
  ASSUME IInv, NEW i \in ConnIds, NEW u \in Users, NEW info, u \in login[i],
         OnLoginSuccessResponse(i, u, info)
  PROVE  KeepsConnected /\ NoQuestion /\ (links = Links => up' = up)
<1> DEFINE oldId == userList[u]
           e == entrys[oldId]
<1>1. CenterInv
  BY IInvIsCenterInv
<1>2. /\ entrys[i] # Nil => oldId = i
      /\ oldId # Nil => oldId \in ConnIds /\ e = u /\ connId[u] = oldId /\ state[u] # "none"
      /\ u # Nil
  BY <1>1, NilAssumption DEF IInv, CallersOK, CenterInv, TypeOK, HallOK
<1>3. CASE Ignore
  BY <1>3, NothingAsked, QuietConnected DEF Ignore
<1>4. CASE oldId = Nil
  <2>1. entrys[i] = Nil
    BY <1>2, <1>4, NilAssumption
  <2>2. CASE Crash /\ links # Links
    BY <2>2, NothingAsked, QuietConnected DEF Crash
  <2>3. CASE /\ IntoHall(i, u, info) /\ UNCHANGED <<gameVars, links, up>>
             /\ sent' = <<Msg("front", i, "LoginSuccessResponse", [username |-> u, info |-> info])>>
    <3>1. NoQuestion
      BY <2>3, OneNotAsked DEF AskingTypes
    <3>2. /\ entrys' = [entrys EXCEPT ![i] = u]
          /\ state' = [state EXCEPT ![u] = "kOnline"]
      BY <2>1, <2>3 DEF IntoHall, Insert
    <3>3. KeepsConnected
      BY <1>1, <2>1, <3>2 DEF KeepsConnected, Connected, CenterInv, TypeOK
    <3> QED
      BY <2>3, <3>1, <3>3
  <2>4. "front" \in links \/ links # Links
    BY DEF Links
  <2> QED
    BY <1>2, <1>4, <2>2, <2>3, <2>4, NilAssumption DEF OnLoginSuccessResponse
<1>5. CASE oldId \notin {Nil, i} /\ state[u] # "kDisconnecteInPlaying"
  <2>1. e # Nil /\ e = u
    BY <1>2, <1>5
  <2>2. CASE Crash /\ links # Links
    BY <2>2, NothingAsked, QuietConnected DEF Crash
  <2>3. CASE /\ sent' = <<Msg("front", i, "LoginFailedResponse", [reason |-> "MULTI_LOGIN"])>>
             /\ UNCHANGED <<hallVars, gameVars, links, up>>
    <3>1. NoQuestion
      BY <2>3, OneNotAsked DEF AskingTypes
    <3> QED
      BY <2>3, <3>1, QuietConnected
  <2>4. "front" \in links \/ links # Links
    BY DEF Links
  <2> QED
    BY <1>5, <2>1, <2>2, <2>3, <2>4 DEF OnLoginSuccessResponse
<1>6. CASE oldId \notin {Nil, i} /\ state[u] = "kDisconnecteInPlaying"
  <2> DEFINE opp == gameInfo[u].opp
             told == If(IsOnPlaying(opp), <<Msg("front", connId[opp], "OppReconnected", NoBody)>>)
             movedEntrys == Insert(Erase(entrys, oldId), i, u)
  <2>1. /\ e = u /\ e # Nil /\ entrys[i] = Nil /\ oldId \in ConnIds \ {i} /\ connId[u] = oldId
    BY <1>2, <1>6
  <2>2. gameInfo[u] # Nil
    BY <1>1, <1>6 DEF CenterInv, RoomOK, IsInRoom
  <2>3. /\ opp \in Users \ {u} /\ connId[opp] \in ConnIds \ {i, oldId}
        /\ entrys[connId[opp]] = opp /\ opp # Nil /\ HasOpp(u)
    <3>1. opp \in Users \ {u} /\ state[opp] # "none" /\ HasOpp(u)
      BY <1>1, <2>2, OppIsFound DEF IsInRoom, OppFound
    <3>2. connId[opp] \in ConnIds /\ entrys[connId[opp]] = opp
      BY <1>1, <3>1, SeatHasId
    <3> QED
      BY <2>1, <3>1, <3>2, NilAssumption
  <2>4. movedEntrys = [[entrys EXCEPT ![oldId] = Nil] EXCEPT ![i] = u]
    BY <1>1, <2>1 DEF Insert, Erase, CenterInv, TypeOK
  <2>5. movedEntrys[connId[opp]] = opp
    BY <1>1, <2>3, <2>4 DEF CenterInv, TypeOK
  <2>6. OnReconnected(i, oldId, u)
    BY <1>6, <2>1 DEF OnLoginSuccessResponse
  <2>7. CASE Crash /\ links # Links
    BY <2>7, NothingAsked, QuietConnected DEF Crash
  <2>8. CASE /\ entrys' = movedEntrys
             /\ state' = [state EXCEPT ![u] = "kPlaying"]
             /\ sent' = told \o <<SituationMsg(u, i)>>
             /\ UNCHANGED <<userInfo, gameVars, links, up>>
    <3>1. NoQuestion
      BY <2>8 DEF NoQuestion, AskingTypes, If, Msg, SituationMsg
    <3>2. entrys' \in [ConnIds -> Users \cup {Nil}]
          /\ \A j \in ConnIds \ {i, oldId} : entrys'[j] = entrys[j]
      <4>1. entrys' = [[entrys EXCEPT ![oldId] = Nil] EXCEPT ![i] = u]
        BY <2>4, <2>8
      <4>2. entrys \in [ConnIds -> Users \cup {Nil}] /\ oldId \in ConnIds
        BY <1>1, <2>1 DEF CenterInv, TypeOK
      <4> HIDE DEF movedEntrys, oldId, opp, told
      <4> QED
        BY <4>1, <4>2
    <3>3. \A j \in ConnIds : entrys[j] # Nil => entrys[j] \in Users
      BY <1>1 DEF CenterInv, TypeOK
    <3>4. ASSUME NEW j \in ConnIds, Connected(j)
          PROVE  entrys'[j] = entrys[j] /\ state'[entrys[j]] # "kDisconnecteInPlaying"
      <4>1. j # i /\ j # oldId
        BY <1>6, <2>1, <3>4 DEF Connected
      <4>2. entrys'[j] = entrys[j]
        BY <3>2, <4>1
      <4>3. state' = [state EXCEPT ![u] = "kPlaying"] /\ state \in [Users -> States]
        BY <1>1, <2>8 DEF CenterInv, TypeOK
      <4> QED
        BY <3>3, <3>4, <4>2, <4>3 DEF Connected
    <3>5. KeepsConnected
      BY <3>4 DEF KeepsConnected
    <3> QED
      BY <2>8, <3>1, <3>5
  <2>9. "front" \in links \/ links # Links
    BY DEF Links
  <2> QED
    BY <2>1, <2>3, <2>5, <2>6, <2>7, <2>8, <2>9 DEF OnReconnected
<1>7. CASE oldId = i
  <2>1. i # Nil
    BY NilAssumption
  <2> QED
    BY <1>3, <1>7, <2>1 DEF OnLoginSuccessResponse
<1> QED
  BY <1>4, <1>5, <1>6, <1>7

LEMMA CloseKeepsOthers ==
  ASSUME OInv, NEW i \in ConnIds, CloseConnection(i)
  PROVE  AskedOK' /\ (links = Links => up' = up)
<1> DEFINE e == entrys[i]
<1>1. CenterInv
  BY IInvIsCenterInv DEF OInv
<1>2. AskedNow' = AskedNow \ {i} /\ AskedNow \subseteq ConnIds
  BY DEF CloseConnection, AskedNow, OInv, IInv, SessionTypeOK
<1>3. e # Nil => /\ e \in Users /\ connId[e] = i
                 /\ \A j \in ConnIds \ {i} : entrys[j] # Nil => entrys[j] # e
                 /\ IsOnPlaying(e) => OppFound(e)
  BY <1>1, EntryIsUser, PlayerHasOpp DEF IsOnPlaying, IsInRoom
<1>4. \A j \in ConnIds \ {i} : entrys[j] # Nil =>
        entrys'[j] = entrys[j] /\ state'[entrys[j]] = state[entrys[j]]
  <2>1. CASE Ignore \/ Crash
    BY <2>1 DEF Ignore, Crash, hallVars
  <2>2. CASE e # Nil /\ OutOfHall(e)
    BY <1>1, <1>3, <2>2 DEF OutOfHall, Erase, CenterInv, TypeOK
  <2>3. CASE e # Nil /\ state' = [state EXCEPT ![e] = "kDisconnecteInPlaying"] /\ UNCHANGED entrys
    BY <1>1, <1>3, <2>3 DEF CenterInv, TypeOK
  <2> QED
    BY <2>1, <2>2, <2>3 DEF CloseConnection, OnDisconnected
<1>5. AskedOK'
  BY <1>2, <1>4 DEF OInv, AskedOK, AskedNow, Connected
<1>6. links = Links => up' = up
  BY <1>3 DEF CloseConnection, OnDisconnected, Ignore, Links
<1> QED
  BY <1>5, <1>6

-----------------------------------------------------------------------------
(* Which steps may end the process.                                        *)

LEMMA EndSurvives ==
  ASSUME CenterInv, links = Links, NEW s \in Users, gameInfo[s] # Nil,
         NEW over, NEW ts, NEW before, EndGame(s, over, ts, before)
  PROVE  up' = up
<1>1. OppInGame(s) /\ GameOverLinks(s, FindOppEntry(s)) \subseteq links
  BY OppIsFound DEF GameOverLinks, Links
<1> QED
  BY <1>1 DEF EndGame, GameOver

LEMMA InGameHasSeat ==
  ASSUME CenterInv, NEW i \in ConnIds, entrys[i] # Nil, IsInRoom(entrys[i])
  PROVE  /\ entrys[i] \in Users /\ gameInfo[entrys[i]] # Nil
         /\ OppFound(entrys[i]) /\ OppInGame(entrys[i])
  BY EntryIsUser, PlayerHasOpp

LEMMA RelaySurvives ==
  ASSUME links = Links, NEW o, NEW type, NEW data, Relay(o, type, data)
  PROVE  up' = up
  BY DEF Relay, Links

LEMMA MoveSurvives ==
  ASSUME CenterInv, links = Links, NEW i \in ConnIds, entrys[i] # Nil, NEW fen, NEW over,
         OnMoveStep(i, fen, over)
  PROVE  up' = up
<1> DEFINE s == entrys[i]
<1>1. CASE ~(IsOnPlaying(s) /\ IsTurnToPlay(s))
  BY <1>1 DEF OnMoveStep, Ignore
<1>2. CASE IsOnPlaying(s) /\ IsTurnToPlay(s)
  <2>1. s \in Users /\ gameInfo[s] # Nil /\ OppFound(s) /\ OppInGame(s) /\ "front" \in links
    BY <1>2, InGameHasSeat DEF IsOnPlaying, IsInRoom, Links
  <2>2. ASSUME NEW before, EndGame(s, "WIN", timers, before)
        PROVE  up' = up
    BY <2>1, <2>2, EndSurvives
  <2> QED
    BY <1>2, <2>1, <2>2 DEF OnMoveStep, PassTheMove
<1> QED
  BY <1>1, <1>2

LEMMA GiveupSurvives ==
  ASSUME CenterInv, links = Links, NEW i \in ConnIds, entrys[i] # Nil, OnGiveup(i)
  PROVE  up' = up
  BY InGameHasSeat, EndSurvives DEF OnGiveup, Ignore, IsOnPlaying, IsInRoom

LEMMA AskForgiveSurvives ==
  ASSUME CenterInv, links = Links, NEW i \in ConnIds, entrys[i] # Nil, IsInRoom(entrys[i]),
         OnForgiveRequest(i)
  PROVE  up' = up
  BY InGameHasSeat, RelaySurvives DEF OnForgiveRequest, Ignore

LEMMA AskDrawSurvives ==
  ASSUME CenterInv, links = Links, NEW i \in ConnIds, entrys[i] # Nil, OnDrawRequest(i)
  PROVE  up' = up
  BY InGameHasSeat, RelaySurvives DEF OnDrawRequest, Ignore, IsOnPlaying, IsInRoom

LEMMA AnswerForgiveSurvives ==
  ASSUME CenterInv, links = Links, NEW i \in ConnIds, entrys[i] # Nil, IsInRoom(entrys[i]),
         NEW agree, NEW fen, OnForgiveResponse(i, agree, fen)
  PROVE  up' = up
<1>1. OppFound(entrys[i]) /\ OppInGame(entrys[i]) /\ "front" \in links
  BY InGameHasSeat DEF Links
<1> QED
  BY <1>1, RelaySurvives DEF OnForgiveResponse, PassTheMove, Ignore

LEMMA AnswerDrawSurvives ==
  ASSUME CenterInv, links = Links, NEW i \in ConnIds, entrys[i] # Nil, IsInRoom(entrys[i]),
         NEW agree, OnDrawResponse(i, agree)
  PROVE  up' = up
<1>1. entrys[i] \in Users /\ gameInfo[entrys[i]] # Nil /\ OppFound(entrys[i])
  BY InGameHasSeat
<1> QED
  BY <1>1, EndSurvives, RelaySurvives DEF OnDrawResponse, Ignore

LEMMA TimeOutSurvives ==
  ASSUME CenterInv, ClockOK, links = Links, NEW u \in Users, OnTimeOut(u)
  PROVE  up' = up
<1>1. gameInfo[u] # Nil
  BY DEF ClockOK, OnTimeOut
<1> QED
  BY <1>1, EndSurvives DEF OnTimeOut

LEMMA MatchSurvives ==
  ASSUME links = Links, NEW r, NEW b, NEW type, OnMatchBackendResponse(r, b, type)
  PROVE  up' = up
  BY DEF OnMatchBackendResponse, StartNewGame, Ignore, Links

LEMMA QueueSurvives ==
  ASSUME links = Links, NEW i \in ConnIds,
         \/ entrys[i] # Nil /\ \E type \in RoomTypes : OnMatchRequest(i, type)
         \/ OnCancelMatchRequest(i)
  PROVE  up' = up
  BY DEF OnMatchRequest, OnCancelMatchRequest, Ignore, Links

\* Of the steps of OtherThanLateAnswer none ends the process.
LEMMA OthersSurvive ==
  ASSUME OInv, links = Links, OtherThanLateAnswer
  PROVE  up' = up
<1>1. CenterInv
  BY IInvIsCenterInv DEF OInv
<1>2. ASSUME NEW i \in ConnIds, LoggedIn(i)
      PROVE  entrys[i] # Nil
  BY <1>2 DEF OInv, IInv, CallersOK
<1>3. ASSUME NEW i \in ConnIds, client[i] = "game"
      PROVE  entrys[i] # Nil
  BY <1>2, <1>3 DEF LoggedIn
<1>4. ASSUME NEW i \in ConnIds, i \in forgiveAsked \cup drawAsked
      PROVE  entrys[i] # Nil
  BY <1>4 DEF OInv, AskedOK, Connected
<1>5. ASSUME NEW i \in ConnIds, CloseConnection(i) \/ CancelMatch(i) \/ Giveup(i) \/ AskDraw(i)
      PROVE  up' = up
  BY <1>1, <1>3, <1>5, CloseKeepsOthers, QueueSurvives, GiveupSurvives, AskDrawSurvives
     DEF CancelMatch, Giveup, AskDraw
<1>6. ASSUME NEW i \in ConnIds, NEW u \in Users, AskLogin(i, u)
      PROVE  up' = up
  BY <1>6 DEF AskLogin, OnLoginRequest, Links
<1>7. ASSUME NEW i \in ConnIds, NEW u \in Users, NEW info \in LoginInfos, NEW more \in BOOLEAN,
             LoginSucceeds(i, u, info, more)
      PROVE  up' = up
  BY <1>7, LoginOutcome DEF LoginSucceeds, OInv
<1>8. ASSUME NEW i \in ConnIds, NEW u \in Users, NEW more \in BOOLEAN, LoginFails(i, u, more)
      PROVE  up' = up
  BY <1>8 DEF LoginFails, OnLoginFailedResponse, Links
<1>9. ASSUME NEW i \in ConnIds, NEW type \in RoomTypes, AskMatch(i, type)
      PROVE  up' = up
  BY <1>2, <1>9, QueueSurvives DEF AskMatch
<1>10. ASSUME NEW r \in Users, NEW b \in Users, NEW type \in RoomTypes, MatchFound(r, b, type)
       PROVE  up' = up
  BY <1>10, MatchSurvives DEF MatchFound
<1>11. ASSUME NEW i \in ConnIds, NEW fen \in Fens, NEW over \in BOOLEAN, Move(i, fen, over)
       PROVE  up' = up
  BY <1>1, <1>3, <1>11, MoveSurvives DEF Move
<1>12. ASSUME NEW i \in ConnIds, ~IsLate(i), AskForgive(i)
       PROVE  up' = up
  BY <1>1, <1>3, <1>12, AskForgiveSurvives DEF AskForgive, IsLate
<1>13. ASSUME NEW i \in ConnIds, ~IsLate(i), NEW agree \in BOOLEAN, NEW fen \in Fens,
              AnswerForgive(i, agree, fen)
       PROVE  up' = up
  BY <1>1, <1>4, <1>13, AnswerForgiveSurvives DEF AnswerForgive, IsLate
<1>14. ASSUME NEW i \in ConnIds, ~IsLate(i), NEW agree \in BOOLEAN, AnswerDraw(i, agree)
       PROVE  up' = up
  BY <1>1, <1>4, <1>14, AnswerDrawSurvives DEF AnswerDraw, IsLate
<1>15. ASSUME NEW u \in Users, TimeOut(u)
       PROVE  up' = up
  BY <1>1, <1>15, TimeOutSurvives DEF TimeOut, OInv, IInv
<1> QED
  BY <1>5, <1>6, <1>7, <1>8, <1>9, <1>10, <1>11, <1>12, <1>13, <1>14, <1>15
     DEF OtherThanLateAnswer

-----------------------------------------------------------------------------
(* The invariant, and the first theorem.                                   *)

LEMMA NextOInv == OInv /\ [Next]_vars => OInv'
<1> SUFFICES ASSUME OInv, [Next]_vars
             PROVE  OInv'
  OBVIOUS
<1>0. CenterInv /\ IInv
  BY IInvIsCenterInv DEF OInv
<1>1. IInv'
  BY <1>0, NextIInv
<1>2. AskedOK'
  <2>1. CASE UNCHANGED vars
    BY <2>1, AskedStays, QuietConnected DEF vars, centerVars, sessionVars, AskedNow
  <2>2. ASSUME NEW i \in ConnIds, OpenConnection(i)
        PROVE  AskedOK'
    BY <2>2, AskedStays, QuietConnected DEF OpenConnection, Ignore, AskedNow
  <2>3. ASSUME NEW i \in ConnIds, CloseConnection(i)
        PROVE  AskedOK'
    BY <2>3, CloseKeepsOthers
  <2>4. ASSUME NEW i \in ConnIds, NEW u \in Users, AskLogin(i, u)
        PROVE  AskedOK'
    BY <2>4, AskedStays, QuietConnected DEF AskLogin, OnLoginRequest, Crash, AskedNow
  <2>5. ASSUME NEW i \in ConnIds, NEW u \in Users, NEW info \in LoginInfos, NEW more \in BOOLEAN,
               LoginSucceeds(i, u, info, more)
        PROVE  AskedOK'
    BY <1>0, <2>5, LoginOutcome, AskedUnlessAsking DEF LoginSucceeds
  <2>6. ASSUME NEW i \in ConnIds, NEW u \in Users, NEW more \in BOOLEAN, LoginFails(i, u, more)
        PROVE  AskedOK'
    BY <2>6, AskedStays, QuietConnected DEF LoginFails, OnLoginFailedResponse, Crash, AskedNow
  <2>7. ASSUME NEW l \in Flaky, LinkDown(l) \/ LinkUp(l)
        PROVE  AskedOK'
    BY <2>7, AskedStays, QuietConnected
       DEF LinkDown, LinkUp, OnConnection, OnDisconnection, sessionVars, AskedNow
  <2>8. ASSUME NEW i \in ConnIds, NEW type \in RoomTypes, AskMatch(i, type)
        PROVE  AskedOK'
    BY <1>0, <2>8, MatchRequestKept, KeptConnected, AskedStays DEF AskMatch, sessionVars, AskedNow
  <2>9. ASSUME NEW i \in ConnIds, CancelMatch(i)
        PROVE  AskedOK'
    BY <1>0, <2>9, CancelMatchRequestKept, KeptConnected, AskedStays
       DEF CancelMatch, sessionVars, AskedNow
  <2>10. ASSUME NEW r \in Users, NEW b \in Users, NEW type \in RoomTypes, MatchFound(r, b, type)
         PROVE  AskedOK'
    BY <1>0, <2>10, MatchBackendResponseKept, KeptConnected, MatchAsksNobody, AskedUnlessAsking
       DEF MatchFound
  <2>11. ASSUME NEW i \in ConnIds, NEW fen \in Fens, NEW over \in BOOLEAN, Move(i, fen, over)
         PROVE  AskedOK'
    BY <1>0, <2>11, MoveStepKept, KeptConnected, MoveAsksNobody, AskedUnlessAsking DEF Move
  <2>12. ASSUME NEW i \in ConnIds, Giveup(i)
         PROVE  AskedOK'
    BY <1>0, <2>12, GiveupKept, KeptConnected, GiveupAsksNobody, AskedUnlessAsking DEF Giveup
  <2>13. ASSUME NEW i \in ConnIds, AskForgive(i)
         PROVE  AskedOK'
    BY <1>0, <2>13, ForgiveRequestKept, KeptConnected, AskForgiveAsks, AskedHears DEF AskForgive
  <2>14. ASSUME NEW i \in ConnIds, AskDraw(i)
         PROVE  AskedOK'
    BY <1>0, <2>14, DrawRequestKept, KeptConnected, AskDrawAsks, AskedHears DEF AskDraw
  <2>15. ASSUME NEW i \in ConnIds, NEW agree \in BOOLEAN, NEW fen \in Fens,
                AnswerForgive(i, agree, fen)
         PROVE  AskedOK'
    BY <1>0, <2>15, ForgiveResponseKept, KeptConnected, AskedStays
       DEF AnswerForgive, ContractTakeBack, AskedNow
  <2>16. ASSUME NEW i \in ConnIds, NEW agree \in BOOLEAN, AnswerDraw(i, agree)
         PROVE  AskedOK'
    BY <1>0, <2>16, DrawResponseKept, KeptConnected, AskedStays DEF AnswerDraw, AskedNow
  <2>17. ASSUME NEW u \in Users, TimeOut(u)
         PROVE  AskedOK'
    BY <1>0, <2>17, TimeOutKept, KeptConnected, AskedStays DEF TimeOut, sessionVars, AskedNow, IInv
  <2> QED
    BY <2>1, <2>2, <2>3, <2>4, <2>5, <2>6, <2>7, <2>8, <2>9, <2>10, <2>11, <2>12, <2>13,
       <2>14, <2>15, <2>16, <2>17 DEF Next
<1> QED
  BY <1>1, <1>2 DEF OInv

LEMMA OutcomeInvariance == Spec => []OInv
<1>1. Init => OInv
  BY InitIInv DEF Init, OInv, AskedOK
<1> QED
  BY <1>1, NextOInv, PTL DEF Spec

\* While the three links are up, only a take-back request, or an answer to one
\* or to a draw, from a player whose game is over ends the process.
THEOREM OnlyLateAnswersCrashAlways == Spec => OnlyLateAnswersCrash
<1>1. OInv => (up /\ ~up' /\ links = Links => ~OtherThanLateAnswer)
  BY OthersSurvive
<1>2. OInv => [up /\ ~up' /\ links = Links => ~OtherThanLateAnswer]_vars
  BY <1>1
<1> QED
  BY <1>2, OutcomeInvariance, PTL DEF OnlyLateAnswersCrash

-----------------------------------------------------------------------------
(* Every game is settled once.                                             *)

NoReport == \A k \in DOMAIN sent' : sent'[k].type # "UpdateUserInfo"
GamesStay == \A u \in Users : gameInfo[u] # Nil => gameInfo'[u] = gameInfo[u]

\* A room is there as long as the seat of its red player is.
LEMMA NothingEnds ==
  ASSUME CenterInv, CenterInv', GamesStay, NoReport
  PROVE  SettlesOnce
<1>1. ASSUME NEW r \in Users, rooms[r] # Nil
      PROVE  rooms'[r] # Nil
  <2>1. gameInfo[r] # Nil /\ gameInfo[r].room = r
    BY <1>1 DEF CenterInv, RoomOK
  <2>2. gameInfo'[r] # Nil /\ gameInfo'[r].room = r
    BY <2>1 DEF GamesStay
  <2>3. RoomOf(r)' # Nil
    BY <2>2 DEF CenterInv, RoomOK
  <2> QED
    BY <2>2, <2>3 DEF RoomOf
<1>2. Ended = {}
  BY <1>1 DEF Ended
<1>3. Reports = {}
  BY DEF Reports, NoReport
<1> QED
  BY <1>2, <1>3 DEF SettlesOnce

LEMMA QuietSettles ==
  ASSUME UNCHANGED rooms, NoReport
  PROVE  SettlesOnce
  BY DEF SettlesOnce, Ended, Reports, NoReport

LEMMA OneNoReport ==
  ASSUME NEW to, NEW id, NEW type, NEW data, type # "UpdateUserInfo", NEW cond,
         \/ sent' = <<>>
         \/ sent' = <<Msg(to, id, type, data)>>
         \/ sent' = If(cond, <<Msg(to, id, type, data)>>)
  PROVE  NoReport
  BY DEF NoReport, Msg, If

LEMMA IgnoreSettles ==
  ASSUME Ignore \/ Crash
  PROVE  SettlesOnce
<1>1. NoReport /\ UNCHANGED rooms
  BY DEF NoReport, Ignore, Crash, gameVars
<1> QED
  BY <1>1, QuietSettles

LEMMA RelaySettles ==
  ASSUME NEW o, NEW type, NEW data, type # "UpdateUserInfo", Relay(o, type, data)
  PROVE  SettlesOnce
<1>1. CASE Crash
  BY <1>1, IgnoreSettles
<1>2. CASE sent' = <<Msg("front", connId[o], type, data)>> /\ UNCHANGED gameVars
  BY <1>2, OneNoReport, QuietSettles DEF gameVars
<1> QED
  BY <1>1, <1>2 DEF Relay

\* What one player gains the other loses.
LEMMA Balanced ==
  ASSUME NEW p \in Info, NEW q \in Info, NEW over \in OverTypes
  PROVE  LET change == GetChangeScore(over)
             a == UpdateUserInfo(p, change, SelfResult(over))
             b == UpdateUserInfo(q, -change, OppResult(over))
         IN  /\ a.score - p.score = q.score - b.score
             /\ a.total = p.total + 1 /\ b.total = q.total + 1
             /\ a.nwin - p.nwin = b.nloss - q.nloss
             /\ a.nloss - p.nloss = b.nwin - q.nwin
<1>1. /\ p.score \in Int /\ p.total \in Nat /\ p.nwin \in Nat /\ p.nloss \in Nat
      /\ q.score \in Int /\ q.total \in Nat /\ q.nwin \in Nat /\ q.nloss \in Nat
  BY DEF Info
<1>2. /\ GetChangeScore(over) \in Int
      /\ (SelfResult(over) = "WIN") <=> (OppResult(over) = "LOSS")
      /\ (SelfResult(over) = "LOSS") <=> (OppResult(over) = "WIN")
  BY DEF OverTypes, GetChangeScore, SelfResult, OppResult
<1> QED
  BY <1>1, <1>2 DEF UpdateUserInfo

LEMMA EndSettles ==
  ASSUME CenterInv, NEW s \in Users, NEW over \in OverTypes, NEW ts, NEW S,
         NEW before \in Seq(S), \A k \in DOMAIN before : before[k].type # "UpdateUserInfo",
         gameInfo[s] # Nil, EndGame(s, over, ts, before)
  PROVE  SettlesOnce
<1>1. CASE Crash
  BY <1>1, IgnoreSettles
<1>2. CASE GameOver(s, FindOppEntry(s), over, ts, before)
  <2>1. PICK o : o = FindOppEntry(s)
    OBVIOUS
  <2>2. /\ o \in Users \ {s} /\ o = gameInfo[s].opp
        /\ IsInRoom(s) /\ IsInRoom(o)
    BY <2>1, OppIsFound
  <2>3. PICK q : q = sent'
    OBVIOUS
  <2>4. q = before \o GameOverMsgs(s, o, over)
    BY <1>2, <2>1, <2>3 DEF GameOver
  <2>5. PICK n : n = Len(before)
    OBVIOUS
  <2>6. /\ n \in Nat /\ DOMAIN before = 1..n /\ DOMAIN q \subseteq Nat
        /\ n + 1 \in DOMAIN q /\ n + 2 \in DOMAIN q
        /\ q[n + 1] = UpdateUserInfoMsg(s, SelfInfo(s, over))
        /\ q[n + 2] = UpdateUserInfoMsg(o, OppInfo(o, over))
        /\ \A k \in DOMAIN q : \/ k \in DOMAIN before /\ q[k] = before[k]
                               \/ k \in {n + 1, n + 2}
                               \/ q[k].type = "GameOver"
    <3>1. /\ Len(before) \in Nat /\ DOMAIN before = 1..Len(before)
          /\ DOMAIN q \subseteq Nat
          /\ Len(before) + 1 \in DOMAIN q /\ Len(before) + 2 \in DOMAIN q
          /\ q[Len(before) + 1] = UpdateUserInfoMsg(s, SelfInfo(s, over))
          /\ q[Len(before) + 2] = UpdateUserInfoMsg(o, OppInfo(o, over))
          /\ \A k \in DOMAIN q : \/ k \in DOMAIN before /\ q[k] = before[k]
                                 \/ k \in {Len(before) + 1, Len(before) + 2}
                                 \/ q[k].type = "GameOver"
      BY <2>4, GameOverSent
    <3> QED
      BY <2>5, <3>1
  <2>7. Reports = {n + 1, n + 2}
    <3>1. /\ q[n + 1].type = "UpdateUserInfo" /\ q[n + 2].type = "UpdateUserInfo"
      BY <2>6 DEF UpdateUserInfoMsg, Msg
    <3>2. Reports = {k \in DOMAIN q : q[k].type = "UpdateUserInfo"}
      BY <2>3 DEF Reports
    <3> QED
      BY <2>6, <3>1, <3>2
  <2>8. /\ gameInfo' = [u \in Users |-> IF u \in {s, o} THEN Nil ELSE gameInfo[u]]
        /\ rooms' = [rooms EXCEPT ![gameInfo[s].room] = Nil]
    BY <1>2, <2>1 DEF GameOver, DestroyRoom, Erase
  <2>9. Ended # {}
    <3>1. gameInfo[s].room \in Users /\ rooms[gameInfo[s].room] # Nil
      BY NilAssumption DEF CenterInv, TypeOK, RoomOK, RoomOf, GameInfo
    <3>2. rooms'[gameInfo[s].room] = Nil
      BY <2>8, <3>1 DEF CenterInv, TypeOK
    <3> QED
      BY <3>1, <3>2 DEF Ended
  <2>10. Settled(q[n + 1], q[n + 2])
    <3>1. PICK a, b : a = SelfInfo(s, over) /\ b = OppInfo(o, over)
      OBVIOUS
    <3>2. /\ q[n + 1].data.username = s /\ q[n + 1].data.info = a
          /\ q[n + 2].data.username = o /\ q[n + 2].data.info = b
      BY <2>6, <3>1 DEF UpdateUserInfoMsg, Msg
    <3>3. userInfo[s] \in Info /\ userInfo[o] \in Info
      BY <2>2, SeatHasId DEF IsInRoom
    <3>4. /\ a.score - userInfo[s].score = userInfo[o].score - b.score
          /\ a.total = userInfo[s].total + 1 /\ b.total = userInfo[o].total + 1
          /\ a.nwin - userInfo[s].nwin = b.nloss - userInfo[o].nloss
          /\ a.nloss - userInfo[s].nloss = b.nwin - userInfo[o].nwin
      BY <3>1, <3>3, Balanced DEF SelfInfo, OppInfo
    <3>5. gameInfo'[s] = Nil /\ gameInfo'[o] = Nil
      BY <2>2, <2>8
    <3> QED
      BY <2>2, <3>2, <3>4, <3>5 DEF Settled
  <2>11. n + 2 = (n + 1) + 1
    BY <2>6
  <2> QED
    BY <2>3, <2>6, <2>7, <2>9, <2>10, <2>11 DEF SettlesOnce
<1> QED
  BY <1>1, <1>2 DEF EndGame

LEMMA EmptyBefore == <<>> \in Seq({}) /\ \A k \in DOMAIN <<>> : <<>>[k].type # "UpdateUserInfo"
  OBVIOUS

LEMMA PassSettles ==
  ASSUME CenterInv, CenterInv', NEW s, NEW o, NEW fen, NEW step, PassTheMove(s, o, fen, step),
         NoReport
  PROVE  SettlesOnce
  BY NothingEnds DEF PassTheMove, GamesStay

LEMMA MoveSettles ==
  ASSUME CenterInv, CenterInv', NEW i \in ConnIds, NEW fen \in Fens, NEW over \in BOOLEAN,
         OnMoveStep(i, fen, over)
  PROVE  SettlesOnce
<1> DEFINE s == entrys[i]
           o == FindOppEntry(s)
           m == Msg("front", connId[o], "MoveStep", [over |-> over, fen |-> fen])
<1>1. CASE Ignore \/ Crash
  BY <1>1, IgnoreSettles
<1>2. CASE PassTheMove(s, o, fen, 1) /\ sent' = If(IsOnPlaying(o), <<m>>)
  BY <1>2, OneNoReport, PassSettles
<1>3. CASE s # Nil /\ IsOnPlaying(s) /\ EndGame(s, "WIN", timers, If(IsOnPlaying(o), <<m>>))
  <2>1. PICK before : before = If(IsOnPlaying(o), <<m>>)
    OBVIOUS
  <2>2. before = <<>> \/ before = <<m>>
    BY <2>1 DEF If
  <2>3. m.type = "MoveStep"
    BY DEF Msg
  <2>4. s \in Users /\ gameInfo[s] # Nil
    BY <1>3, InGameHasSeat DEF IsOnPlaying, IsInRoom
  <2>5. EndGame(s, "WIN", timers, before) /\ "WIN" \in OverTypes
    BY <1>3, <2>1 DEF OverTypes
  <2> HIDE DEF m
  <2>6. before \in Seq({m}) /\ \A k \in DOMAIN before : before[k].type = "MoveStep"
    <3>1. CASE before = <<>>
      BY <3>1
    <3>2. CASE before = <<m>>
      BY <2>3, <3>2
    <3> QED
      BY <2>2, <3>1, <3>2
  <2> QED
    BY <2>4, <2>5, <2>6, EndSettles
<1> QED
  BY <1>1, <1>2, <1>3 DEF OnMoveStep

LEMMA GiveupSettles ==
  ASSUME CenterInv, NEW i \in ConnIds, OnGiveup(i)
  PROVE  SettlesOnce
<1>1. "SELF_GIVEUP" \in OverTypes
  BY DEF OverTypes
<1>2. CASE /\ entrys[i] # Nil /\ IsOnPlaying(entrys[i])
           /\ EndGame(entrys[i], "SELF_GIVEUP", timers, <<>>)
  <2>1. entrys[i] \in Users /\ gameInfo[entrys[i]] # Nil
    BY <1>2, InGameHasSeat DEF IsOnPlaying, IsInRoom
  <2> QED
    BY <1>1, <1>2, <2>1, EmptyBefore, EndSettles
<1> QED
  BY <1>2, IgnoreSettles DEF OnGiveup

LEMMA AnswerForgiveSettles ==
  ASSUME CenterInv, CenterInv', NEW i \in ConnIds, NEW agree, NEW fen,
         OnForgiveResponse(i, agree, fen)
  PROVE  SettlesOnce
<1> DEFINE o == FindOppEntry(entrys[i])
<1>1. CASE /\ PassTheMove(entrys[i], o, fen, -1)
           /\ sent' = If(IsOnPlaying(o), <<Msg("front", connId[o], "ForgiveResponse", [agree |-> TRUE])>>)
  BY <1>1, OneNoReport, PassSettles
<1> QED
  BY <1>1, IgnoreSettles, RelaySettles DEF OnForgiveResponse

LEMMA AnswerDrawSettles ==
  ASSUME CenterInv, NEW i \in ConnIds, NEW agree, OnDrawResponse(i, agree)
  PROVE  SettlesOnce
<1>1. "DRAW" \in OverTypes
  BY DEF OverTypes
<1>2. CASE entrys[i] # Nil /\ OppFound(entrys[i]) /\ EndGame(entrys[i], "DRAW", timers, <<>>)
  BY <1>1, <1>2, FoundIsInHall, EmptyBefore, EndSettles
<1> QED
  BY <1>2, IgnoreSettles, RelaySettles DEF OnDrawResponse

LEMMA TimeOutSettles ==
  ASSUME CenterInv, ClockOK, NEW u \in Users, OnTimeOut(u)
  PROVE  SettlesOnce
<1>1. "SELF_TIMEOUT" \in OverTypes /\ gameInfo[u] # Nil
  BY DEF OverTypes, ClockOK, OnTimeOut
<1> QED
  BY <1>1, EmptyBefore, EndSettles DEF OnTimeOut

LEMMA MatchSettles ==
  ASSUME CenterInv, CenterInv', NEW r \in Users, NEW b \in Users, NEW type,
         OnMatchBackendResponse(r, b, type)
  PROVE  SettlesOnce
<1>1. ASSUME NEW x \in Users, NEW y \in Users, state[x] = "kMatching", state[y] = "kMatching",
             StartNewGame(x, y, type)
      PROVE  SettlesOnce
  <2>1. PICK m, n : /\ sent' = <<m, n>>
                    /\ m.type = "MatchResponse" /\ n.type = "MatchResponse"
    BY <1>1 DEF StartNewGame, MatchResponseMsg, Msg
  <2>2. NoReport
    BY <2>1 DEF NoReport
  <2>3. gameInfo[x] = Nil /\ gameInfo[y] = Nil
    BY <1>1 DEF CenterInv, RoomOK, IsInRoom
  <2>4. GamesStay
    BY <1>1, <2>3 DEF GamesStay, StartNewGame, CenterInv, TypeOK
  <2> QED
    BY <2>2, <2>4, NothingEnds
<1>2. FindEntryByUsername(r) \in Users \cup {Nil} /\ FindEntryByUsername(b) \in Users \cup {Nil}
  BY DEF FindEntryByUsername, CenterInv, TypeOK
<1> QED
  BY <1>1, <1>2, IgnoreSettles DEF OnMatchBackendResponse

LEMMA LoginSettles ==
  ASSUME NEW i, NEW u, NEW info, OnLoginSuccessResponse(i, u, info)
  PROVE  SettlesOnce
<1>1. CASE Ignore \/ Crash
  BY <1>1, IgnoreSettles
<1>2. CASE /\ UNCHANGED gameVars
           /\ sent' = <<Msg("front", i, "LoginSuccessResponse", [username |-> u, info |-> info])>>
  BY <1>2, OneNoReport, QuietSettles DEF gameVars
<1>3. CASE /\ UNCHANGED gameVars
           /\ sent' = <<Msg("front", i, "LoginFailedResponse", [reason |-> "MULTI_LOGIN"])>>
  BY <1>3, OneNoReport, QuietSettles DEF gameVars
<1>4. ASSUME NEW oldId, NEW e, OnReconnected(i, oldId, e)
      PROVE  SettlesOnce
  <2>1. CASE Crash
    BY <2>1, IgnoreSettles
  <2>2. ASSUME NEW cond, NEW to, UNCHANGED gameVars,
               sent' = If(cond, <<Msg("front", to, "OppReconnected", NoBody)>>)
                       \o <<SituationMsg(e, i)>>
        PROVE  SettlesOnce
    <3>1. NoReport
      BY <2>2 DEF NoReport, If, Msg, SituationMsg
    <3> QED
      BY <2>2, <3>1, QuietSettles DEF gameVars
  <2> QED
    BY Zenon, <1>4, <2>1, <2>2 DEF OnReconnected
<1> QED
  BY <1>1, <1>2, <1>3, <1>4 DEF OnLoginSuccessResponse

LEMMA HallSettles ==
  ASSUME NEW i \in ConnIds,
         \/ OnDisconnected(i)
         \/ \E u \in Users : OnLoginRequest(i, u)
         \/ OnLoginFailedResponse(i)
         \/ \E type \in RoomTypes : OnMatchRequest(i, type)
         \/ OnCancelMatchRequest(i)
         \/ OnForgiveRequest(i)
         \/ OnDrawRequest(i)
  PROVE  SettlesOnce
<1>1. CASE Ignore \/ Crash
  BY <1>1, IgnoreSettles
<1>2. ASSUME NEW to, NEW id, NEW type, NEW data, type # "UpdateUserInfo", NEW cond,
             UNCHANGED gameVars,
             \/ sent' = <<>>
             \/ sent' = <<Msg(to, id, type, data)>>
             \/ sent' = If(cond, <<Msg(to, id, type, data)>>)
      PROVE  SettlesOnce
  BY <1>2, OneNoReport, QuietSettles DEF gameVars
<1>3. ASSUME NEW e, sent' = <<CancelMatchMsg(e)>>, UNCHANGED gameVars
      PROVE  SettlesOnce
  <2>1. NoReport
    BY <1>3 DEF NoReport, CancelMatchMsg, Msg
  <2> QED
    BY <1>3, <2>1, QuietSettles DEF gameVars
<1>4. CASE OnDisconnected(i)
  <2> DEFINE e == entrys[i]
             o == FindOppEntry(e)
  <2>1. ASSUME sent' = If(IsOnPlaying(o) /\ o # e,
                          <<Msg("front", connId[o], "OppDisconnected", NoBody)>>),
               UNCHANGED gameVars
        PROVE  SettlesOnce
    BY <1>2, <2>1
  <2>2. ASSUME sent' = <<>>, UNCHANGED gameVars
        PROVE  SettlesOnce
    BY <2>2, QuietSettles DEF NoReport, gameVars
  <2> QED
    BY <1>1, <1>3, <1>4, <2>1, <2>2 DEF OnDisconnected
<1>5. CASE (\E u \in Users : OnLoginRequest(i, u)) \/ OnLoginFailedResponse(i)
  BY <1>1, <1>2, <1>5 DEF OnLoginRequest, OnLoginFailedResponse
<1>6. CASE \E type \in RoomTypes : OnMatchRequest(i, type)
  <2>1. ASSUME NEW data, sent' = <<Msg("match", i, "MatchBackendRequest", data)>>,
               UNCHANGED gameVars
        PROVE  SettlesOnce
    BY <1>2, <2>1
  <2> QED
    BY <1>1, <1>6, <2>1 DEF OnMatchRequest
<1>7. CASE OnCancelMatchRequest(i)
  BY <1>1, <1>3, <1>7 DEF OnCancelMatchRequest
<1>8. CASE OnForgiveRequest(i)
  BY <1>1, <1>8, RelaySettles DEF OnForgiveRequest
<1>9. CASE OnDrawRequest(i)
  BY <1>1, <1>9, RelaySettles DEF OnDrawRequest
<1> QED
  BY <1>4, <1>5, <1>6, <1>7, <1>8, <1>9

LEMMA NextSettles == IInv /\ IInv' /\ [Next]_vars => [SettlesOnce]_vars
<1> SUFFICES ASSUME IInv, IInv', Next
             PROVE  SettlesOnce
  OBVIOUS
<1>0. CenterInv /\ CenterInv'
  BY IInvIsCenterInv DEF IInv, CenterInv, SessionTypeOK
<1>1. ASSUME NEW i \in ConnIds, OpenConnection(i)
      PROVE  SettlesOnce
  BY <1>1, IgnoreSettles DEF OpenConnection
<1>2. ASSUME NEW i \in ConnIds, CloseConnection(i) \/ CancelMatch(i) \/ AskForgive(i) \/ AskDraw(i)
      PROVE  SettlesOnce
  BY <1>2, HallSettles DEF CloseConnection, CancelMatch, AskForgive, AskDraw
<1>3. ASSUME NEW i \in ConnIds, NEW u \in Users, AskLogin(i, u)
      PROVE  SettlesOnce
  BY <1>3, HallSettles DEF AskLogin
<1>4. ASSUME NEW i \in ConnIds, NEW u \in Users, NEW info \in LoginInfos, NEW more \in BOOLEAN,
             LoginSucceeds(i, u, info, more)
      PROVE  SettlesOnce
  BY <1>4, LoginSettles DEF LoginSucceeds
<1>5. ASSUME NEW i \in ConnIds, NEW u \in Users, NEW more \in BOOLEAN, LoginFails(i, u, more)
      PROVE  SettlesOnce
  BY <1>5, HallSettles DEF LoginFails
<1>6. ASSUME NEW l \in Flaky, LinkDown(l) \/ LinkUp(l)
      PROVE  SettlesOnce
  <2>1. sent' = <<>> /\ UNCHANGED rooms
    BY <1>6 DEF LinkDown, LinkUp, OnConnection, OnDisconnection, gameVars
  <2> QED
    BY <2>1, QuietSettles DEF NoReport
<1>7. ASSUME NEW i \in ConnIds, NEW type \in RoomTypes, AskMatch(i, type)
      PROVE  SettlesOnce
  BY <1>7, HallSettles DEF AskMatch
<1>8. ASSUME NEW r \in Users, NEW b \in Users, NEW type \in RoomTypes, MatchFound(r, b, type)
      PROVE  SettlesOnce
  BY <1>0, <1>8, MatchSettles DEF MatchFound
<1>9. ASSUME NEW i \in ConnIds, NEW fen \in Fens, NEW over \in BOOLEAN, Move(i, fen, over)
      PROVE  SettlesOnce
  BY <1>0, <1>9, MoveSettles DEF Move
<1>10. ASSUME NEW i \in ConnIds, Giveup(i)
       PROVE  SettlesOnce
  BY <1>0, <1>10, GiveupSettles DEF Giveup
<1>11. ASSUME NEW i \in ConnIds, NEW agree \in BOOLEAN, NEW fen \in Fens,
              AnswerForgive(i, agree, fen)
       PROVE  SettlesOnce
  BY <1>0, <1>11, AnswerForgiveSettles DEF AnswerForgive
<1>12. ASSUME NEW i \in ConnIds, NEW agree \in BOOLEAN, AnswerDraw(i, agree)
       PROVE  SettlesOnce
  BY <1>0, <1>12, AnswerDrawSettles DEF AnswerDraw
<1>13. ASSUME NEW u \in Users, TimeOut(u)
       PROVE  SettlesOnce
  BY <1>0, <1>13, TimeOutSettles DEF TimeOut, IInv
<1> QED
  BY <1>1, <1>2, <1>3, <1>4, <1>5, <1>6, <1>7, <1>8, <1>9, <1>10, <1>11, <1>12, <1>13 DEF Next

\* However a game ends, by a mate, a surrender, an agreed draw or the clock
\* (gameOver), its two players' results are reported once each and balance;
\* nothing else reports a result.
THEOREM SettledOnceAlways == Spec => SettledOnce
<1>1. Spec => [][IInv /\ IInv' /\ [Next]_vars]_vars
  BY Invariance, PTL DEF Spec
<1> QED
  BY <1>1, NextSettles, Invariance, PTL DEF Spec, SettledOnce

-----------------------------------------------------------------------------
(* What is under way to a page and what it makes of it.  Of the messages   *)
(* that are news about its user's record a page knows either the record    *)
(* as it was before the only game, or as it is.                            *)

GameResult == [type : GameOverTypes, changescore : Int]

Said ==
  [type : {"LoginRequest"}, data : [username : Users]]
  \cup [type : {"MatchRequest"}, data : [type : RoomTypes]]
  \cup [type : {"MoveStep"}, data : [over : BOOLEAN, fen : Fens \ {<<>>}]]
  \cup [type : {"ForgiveResponse", "DrawResponse"}, data : [agree : BOOLEAN, fen : Fens]]
  \cup [type : {"Disconnected", "CancelMatchRequest", "Giveup", "ForgiveRequest", "DrawRequest"},
        data : {NoBody}]

Heard ==
  {m \in [type : MessageTypes, data : Body, self : Info \cup {Nil}] :
     /\ m.type = "MoveStep" => m.data.fen \in Fens \ {<<>>}
     /\ m.type = "GameSituation" => m.data.fen \in Fens \cup {Nil} /\ m.self \in Info
     /\ m.type = "LoginSuccessResponse" => m.data.info \in Info
     /\ m.type = "GameOver" => m.data \in GameResult}

IsTell(m) == m.type \in {"LoginSuccessResponse", "GameSituation"}
IsOver(m) == m.type = "GameOver"
ToldInfo(m) == IF m.type = "GameSituation" THEN m.self ELSE m.data.info

NoTell(q) == \A k \in DOMAIN q : ~IsTell(q[k])
NoOver(q) == \A k \in DOMAIN q : ~IsOver(q[k])

\* What the page has been told, or will be before it hears of the result d.
Known(q, d, r) == IF d = Nil /\ NoOver(q) THEN r ELSE NewUser
Counts(d, r) == r = Counted(NewUser, d.type, d.changescore)

\* A page with the messages q under way to it, that owes its user the result
\* d and takes s for its record, will come to the record r.
Fits(q, d, s, r) ==
  /\ \A k \in DOMAIN q : IsTell(q[k]) =>
       /\ ToldInfo(q[k]) = Known(q, d, r)
       /\ d = Nil
       /\ \A l \in DOMAIN q : IsOver(q[l]) => k < l
  /\ NoTell(q) => s = Known(q, d, r)
  /\ \A k \in DOMAIN q : IsOver(q[k]) =>
       /\ d = Nil
       /\ Counts(q[k].data, r)
       /\ \A l \in DOMAIN q : IsOver(q[l]) => k = l
  /\ d # Nil => Counts(d, r)

LEMMA TailOf ==
  ASSUME NEW S, NEW q \in Seq(S), q # <<>>
  PROVE  /\ Tail(q) \in Seq(S)
         /\ 1 \in DOMAIN q /\ Head(q) = q[1] /\ Head(q) \in S
         /\ \A k \in DOMAIN Tail(q) : k + 1 \in DOMAIN q /\ Tail(q)[k] = q[k + 1]
         /\ \A k \in DOMAIN q : k # 1 => k - 1 \in DOMAIN Tail(q) /\ Tail(q)[k - 1] = q[k]
         /\ DOMAIN q \subseteq Nat \ {0} /\ DOMAIN Tail(q) \subseteq Nat \ {0}
<1>1. Len(q) \in Nat \ {0}
  OBVIOUS
<1>2. Tail(q) \in Seq(S) /\ Len(Tail(q)) = Len(q) - 1
  BY <1>1
<1>3. DOMAIN q = 1..Len(q) /\ DOMAIN Tail(q) = 1..(Len(q) - 1)
  BY <1>1, <1>2
<1>4. \A k \in 1..(Len(q) - 1) : Tail(q)[k] = q[k + 1]
  BY <1>1
<1> QED
  BY <1>1, <1>2, <1>3, <1>4

\* Of what is left after the first message, nothing is new.
LEMMA TailNews ==
  ASSUME NEW q \in Seq(Heard), q # <<>>
  PROVE  /\ NoTell(q) <=> ~IsTell(Head(q)) /\ NoTell(Tail(q))
         /\ NoOver(q) <=> ~IsOver(Head(q)) /\ NoOver(Tail(q))
<1>1. ASSUME NEW k \in DOMAIN q
      PROVE  q[k] = Head(q) \/ \E l \in DOMAIN Tail(q) : q[k] = Tail(q)[l]
  <2>1. CASE k = 1
    BY <2>1, TailOf
  <2>2. CASE k # 1
    <3>1. k - 1 \in DOMAIN Tail(q) /\ Tail(q)[k - 1] = q[k]
      BY <2>2, TailOf
    <3> QED
      BY <3>1
  <2> QED
    BY <2>1, <2>2
<1>2. \A l \in DOMAIN Tail(q) : \E k \in DOMAIN q : q[k] = Tail(q)[l]
  BY TailOf
<1>3. \E k \in DOMAIN q : q[k] = Head(q)
  BY TailOf
<1> QED
  BY <1>1, <1>2, <1>3 DEF NoTell, NoOver

\* A message that says nothing of the record.
LEMMA OtherHeard ==
  ASSUME NEW q \in Seq(Heard), q # <<>>, ~IsTell(Head(q)), ~IsOver(Head(q)),
         NEW d, NEW s, NEW r, Fits(q, d, s, r)
  PROVE  Fits(Tail(q), d, s, r)
<1>1. Known(Tail(q), d, r) = Known(q, d, r)
  BY TailNews DEF Known
<1>2. NoTell(Tail(q)) => NoTell(q)
  BY TailNews
<1>3. /\ \A k \in DOMAIN Tail(q) : k \in Nat /\ k + 1 \in DOMAIN q /\ Tail(q)[k] = q[k + 1]
  BY TailOf
<1> DEFINE t == Tail(q)
<1>4. \A k, l \in DOMAIN t : (k + 1 < l + 1 <=> k < l) /\ (k + 1 = l + 1 <=> k = l)
  BY <1>3
<1>5. ASSUME NEW k \in DOMAIN t, IsTell(t[k])
      PROVE  /\ ToldInfo(t[k]) = Known(t, d, r)
             /\ d = Nil
             /\ \A l \in DOMAIN t : IsOver(t[l]) => k < l
  BY <1>1, <1>3, <1>4, <1>5 DEF Fits
<1>6. ASSUME NEW k \in DOMAIN t, IsOver(t[k])
      PROVE  /\ d = Nil
             /\ Counts(t[k].data, r)
             /\ \A l \in DOMAIN t : IsOver(t[l]) => k = l
  BY <1>3, <1>4, <1>6 DEF Fits
<1> QED
  BY <1>1, <1>2, <1>5, <1>6 DEF Fits

LEMMA TellHeard ==
  ASSUME NEW q \in Seq(Heard), q # <<>>, IsTell(Head(q)),
         NEW d, NEW s, NEW r, Fits(q, d, s, r)
  PROVE  Fits(Tail(q), d, ToldInfo(Head(q)), r)
<1>0. ~IsOver(Head(q))
  BY DEF IsTell, IsOver
<1>1. Known(Tail(q), d, r) = Known(q, d, r)
  BY <1>0, TailNews DEF Known
<1>2. ToldInfo(Head(q)) = Known(q, d, r)
  BY TailOf DEF Fits
<1>3. /\ \A k \in DOMAIN Tail(q) : k \in Nat /\ k + 1 \in DOMAIN q /\ Tail(q)[k] = q[k + 1]
  BY TailOf
<1> DEFINE t == Tail(q)
<1>4. \A k, l \in DOMAIN t : (k + 1 < l + 1 <=> k < l) /\ (k + 1 = l + 1 <=> k = l)
  BY <1>3
<1>5. ASSUME NEW k \in DOMAIN t, IsTell(t[k])
      PROVE  /\ ToldInfo(t[k]) = Known(t, d, r)
             /\ d = Nil
             /\ \A l \in DOMAIN t : IsOver(t[l]) => k < l
  BY <1>1, <1>3, <1>4, <1>5 DEF Fits
<1>6. ASSUME NEW k \in DOMAIN t, IsOver(t[k])
      PROVE  /\ d = Nil
             /\ Counts(t[k].data, r)
             /\ \A l \in DOMAIN t : IsOver(t[l]) => k = l
  BY <1>3, <1>4, <1>6 DEF Fits
<1> QED
  BY <1>1, <1>2, <1>5, <1>6 DEF Fits

\* The result is the last news, and what is known is still the old record.
LEMMA OverHeard ==
  ASSUME NEW q \in Seq(Heard), q # <<>>, IsOver(Head(q)), Head(q).data # Nil,
         NEW d, NEW s, NEW r, Fits(q, d, s, r)
  PROVE  Fits(Tail(q), Head(q).data, s, r)
<1> DEFINE t == Tail(q)
<1>1. /\ 1 \in DOMAIN q /\ q[1] = Head(q)
      /\ \A k \in DOMAIN t : k \in Nat \ {0} /\ k + 1 \in DOMAIN q /\ t[k] = q[k + 1]
  BY TailOf
<1>2. ASSUME NEW k \in DOMAIN q, IsTell(q[k])
      PROVE  FALSE
  <2>1. k < 1
    BY <1>1, <1>2 DEF Fits
  <2> QED
    BY <2>1, TailOf
<1>3. NoTell(t) /\ NoTell(q)
  BY <1>1, <1>2 DEF NoTell
<1>4. ASSUME NEW k \in DOMAIN t, IsOver(t[k])
      PROVE  FALSE
  <2>1. k + 1 = 1
    BY <1>1, <1>4 DEF Fits
  <2> QED
    BY <1>1, <2>1
<1>5. Counts(Head(q).data, r)
  BY <1>1 DEF Fits
<1>6. s = NewUser
  BY <1>1, <1>3 DEF Fits, Known, NoOver
<1> QED
  BY <1>2, <1>3, <1>4, <1>5, <1>6 DEF Fits, Known, NoTell

\* Once the result is counted, the page has come to the record.
LEMMA ResultCounted ==
  ASSUME NEW q \in Seq(Heard), NEW d, NEW s, NEW r, d # Nil, Fits(q, d, s, r)
  PROVE  /\ Fits(q, Nil, Counted(s, d.type, d.changescore), r)
         /\ Counted(s, d.type, d.changescore) = r
<1>1. NoTell(q) /\ NoOver(q)
  BY DEF Fits, NoTell, NoOver
<1>2. s = NewUser /\ Counts(d, r)
  BY <1>1 DEF Fits, Known
<1> QED
  BY <1>1, <1>2 DEF Fits, Known, Counts, NoTell, NoOver

\* q2 is q with messages added behind.
Longer(q2, q) ==
  /\ q2 \in Seq(Heard) /\ q \in Seq(Heard)
  /\ Len(q) <= Len(q2)
  /\ \A k \in 1..Len(q) : q2[k] = q[k]
Added(q2, q) == (Len(q) + 1)..Len(q2)

LEMMA LongerParts ==
  ASSUME NEW q, NEW q2, Longer(q2, q)
  PROVE  /\ DOMAIN q = 1..Len(q) /\ DOMAIN q2 = 1..Len(q2)
         /\ \A k \in DOMAIN q : k \in DOMAIN q2 /\ q2[k] = q[k]
         /\ \A k \in DOMAIN q2 : k \in DOMAIN q \/ k \in Added(q2, q)
         /\ \A k \in DOMAIN q, l \in Added(q2, q) : l \in DOMAIN q2 /\ k < l
         /\ \A l \in Added(q2, q) : l \in DOMAIN q2
         /\ DOMAIN q2 \subseteq Nat
<1>1. Len(q) \in Nat /\ Len(q2) \in Nat /\ DOMAIN q = 1..Len(q) /\ DOMAIN q2 = 1..Len(q2)
  BY DEF Longer
<1> QED
  BY <1>1 DEF Longer, Added

\* More messages that say nothing of the record.
LEMMA OthersAdded ==
  ASSUME NEW q, NEW q2, Longer(q2, q),
         \A k \in Added(q2, q) : ~IsTell(q2[k]) /\ ~IsOver(q2[k]),
         NEW d, NEW s, NEW r, Fits(q, d, s, r)
  PROVE  Fits(q2, d, s, r)
<1>1. ASSUME NEW k \in DOMAIN q2, IsTell(q2[k]) \/ IsOver(q2[k])
      PROVE  k \in DOMAIN q /\ q2[k] = q[k]
  BY <1>1, LongerParts
<1>2. \A k \in DOMAIN q : k \in DOMAIN q2 /\ q2[k] = q[k]
  BY LongerParts
<1>3. (NoTell(q2) <=> NoTell(q)) /\ (NoOver(q2) <=> NoOver(q))
  BY <1>1, <1>2 DEF NoTell, NoOver
<1>4. Known(q2, d, r) = Known(q, d, r)
  BY <1>3 DEF Known
<1> QED
  BY <1>1, <1>2, <1>3, <1>4 DEF Fits

LEMMA NoNewsAdded ==
  ASSUME NEW q, NEW q2, Longer(q2, q),
         \A k \in Added(q2, q) : ~IsTell(q2[k]) /\ ~IsOver(q2[k]),
         NoTell(q), NoOver(q)
  PROVE  NoTell(q2) /\ NoOver(q2)
  BY LongerParts DEF NoTell, NoOver

\* A page that knows nothing is told the record.
LEMMA TellAdded ==
  ASSUME NEW q, NEW q2, Longer(q2, q), NoTell(q), NoOver(q), NEW s, NEW r,
         \A k \in Added(q2, q) : ~IsOver(q2[k]) /\ (IsTell(q2[k]) => ToldInfo(q2[k]) = r),
         \E k \in Added(q2, q) : IsTell(q2[k])
  PROVE  Fits(q2, Nil, s, r)
<1>1. NoOver(q2)
  BY LongerParts DEF NoOver
<1>2. \A k \in DOMAIN q2 : IsTell(q2[k]) => ToldInfo(q2[k]) = r
  BY LongerParts DEF NoTell
<1>3. ~NoTell(q2)
  BY LongerParts DEF NoTell
<1> QED
  BY <1>1, <1>2, <1>3 DEF Fits, Known, NoOver

\* The only result there will be comes behind everything else.
LEMMA OverAdded ==
  ASSUME NEW q, NEW q2, Longer(q2, q), NEW d, NEW s, Fits(q, d, s, NewUser),
         NEW r, NEW n \in Added(q2, q),
         \A k \in Added(q2, q) : ~IsTell(q2[k]) /\ (IsOver(q2[k]) <=> k = n),
         Counts(q2[n].data, r), \A b : ~Counts(b, NewUser)
  PROVE  Fits(q2, d, s, r)
<1>1. d = Nil /\ NoOver(q)
  BY DEF Fits, NoOver
<1>2. \A k \in DOMAIN q2 : IsOver(q2[k]) <=> k = n
  BY <1>1, LongerParts DEF NoOver
<1>3. ASSUME NEW k \in DOMAIN q2, IsTell(q2[k])
      PROVE  k \in DOMAIN q /\ q2[k] = q[k] /\ k < n
  BY <1>3, LongerParts
<1>4. \A k \in DOMAIN q : k \in DOMAIN q2 /\ q2[k] = q[k]
  BY LongerParts
<1>5. n \in DOMAIN q2
  BY LongerParts
<1>6. Known(q2, d, r) = NewUser /\ Known(q, d, NewUser) = NewUser
  BY <1>2, <1>5 DEF Known, NoOver
<1>7. NoTell(q2) => NoTell(q)
  BY <1>4 DEF NoTell
<1> QED
  BY <1>1, <1>2, <1>3, <1>6, <1>7 DEF Fits

\* The page's arithmetic is the server's (updateUserInfo of both).
LEMMA SameArithmetic ==
  ASSUME NEW s \in Users, NEW o \in Users, NEW over \in OverTypes
  PROVE  /\ Counted(userInfo[s], over, GetChangeScore(over)) = SelfInfo(s, over)
         /\ Counted(userInfo[o], OppOverType(over), -GetChangeScore(over)) = OppInfo(o, over)
<1> DEFINE n == GetChangeScore(over)
<1>1. \/ over = "WIN" /\ n = 10
      \/ over \in {"SELF_TIMEOUT", "SELF_GIVEUP"} /\ n = -10
      \/ over = "DRAW" /\ n = 0
  BY DEF GetChangeScore, OverTypes
<1>2. /\ SelfResult(over) = CASE n = 10 -> "WIN" [] n = -10 -> "LOSS" [] OTHER -> "DRAW"
      /\ OppResult(over) = CASE n = 10 -> "LOSS" [] n = -10 -> "WIN" [] OTHER -> "DRAW"
  BY <1>1 DEF SelfResult, OppResult
<1>3. \/ OppOverType(over) = "LOSS" /\ n = 10
      \/ OppOverType(over) \in {"OPP_TIMEOUT", "OPP_GIVEUP"} /\ n = -10
      \/ OppOverType(over) = "DRAW" /\ n = 0
  BY <1>1 DEF OppOverType, OppResult
<1> HIDE DEF n
<1>4. Counted(userInfo[s], over, n) = UpdateUserInfo(userInfo[s], n, SelfResult(over))
  BY <1>1, <1>2 DEF Counted
<1>5. Counted(userInfo[o], OppOverType(over), -n) = UpdateUserInfo(userInfo[o], -n, OppResult(over))
  BY <1>1, <1>2, <1>3 DEF Counted
<1> QED
  BY <1>4, <1>5 DEF SelfInfo, OppInfo, n

\* Who has played a game is not new.
LEMMA CountedOnce ==
  ASSUME NEW d
  PROVE  /\ Counted(NewUser, d.type, d.changescore).total = 1
         /\ ~Counts(d, NewUser)
  BY DEF Counted, Counts, UpdateUserInfo, NewUser

(* Every set of numbers has a least element, if it has any. *)
LEMMA LeastElement ==
  ASSUME NEW T \in SUBSET Nat, T # {}
  PROVE  \E n \in T : \A m \in T : n <= m
PROOF
<1> DEFINE I == {0..n : n \in T}
<1>1. I \subseteq FiniteSubsetsOf(Nat)
  <2> SUFFICES ASSUME NEW n \in T PROVE 0..n \in FiniteSubsetsOf(Nat)
    OBVIOUS
  <2>1. IsFiniteSet(0..n)
    BY FS_Interval
  <2> QED
    BY <2>1 DEF FiniteSubsetsOf
<1>2. I # {}
  OBVIOUS
<1>3. IsWellFoundedOn(StrictSubsetOrdering(Nat), FiniteSubsetsOf(Nat))
  BY FS_StrictSubsetOrderingWellFounded
<1> HIDE DEF I
<1>4. PICK X \in I : \A Y \in I : <<Y, X>> \notin StrictSubsetOrdering(Nat)
  BY <1>1, <1>2, <1>3, WFMin
<1>5. PICK n \in T : X = 0..n
  BY DEF I
<1>6. ASSUME NEW m \in T, m < n PROVE FALSE
  <2>1. 0..m \in I
    BY DEF I
  <2>2. 0..m \subseteq 0..n /\ 0..m # 0..n /\ 0..n \subseteq Nat
    <3>1. n \in 0..n /\ n \notin 0..m
      BY <1>6
    <3> QED
      BY <3>1, <1>6
  <2>3. <<0..m, 0..n>> \in StrictSubsetOrdering(Nat)
    <3>1. PICK x, y : x = 0..m /\ y = 0..n
      OBVIOUS
    <3>2. x \in SUBSET Nat /\ y \in SUBSET Nat /\ x \subseteq y /\ x # y
      BY <2>2, <3>1
    <3>3. <<x, y>> \in StrictSubsetOrdering(Nat)
      BY <3>2 DEF StrictSubsetOrdering
    <3> QED
      BY <3>1, <3>3
  <2> QED
    BY <2>1, <2>3, <1>4, <1>5
<1> QED
  BY <1>6

(* What holds for 0, and for n + 1 whenever it holds for n, holds for all. *)
LEMMA Induction ==
  ASSUME NEW S, 0 \in S, \A n \in Nat : n \in S => n + 1 \in S
  PROVE  \A n \in Nat : n \in S
PROOF
<1> SUFFICES ASSUME Nat \ S # {} PROVE FALSE
  OBVIOUS
<1>1. PICK n \in Nat \ S : \A m \in Nat \ S : n <= m
  BY LeastElement
<1>2. n # 0
  OBVIOUS
<1>3. n - 1 \in Nat /\ n - 1 \in S
  BY <1>1, <1>2
<1> QED
  BY <1>3

-----------------------------------------------------------------------------
(* What the center sends to one page, in the order it was sent.            *)

Ordered(f) == \A m, n \in DOMAIN f : m < n => f[m] < f[n]

\* Numbers can be put in order.
LEMMA OrderExists ==
  ASSUME NEW n \in Nat, NEW ks \in SUBSET (1..n)
  PROVE  /\ Cardinality(ks) \in Nat
         /\ \E f \in [1..Cardinality(ks) -> ks] : Range(f) = ks /\ Ordered(f)
<1> DEFINE Can(S) == \E f \in [1..Cardinality(S) -> S] : Range(f) = S /\ Ordered(f)
           T == {m \in Nat : \A S \in SUBSET (1..m) : Can(S)}
<1>1. 0 \in T
  <2> SUFFICES ASSUME NEW S \in SUBSET (1..0) PROVE Can(S)
    OBVIOUS
  <2>1. S = {} /\ Cardinality({}) = 0
    BY FS_EmptySet
  <2>2. 1..0 = {}
    OBVIOUS
  <2>3. <<>> \in [1..0 -> {}] /\ Range(<<>>) = {} /\ Ordered(<<>>)
    BY DEF Range, Ordered
  <2> QED
    BY <2>1, <2>3
<1>2. ASSUME NEW m \in Nat, \A S \in SUBSET (1..m) : Can(S),
             NEW S \in SUBSET (1..(m + 1))
      PROVE  Can(S)
  <2>1. CASE m + 1 \notin S
    <3>1. S \in SUBSET (1..m)
      BY <2>1
    <3> QED
      BY <1>2, <3>1
  <2>2. CASE m + 1 \in S
    <3>1. PICK R \in SUBSET (1..m) : S = R \cup {m + 1}
      <4>1. S \ {m + 1} \in SUBSET (1..m)
        OBVIOUS
      <4> QED
        BY <2>2, <4>1
    <3>2. IsFiniteSet(R)
      <4>1. IsFiniteSet(1..m)
        BY FS_Interval
      <4> QED
        BY <3>1, <4>1, FS_Subset
    <3>3. PICK c \in Nat : c = Cardinality(R)
      BY <3>2, FS_CardinalityType
    <3>4. Cardinality(S) = c + 1
      <4>1. m + 1 \notin R
        OBVIOUS
      <4> QED
        BY <3>1, <3>2, <3>3, <4>1, FS_AddElement
    <3>5. PICK f \in [1..c -> R] : Range(f) = R /\ Ordered(f)
      BY <1>2, <3>3
    <3> DEFINE g == [k \in 1..(c + 1) |-> IF k = c + 1 THEN m + 1 ELSE f[k]]
    <3>6. \A k \in 1..(c + 1) : k = c + 1 \/ k \in 1..c
      OBVIOUS
    <3>7. \A k \in 1..c : k \in 1..(c + 1) /\ g[k] = f[k] /\ f[k] \in R /\ g[k] \in S
      <4>1. \A k \in 1..c : k \in 1..(c + 1) /\ k # c + 1
        OBVIOUS
      <4> QED
        BY <3>1, <3>5, <4>1
    <3>8. g[c + 1] = m + 1 /\ c + 1 \in 1..(c + 1) /\ m + 1 \in S
      BY <3>1
    <3>9. DOMAIN g = 1..(c + 1) /\ g = [k \in 1..(c + 1) |-> g[k]]
      OBVIOUS
    <3> HIDE DEF g
    <3>10. g \in [1..(c + 1) -> S]
      BY <3>6, <3>7, <3>8, <3>9
    <3>11. Range(g) = S
      <4>1. Range(f) = {f[k] : k \in 1..c} /\ Range(g) = {g[k] : k \in 1..(c + 1)}
        BY <3>5, <3>9 DEF Range
      <4>2. Range(g) \subseteq S
        BY <3>10, <4>1
      <4>3. m + 1 \in Range(g)
        BY <3>8, <4>1
      <4>4. R \subseteq Range(g)
        BY <3>5, <3>7, <4>1
      <4> QED
        BY <3>1, <4>2, <4>3, <4>4
    <3>12. Ordered(g)
      <4> SUFFICES ASSUME NEW k \in 1..(c + 1), NEW l \in 1..(c + 1), k < l
                   PROVE  g[k] < g[l]
        BY <3>9 DEF Ordered
      <4>1. k \in 1..c
        OBVIOUS
      <4>2. CASE l = c + 1
        <5>1. g[k] \in 1..m
          BY <3>7, <4>1
        <5> QED
          BY <3>8, <4>2, <5>1
      <4>3. CASE l # c + 1
        <5>1. l \in 1..c
          BY <4>3
        <5>2. f[k] < f[l]
          BY <3>5, <4>1, <5>1 DEF Ordered
        <5> QED
          BY <3>7, <4>1, <5>1, <5>2
      <4> QED
        BY <4>2, <4>3
    <3> QED
      BY <3>4, <3>10, <3>11, <3>12
  <2> QED
    BY <2>1, <2>2
<1>3. n \in T
  <2> HIDE DEF Can
  <2>1. \A m \in Nat : m \in T => m + 1 \in T
    BY <1>2
  <2> HIDE DEF T
  <2> QED
    BY <1>1, <2>1, Induction
<1>4. IsFiniteSet(ks)
  <2>1. IsFiniteSet(1..n)
    BY FS_Interval
  <2> QED
    BY <2>1, FS_Subset
<1> QED
  BY <1>3, <1>4, FS_CardinalityType

LEMMA InOrderFacts ==
  ASSUME NEW n \in Nat, NEW ks \in SUBSET (1..n)
  PROVE  /\ Cardinality(ks) \in Nat
         /\ InOrder(ks) \in [1..Cardinality(ks) -> ks]
         /\ Range(InOrder(ks)) = ks
         /\ \A k, l \in 1..Cardinality(ks) : k # l => InOrder(ks)[k] # InOrder(ks)[l]
<1>1. /\ InOrder(ks) \in [1..Cardinality(ks) -> ks]
      /\ Range(InOrder(ks)) = ks
      /\ Ordered(InOrder(ks))
  BY OrderExists DEF InOrder, Ordered
<1>2. Cardinality(ks) \in Nat
  BY OrderExists
<1>3. ASSUME NEW c \in Nat, NEW f \in [1..c -> ks], Ordered(f)
      PROVE  \A k, l \in 1..c : k # l => f[k] # f[l]
  <2>1. \A k, l \in 1..c : k < l => f[k] < f[l]
    BY <1>3 DEF Ordered
  <2>2. \A k, l \in 1..c : k # l => k < l \/ l < k
    OBVIOUS
  <2>3. \A k \in 1..c : f[k] \in Int
    <3>1. ks \subseteq Int
      OBVIOUS
    <3> QED
      BY <3>1
  <2>4. ASSUME NEW k \in 1..c, NEW l \in 1..c, f[k] = f[l]
        PROVE  ~(k < l)
    BY <2>1, <2>3, <2>4
  <2> QED
    BY <2>2, <2>4
<1> QED
  BY <1>1, <1>2, <1>3

\* What a page gets in a step of the center: what is sent to its connection,
\* each message once.
ForPage(u) == {k \in DOMAIN sent' : sent'[k].to = "front" /\ sent'[k].id = cid[u]}

LEMMA Concatenated ==
  ASSUME NEW S, NEW x \in Seq(S), NEW y \in Seq(S)
  PROVE  /\ x \o y \in Seq(S) /\ Len(x) \in Nat /\ Len(x \o y) = Len(x) + Len(y)
         /\ \A k \in 1..Len(x) : (x \o y)[k] = x[k]
         /\ \A k \in 1..Len(y) : (x \o y)[Len(x) + k] = y[k]
<1>1. /\ Len(x) \in Nat /\ Len(y) \in Nat /\ Len(x \o y) = Len(x) + Len(y)
      /\ x \o y \in Seq(S)
  OBVIOUS
<1>2. \A k \in 1..(Len(x) + Len(y)) :
        (x \o y)[k] = IF k <= Len(x) THEN x[k] ELSE y[k - Len(x)]
  OBVIOUS
<1>3. \A k \in 1..Len(x) : k \in 1..(Len(x) + Len(y)) /\ k <= Len(x)
  BY <1>1
<1>4. \A k \in 1..Len(y) : /\ Len(x) + k \in 1..(Len(x) + Len(y))
                           /\ ~(Len(x) + k <= Len(x))
                           /\ Len(x) + k - Len(x) = k
  BY <1>1
<1> QED
  BY <1>1, <1>2, <1>3, <1>4

LEMMA Arrivals ==
  ASSUME PassOn, NEW u \in Users, cid[u] \in ConnIds, sent' \in Seq(Message),
         downq \in [ConnIds -> Seq(Heard)],
         \A k \in ForPage(u) : OnTheWay(sent'[k]) \in Heard
  PROVE  LET q == downq[cid[u]]
             q2 == downq'[cid[u]]
         IN  /\ Longer(q2, q)
             /\ \A n \in Added(q2, q) : \E k \in ForPage(u) : q2[n] = OnTheWay(sent'[k])
             /\ \A k \in ForPage(u) : \E n \in Added(q2, q) :
                  /\ q2[n] = OnTheWay(sent'[k])
                  /\ \A m \in Added(q2, q) : m # n =>
                       \E l \in ForPage(u) : l # k /\ q2[m] = OnTheWay(sent'[l])
<1> DEFINE q == downq[cid[u]]
           q2 == downq'[cid[u]]
           ks == ForPage(u)
           t == [k \in DOMAIN SentTo(cid[u]) |-> OnTheWay(SentTo(cid[u])[k])]
<1>1. q2 = q \o t
  BY DEF PassOn, Present
<1> DEFINE Lists(c, f) == /\ Range(f) = ks
                          /\ \A k, l \in 1..c : k # l => f[k] # f[l]
                          /\ SentTo(cid[u]) = [n \in 1..c |-> sent'[f[n]]]
<1>0. PICK c \in Nat : \E f \in [1..c -> ks] : Lists(c, f)
  <2>1. Len(sent') \in Nat /\ ks \in SUBSET (1..Len(sent'))
    BY DEF ForPage
  <2>2. SentTo(cid[u]) = [n \in DOMAIN InOrder(ks) |-> sent'[InOrder(ks)[n]]]
    BY DEF SentTo, ForPage
  <2> HIDE DEF ks
  <2>3. /\ Cardinality(ks) \in Nat
        /\ InOrder(ks) \in [1..Cardinality(ks) -> ks]
        /\ Range(InOrder(ks)) = ks
        /\ \A k, l \in 1..Cardinality(ks) : k # l => InOrder(ks)[k] # InOrder(ks)[l]
    BY <2>1, InOrderFacts
  <2>4. DOMAIN InOrder(ks) = 1..Cardinality(ks)
    BY <2>3
  <2>5. Lists(Cardinality(ks), InOrder(ks))
    BY <2>2, <2>3, <2>4
  <2> HIDE DEF Lists
  <2> QED
    BY <2>3, <2>5
<1>2. PICK f \in [1..c -> ks] : Lists(c, f)
  BY <1>0
<1>3. t = [n \in 1..c |-> OnTheWay(sent'[f[n]])]
  BY <1>2
<1>4. \A n \in 1..c : f[n] \in ks /\ OnTheWay(sent'[f[n]]) \in Heard
  BY <1>2
<1>5. \A k \in ks : \E n \in 1..c : f[n] = k
  BY <1>2 DEF Range
<1>6. q \in Seq(Heard)
  OBVIOUS
<1> HIDE DEF q, q2, ks, t
<1>7. /\ t \in Seq(Heard) /\ Len(t) = c
      /\ \A n \in 1..c : t[n] = OnTheWay(sent'[f[n]])
  BY <1>3, <1>4
<1>8. /\ q2 \in Seq(Heard) /\ Len(q2) = Len(q) + c /\ Len(q) \in Nat
      /\ \A k \in 1..Len(q) : q2[k] = q[k]
      /\ \A n \in 1..c : q2[Len(q) + n] = t[n]
  <2>1. /\ q \o t \in Seq(Heard) /\ Len(q) \in Nat /\ Len(q \o t) = Len(q) + Len(t)
        /\ \A k \in 1..Len(q) : (q \o t)[k] = q[k]
        /\ \A k \in 1..Len(t) : (q \o t)[Len(q) + k] = t[k]
    <3>1. t \in Seq(Heard)
      BY <1>7
    <3>2. ASSUME NEW x \in Seq(Heard), NEW y \in Seq(Heard)
          PROVE  /\ x \o y \in Seq(Heard) /\ Len(x) \in Nat /\ Len(x \o y) = Len(x) + Len(y)
                 /\ \A k \in 1..Len(x) : (x \o y)[k] = x[k]
                 /\ \A k \in 1..Len(y) : (x \o y)[Len(x) + k] = y[k]
      BY Concatenated
    <3> QED
      BY <1>6, <3>1, <3>2
  <2> QED
    BY <1>1, <1>7, <2>1
<1>9. Longer(q2, q) /\ Added(q2, q) = (Len(q) + 1)..(Len(q) + c)
  BY <1>6, <1>8 DEF Longer, Added
<1>10. \A n \in Added(q2, q) : n - Len(q) \in 1..c /\ Len(q) + (n - Len(q)) = n
  BY <1>8, <1>9
<1>11. \A n \in 1..c : Len(q) + n \in Added(q2, q)
  BY <1>8, <1>9
<1>12. \A n \in Added(q2, q) : /\ n - Len(q) \in 1..c
                               /\ f[n - Len(q)] \in ks
                               /\ q2[n] = OnTheWay(sent'[f[n - Len(q)]])
  BY <1>4, <1>7, <1>8, <1>10
<1>13. ASSUME NEW k \in ks
       PROVE  \E n \in Added(q2, q) :
                /\ q2[n] = OnTheWay(sent'[k])
                /\ \A m \in Added(q2, q) : m # n =>
                     \E l \in ks : l # k /\ q2[m] = OnTheWay(sent'[l])
  <2>1. PICK a \in 1..c : f[a] = k
    BY <1>5
  <2>2. PICK n \in Added(q2, q) : n - Len(q) = a
    <3>1. PICK n : n = Len(q) + a
      OBVIOUS
    <3>2. n \in Added(q2, q)
      BY <1>11, <3>1
    <3>3. n - Len(q) = a
      BY <1>8, <3>1
    <3> QED
      BY <3>2, <3>3
  <2>3. q2[n] = OnTheWay(sent'[k])
    BY <1>12, <2>1, <2>2
  <2>4. ASSUME NEW m \in Added(q2, q), m # n
        PROVE  \E l \in ks : l # k /\ q2[m] = OnTheWay(sent'[l])
    <3>1. m - Len(q) # a
      BY <1>8, <1>9, <2>2, <2>4
    <3>2. f[m - Len(q)] # k
      BY <1>2, <1>12, <2>1, <3>1
    <3> QED
      BY <1>12, <3>2
  <2> QED
    BY <2>2, <2>3, <2>4
<1>14. \A n \in Added(q2, q) : \E k \in ks : q2[n] = OnTheWay(sent'[k])
  BY <1>12
<1> QED
  BY <1>9, <1>13, <1>14 DEF q, q2, ks

LEMMA NobodyGets ==
  ASSUME PassOn, NEW i \in ConnIds, ~Present(i), downq \in [ConnIds -> Seq(Heard)]
  PROVE  downq'[i] = downq[i]
  BY DEF PassOn

-----------------------------------------------------------------------------
(* When there is a board on a page.                                        *)

IsBoard(m) == m.type \in {"MatchResponse", "GameSituation"}

\* There is a board, or one will come.
Gets(q, p) == p # Nil \/ \E l \in DOMAIN q : IsBoard(q[l])

\* Every move comes behind the board it is played on.
Seats(q, p) ==
  \A k \in DOMAIN q : q[k].type = "MoveStep" =>
    p # Nil \/ \E l \in DOMAIN q : l < k /\ IsBoard(q[l])

LEMMA BoardHeard ==
  ASSUME NEW q \in Seq(Heard), q # <<>>, NEW p, NEW p2, Seats(q, p),
         p2 # Nil \/ (p2 = p /\ ~IsBoard(Head(q)))
  PROVE  Seats(Tail(q), p2) /\ (Gets(q, p) => Gets(Tail(q), p2))
<1>1. CASE p2 # Nil
  BY <1>1 DEF Seats, Gets
<1>2. CASE p2 = Nil
  <2>1. p = Nil /\ ~IsBoard(q[1]) /\ 1 \in DOMAIN q
    BY <1>2, TailOf
  <2>2. ASSUME NEW k \in DOMAIN Tail(q), Tail(q)[k].type = "MoveStep"
        PROVE  \E l \in DOMAIN Tail(q) : l < k /\ IsBoard(Tail(q)[l])
    <3>1. k + 1 \in DOMAIN q /\ q[k + 1].type = "MoveStep" /\ k \in Nat
      BY <2>2, TailOf
    <3>2. PICK l \in DOMAIN q : l < k + 1 /\ IsBoard(q[l])
      BY <2>1, <3>1 DEF Seats
    <3>3. l # 1
      BY <2>1, <3>2
    <3>4. l \in Nat /\ l - 1 \in DOMAIN Tail(q) /\ Tail(q)[l - 1] = q[l]
      BY <3>3, TailOf
    <3>5. l - 1 < k
      BY <3>1, <3>2, <3>4
    <3> QED
      BY <3>2, <3>4, <3>5
  <2>3. ASSUME NEW l \in DOMAIN q, IsBoard(q[l])
        PROVE  \E k \in DOMAIN Tail(q) : IsBoard(Tail(q)[k])
    <3>1. l # 1
      BY <2>1, <2>3
    <3>2. l - 1 \in DOMAIN Tail(q) /\ Tail(q)[l - 1] = q[l]
      BY <3>1, TailOf
    <3> QED
      BY <2>3, <3>2
  <2> QED
    BY <2>1, <2>2, <2>3 DEF Seats, Gets
<1> QED
  BY <1>1, <1>2

LEMMA MoveHasBoard ==
  ASSUME NEW q \in Seq(Heard), q # <<>>, NEW p, Seats(q, p), Head(q).type = "MoveStep"
  PROVE  p # Nil
<1>1. 1 \in DOMAIN q /\ q[1] = Head(q) /\ DOMAIN q \subseteq Nat \ {0}
  BY TailOf
<1>2. \A l \in DOMAIN q : ~(l < 1)
  BY <1>1
<1> QED
  BY <1>1, <1>2 DEF Seats

LEMMA BoardAdded ==
  ASSUME NEW q, NEW q2, Longer(q2, q), NEW p, Seats(q, p),
         \A k \in Added(q2, q) : q2[k].type = "MoveStep" => Gets(q, p)
  PROVE  /\ Seats(q2, p)
         /\ Gets(q, p) => Gets(q2, p)
         /\ (\E k \in Added(q2, q) : IsBoard(q2[k])) => Gets(q2, p)
<1>1. ASSUME NEW k \in DOMAIN q2, q2[k].type = "MoveStep", p = Nil
      PROVE  \E l \in DOMAIN q2 : l < k /\ IsBoard(q2[l])
  <2>1. CASE k \in DOMAIN q
    <3>1. PICK l \in DOMAIN q : l < k /\ IsBoard(q[l])
      BY <1>1, <2>1, LongerParts DEF Seats
    <3> QED
      BY <3>1, LongerParts
  <2>2. CASE k \in Added(q2, q)
    <3>1. PICK l \in DOMAIN q : IsBoard(q[l])
      BY <1>1, <2>2 DEF Gets
    <3>2. l < k /\ l \in DOMAIN q2 /\ q2[l] = q[l]
      BY <2>2, LongerParts
    <3> QED
      BY <3>1, <3>2
  <2> QED
    BY <2>1, <2>2, LongerParts
<1>2. Gets(q, p) => Gets(q2, p)
  BY LongerParts DEF Gets
<1>3. (\E k \in Added(q2, q) : IsBoard(q2[k])) => Gets(q2, p)
  BY LongerParts DEF Gets
<1> QED
  BY <1>1, <1>2, <1>3 DEF Seats

-----------------------------------------------------------------------------
(* The inductive invariant.  Once the server is down nothing happens.      *)

WorldTypeOK ==
  /\ links = Links
  /\ cid \in [Users -> ConnIds]
  /\ pos \in [Users -> Fens \cup {Nil}]
  /\ undo \in [Users -> Int]
  /\ due \in [Users -> GameResult \cup {Nil}]
  /\ selfUser \in [Users -> Info \cup {Nil}]
  /\ record \in [Users -> Info]
  /\ upq \in [ConnIds -> Seq(Said)]
  /\ downq \in [ConnIds -> Seq(Heard)]

\* Who has to do with a connection: the user in its Entry, the user at the
\* page, a user it still asks to log in.
Claims(u, i) ==
  \/ entrys[i] = u
  \/ cid[u] = i
  \/ \E k \in DOMAIN upq[i] : upq[i][k].type = "LoginRequest" /\ upq[i][k].data.username = u

Closed(m) == m.type = "Disconnected"
IsAway(i) == entrys[i] # Nil /\ state[entrys[i]] = "kDisconnecteInPlaying"

\* A connection has to do with one user only.  That it is closed is the last
\* the center hears of it; a seat is kept for a page that is gone.
OwnersOK ==
  /\ \A i \in ConnIds : \A u, w \in Users : Claims(u, i) /\ Claims(w, i) => u = w
  /\ \A i \in ConnIds : \A k \in DOMAIN upq[i] :
       Closed(upq[i][k]) => ~Present(i) /\ k = Len(upq[i])
  /\ \A i \in ConnIds : ~Present(i) => downq[i] = <<>>
  /\ \A i \in ConnIds : IsAway(i) => ~Present(i) /\ upq[i] = <<>>

\* The login server's record of a user is the one in its Entry.
FilesOK ==
  \A u \in Users :
    /\ record[u] = NewUser \/ record[u].total = 1
    /\ state[u] # "none" => userInfo[u] = record[u]
    /\ IsInRoom(u) => record[u] = NewUser

IsHome(u) == entrys[cid[u]] = u

BoardsCome ==
  \A u \in Users :
    /\ undo[u] > 0 => pos[u] # Nil
    /\ Seats(downq[cid[u]], pos[u])
    /\ IsInRoom(u) /\ IsHome(u) => Gets(downq[cid[u]], pos[u])

RecordsCome ==
  \A u \in Users :
    IF IsHome(u) THEN Fits(downq[cid[u]], due[u], selfUser[u], record[u])
    ELSE due[u] = Nil /\ NoTell(downq[cid[u]]) /\ NoOver(downq[cid[u]])

WorldInv == CenterInv /\ WorldTypeOK /\ OwnersOK /\ FilesOK /\ BoardsCome /\ RecordsCome

\* The invariant says what it is there for.
LEMMA RecordsAreRight == WorldInv => OwnRecordIsRight
<1> SUFFICES ASSUME WorldInv, NEW u \in Users, Quiet(u), entrys[cid[u]] = u, due[u] = Nil
             PROVE  selfUser[u] = userInfo[u] /\ userInfo[u] = record[u]
  BY DEF OwnRecordIsRight
<1>1. downq[cid[u]] = <<>> /\ cid[u] \in ConnIds
  BY DEF Quiet, WorldInv, WorldTypeOK
<1>2. NoTell(<<>>) /\ NoOver(<<>>)
  BY DEF NoTell, NoOver
<1>3. selfUser[u] = record[u]
  BY <1>1, <1>2 DEF WorldInv, RecordsCome, IsHome, Fits, Known
<1>4. state[u] # "none"
  BY <1>1, NilAssumption, EntryIsUser DEF WorldInv
<1> QED
  BY <1>3, <1>4 DEF WorldInv, FilesOK

-----------------------------------------------------------------------------
(* The steps of a page.                                                    *)

LEMMA FensFacts ==
  /\ <<>> \in Fens
  /\ \A fen \in Fens : /\ fen \in Seq(Moves) /\ Len(fen) <= MaxPlies
                       /\ Front(fen) \in Fens
  /\ \A fen \in Seq(Moves) : Len(fen) <= MaxPlies => fen \in Fens
<1>1. MaxPlies \in Nat /\ Fens = UNION {[1..n -> Moves] : n \in 0..MaxPlies}
  BY GameAssumption
<1>2. ASSUME NEW fen \in Fens
      PROVE  fen \in Seq(Moves) /\ Len(fen) <= MaxPlies
  <2>1. PICK n \in 0..MaxPlies : fen \in [1..n -> Moves]
    BY <1>1
  <2>2. n \in Nat /\ n <= MaxPlies
    BY <1>1
  <2> QED
    BY <2>1, <2>2
<1>3. ASSUME NEW fen \in Seq(Moves), Len(fen) <= MaxPlies
      PROVE  fen \in Fens
  <2>1. Len(fen) \in 0..MaxPlies /\ fen \in [1..Len(fen) -> Moves]
    BY <1>1, <1>3
  <2> QED
    BY <1>1, <2>1
<1>4. <<>> \in Fens
  BY <1>1, <1>3
<1>5. ASSUME NEW fen \in Fens
      PROVE  Front(fen) \in Fens
  <2>1. fen \in Seq(Moves) /\ Len(fen) \in Nat /\ Len(fen) <= MaxPlies
    BY <1>2
  <2>2. CASE Len(fen) = 0
    <3>1. SubSeq(fen, 1, Len(fen) - 1) = <<>>
      BY <2>1, <2>2
    <3> QED
      BY <1>4, <3>1 DEF Front
  <2>3. CASE Len(fen) # 0
    <3>0. /\ Len(fen) - 1 \in Nat /\ 1 \in Int
          /\ \A k \in 1..(Len(fen) - 1) : fen[k] \in Moves
      <4>1. \A k \in 1..Len(fen) : fen[k] \in Moves
        BY <2>1
      <4>2. \A k \in 1..(Len(fen) - 1) : k \in 1..Len(fen)
        BY <2>1
      <4> QED
        BY <2>1, <2>3, <4>1, <4>2
    <3>1. /\ SubSeq(fen, 1, Len(fen) - 1) \in Seq(Moves)
          /\ Len(SubSeq(fen, 1, Len(fen) - 1)) = Len(fen) - 1
      <4>1. PICK n \in Nat : n = Len(fen) - 1
        BY <3>0
      <4>2. PICK c : c = SubSeq(fen, 1, n)
        OBVIOUS
      <4>3. n \in Int /\ \A k \in 1..n : fen[k] \in Moves
        BY <3>0, <4>1
      <4>4. c \in Seq(Moves) /\ Len(c) = IF 1 <= n THEN n - 1 + 1 ELSE 0
        BY <3>0, <4>2, <4>3, SubSeqProperties
      <4> QED
        BY <4>1, <4>2, <4>4
    <3>2. Len(fen) - 1 <= MaxPlies
      BY <1>1, <2>1
    <3> QED
      BY <1>3, <3>1, <3>2 DEF Front
  <2> QED
    BY <2>2, <2>3
<1> QED
  BY <1>2, <1>3, <1>4, <1>5

\* What the page of u may say.
Sayable(u, m) == m \in Said /\ ~Closed(m) /\ (m.type = "LoginRequest" => m.data.username = u)
Spoke(u) ==
  \/ UNCHANGED upq
  \/ \E m : Sayable(u, m) /\ upq' = [upq EXCEPT ![cid[u]] = Append(@, m)]

LEMMA SaidTyped ==
  /\ \A u \in Users : Sayable(u, [type |-> "LoginRequest", data |-> [username |-> u]])
  /\ \A u : \A type \in RoomTypes : Sayable(u, [type |-> "MatchRequest", data |-> [type |-> type]])
  /\ \A u : \A fen \in Fens, over \in BOOLEAN :
       fen # <<>> => Sayable(u, [type |-> "MoveStep", data |-> [over |-> over, fen |-> fen]])
  /\ \A u : \A type \in {"ForgiveResponse", "DrawResponse"}, agree \in BOOLEAN, fen \in Fens :
       Sayable(u, [type |-> type, data |-> [agree |-> agree, fen |-> fen]])
  /\ \A u : \A type \in {"CancelMatchRequest", "Giveup", "ForgiveRequest", "DrawRequest"} :
       Sayable(u, [type |-> type, data |-> NoBody])
  BY DEF Sayable, Said, Closed

LEMMA Appended ==
  ASSUME NEW S, NEW q \in Seq(S), NEW m \in S
  PROVE  /\ Append(q, m) \in Seq(S)
         /\ \A k \in DOMAIN Append(q, m) :
              (k \in DOMAIN q /\ Append(q, m)[k] = q[k]) \/ Append(q, m)[k] = m
  OBVIOUS

LEMMA SpokeTyped ==
  ASSUME WorldInv, NEW u \in Users, Spoke(u)
  PROVE  /\ upq' \in [ConnIds -> Seq(Said)]
         /\ \A i \in ConnIds : i # cid[u] => upq'[i] = upq[i]
         /\ \A k \in DOMAIN upq'[cid[u]] :
              \/ k \in DOMAIN upq[cid[u]] /\ upq'[cid[u]][k] = upq[cid[u]][k]
              \/ Sayable(u, upq'[cid[u]][k])
<1>1. upq \in [ConnIds -> Seq(Said)] /\ cid[u] \in ConnIds
  BY DEF WorldInv, WorldTypeOK
<1>2. CASE UNCHANGED upq
  BY <1>1, <1>2
<1>3. ASSUME NEW m, Sayable(u, m), upq' = [upq EXCEPT ![cid[u]] = Append(@, m)]
      PROVE  /\ upq' \in [ConnIds -> Seq(Said)]
             /\ \A i \in ConnIds : i # cid[u] => upq'[i] = upq[i]
             /\ \A k \in DOMAIN upq'[cid[u]] :
                  \/ k \in DOMAIN upq[cid[u]] /\ upq'[cid[u]][k] = upq[cid[u]][k]
                  \/ Sayable(u, upq'[cid[u]][k])
  <2>1. m \in Said /\ upq[cid[u]] \in Seq(Said)
    BY <1>1, <1>3 DEF Sayable
  <2>2. /\ Append(upq[cid[u]], m) \in Seq(Said)
        /\ \A k \in DOMAIN Append(upq[cid[u]], m) :
             \/ k \in DOMAIN upq[cid[u]] /\ Append(upq[cid[u]], m)[k] = upq[cid[u]][k]
             \/ Append(upq[cid[u]], m)[k] = m
    BY <2>1, Appended
  <2>3. upq'[cid[u]] = Append(upq[cid[u]], m)
    BY <1>1, <1>3
  <2> QED
    BY <1>1, <1>3, <2>2, <2>3
<1> QED
  BY <1>2, <1>3 DEF Spoke

LEMMA OwnersKept ==
  ASSUME WorldInv, NEW u \in Users, Spoke(u), UNCHANGED <<cid, entrys, state>>,
         \A i \in ConnIds : ~Present(i) => downq'[i] = downq[i]
  PROVE  OwnersOK'
<1> DEFINE c == cid[u]
<1>1. /\ c \in ConnIds /\ Present(c)
      /\ \A i \in ConnIds : i # c => upq'[i] = upq[i]
      /\ \A k \in DOMAIN upq'[c] :
           (k \in DOMAIN upq[c] /\ upq'[c][k] = upq[c][k]) \/ Sayable(u, upq'[c][k])
  BY SpokeTyped DEF WorldInv, WorldTypeOK, Present
<1>2. \A i : Present(i)' <=> Present(i)
  BY DEF Present
<1>3. ASSUME NEW i \in ConnIds, NEW w \in Users, Claims(w, i)'
      PROVE  Claims(w, i)
  <2>1. CASE entrys[i] = w \/ cid[w] = i
    BY <2>1 DEF Claims
  <2>2. CASE \E k \in DOMAIN upq'[i] : /\ upq'[i][k].type = "LoginRequest"
                                       /\ upq'[i][k].data.username = w
    <3>1. CASE i = c
      BY <1>1, <2>2, <3>1 DEF Claims, Sayable
    <3>2. CASE i # c
      BY <1>1, <2>2, <3>2 DEF Claims
    <3> QED
      BY <3>1, <3>2
  <2> QED
    BY <1>3, <2>1, <2>2 DEF Claims
<1>4. ASSUME NEW i \in ConnIds, NEW k \in DOMAIN upq'[i], Closed(upq'[i][k])
      PROVE  ~Present(i) /\ k = Len(upq'[i])
  <2>1. CASE i = c
    BY <1>1, <1>4, <2>1 DEF WorldInv, OwnersOK, Sayable
  <2>2. CASE i # c
    BY <1>1, <1>4, <2>2 DEF WorldInv, OwnersOK
  <2> QED
    BY <2>1, <2>2
<1>5. ASSUME NEW i \in ConnIds, IsAway(i)'
      PROVE  ~Present(i) /\ upq'[i] = <<>>
  BY <1>1, <1>5 DEF WorldInv, OwnersOK, IsAway
<1>6. \A i \in ConnIds : ~Present(i) => downq'[i] = <<>>
  BY DEF WorldInv, OwnersOK
<1>7. \A i \in ConnIds : \A v, w \in Users : Claims(v, i)' /\ Claims(w, i)' => v = w
  BY <1>3 DEF WorldInv, OwnersOK
<1> QED
  BY <1>2, <1>4, <1>5, <1>6, <1>7 DEF OwnersOK

LEMMA CenterUnchanged ==
  ASSUME WorldInv, UNCHANGED centerVars
  PROVE  CenterInv'
<1>1. CenterInv
  BY DEF WorldInv
<1> QED
  BY <1>1 DEF centerVars, hallVars, gameVars, CenterInv, TypeOK, HallOK, RoomOK, IsInRoom, RoomOf

LEMMA FilesUnchanged ==
  ASSUME WorldInv, UNCHANGED <<centerVars, record>>
  PROVE  FilesOK'
  BY DEF WorldInv, FilesOK, centerVars, hallVars, IsInRoom

\* A step that only says something and may play or take back moves.
LEMMA TalkStep ==
  ASSUME WorldInv, NEW u \in Users, Spoke(u),
         UNCHANGED <<centerVars, cid, due, selfUser, downq, record>>,
         pos' \in [Users -> Fens \cup {Nil}], undo' \in [Users -> Int],
         \A w \in Users : /\ undo'[w] > 0 => pos'[w] # Nil
                          /\ pos'[w] = pos[w] \/ pos'[w] # Nil
  PROVE  WorldInv'
<1>1. CenterInv' /\ FilesOK'
  BY CenterUnchanged, FilesUnchanged
<1>2. UNCHANGED <<entrys, state, links>>
  BY DEF centerVars, hallVars
<1>3. WorldTypeOK'
  BY <1>2, SpokeTyped DEF WorldInv, WorldTypeOK
<1>4. OwnersOK'
  BY <1>2, OwnersKept
<1>5. BoardsCome'
  BY <1>2 DEF WorldInv, BoardsCome, IsHome, IsInRoom, Seats, Gets
<1>6. RecordsCome'
  BY <1>2 DEF WorldInv, RecordsCome, IsHome
<1> QED
  BY <1>1, <1>3, <1>4, <1>5, <1>6 DEF WorldInv

LEMMA SaidSpoke ==
  ASSUME NEW u \in Users
  PROVE  /\ Say(u, "LoginRequest", [username |-> u]) => Spoke(u)
         /\ \A type \in RoomTypes : Say(u, "MatchRequest", [type |-> type]) => Spoke(u)
         /\ \A fen \in Fens, over \in BOOLEAN :
              fen # <<>> /\ Say(u, "MoveStep", [over |-> over, fen |-> fen]) => Spoke(u)
         /\ \A type \in {"ForgiveResponse", "DrawResponse"}, agree \in BOOLEAN, fen \in Fens :
              Say(u, type, [agree |-> agree, fen |-> fen]) => Spoke(u)
         /\ \A type \in {"CancelMatchRequest", "Giveup", "ForgiveRequest", "DrawRequest"} :
              Say(u, type, NoBody) => Spoke(u)
<1>2. ASSUME Say(u, "LoginRequest", [username |-> u])
      PROVE  Spoke(u)
  <2>1. Sayable(u, [type |-> "LoginRequest", data |-> [username |-> u]])
    BY SaidTyped
  <2> QED
    BY <1>2, <2>1 DEF Say, Spoke
<1>3. ASSUME NEW type \in RoomTypes, Say(u, "MatchRequest", [type |-> type])
      PROVE  Spoke(u)
  <2>1. Sayable(u, [type |-> "MatchRequest", data |-> [type |-> type]])
    BY SaidTyped
  <2> QED
    BY <1>3, <2>1 DEF Say, Spoke
<1>4. ASSUME NEW fen \in Fens, NEW over \in BOOLEAN, fen # <<>>,
             Say(u, "MoveStep", [over |-> over, fen |-> fen])
      PROVE  Spoke(u)
  <2>1. Sayable(u, [type |-> "MoveStep", data |-> [over |-> over, fen |-> fen]])
    BY <1>4, SaidTyped
  <2> QED
    BY <1>4, <2>1 DEF Say, Spoke
<1>5. ASSUME NEW type \in {"ForgiveResponse", "DrawResponse"}, NEW agree \in BOOLEAN,
             NEW fen \in Fens, Say(u, type, [agree |-> agree, fen |-> fen])
      PROVE  Spoke(u)
  <2>1. Sayable(u, [type |-> type, data |-> [agree |-> agree, fen |-> fen]])
    BY SaidTyped
  <2> QED
    BY <1>5, <2>1 DEF Say, Spoke
<1>6. ASSUME NEW type \in {"CancelMatchRequest", "Giveup", "ForgiveRequest", "DrawRequest"},
             Say(u, type, NoBody)
      PROVE  Spoke(u)
  <2>1. Sayable(u, [type |-> type, data |-> NoBody])
    BY SaidTyped
  <2> QED
    BY <1>6, <2>1 DEF Say, Spoke
<1> QED
  BY <1>2, <1>3, <1>4, <1>5, <1>6

\* A move back, on a page that has one.
LEMMA TakenBack ==
  ASSUME WorldInv, NEW u \in Users, undo[u] > 0, TakeBack(u)
  PROVE  /\ pos[u] \in Fens /\ Front(pos[u]) \in Fens
         /\ pos' \in [Users -> Fens \cup {Nil}] /\ undo' \in [Users -> Int]
         /\ \A w \in Users : /\ undo'[w] > 0 => pos'[w] # Nil
                             /\ pos'[w] = pos[w] \/ pos'[w] # Nil
<1>1. pos \in [Users -> Fens \cup {Nil}] /\ undo \in [Users -> Int]
  BY DEF WorldInv, WorldTypeOK
<1>2. \A w \in Users : undo[w] > 0 => pos[w] # Nil
  BY DEF WorldInv, BoardsCome
<1>3. pos[u] \in Fens
  BY <1>1, <1>2
<1>4. Front(pos[u]) \in Fens /\ Front(pos[u]) # Nil
  BY <1>3, FensFacts, NilAssumption
<1>5. pos' = [pos EXCEPT ![u] = Front(pos[u])] /\ undo' = [undo EXCEPT ![u] = undo[u] - 1]
  BY DEF TakeBack
<1> QED
  BY <1>1, <1>2, <1>3, <1>4, <1>5

LEMMA PageTyped ==
  ASSUME WorldInv
  PROVE  /\ pos \in [Users -> Fens \cup {Nil}] /\ undo \in [Users -> Int]
         /\ \A w \in Users : undo[w] > 0 => pos[w] # Nil
  BY DEF WorldInv, WorldTypeOK, BoardsCome

LEMMA PressSpeaks ==
  ASSUME WorldInv, NEW u \in Users, NEW d, Press(u, d)
  PROVE  /\ Spoke(u)
         /\ pos' \in [Users -> Fens \cup {Nil}] /\ undo' \in [Users -> Int]
         /\ \A w \in Users : /\ undo'[w] > 0 => pos'[w] # Nil
                             /\ pos'[w] = pos[w] \/ pos'[w] # Nil
<1>0. <<>> \in Fens
  BY FensFacts
<1>1. CASE LogIn(u)
  <2>1. Spoke(u)
    BY <1>1, SaidSpoke DEF LogIn
  <2> QED
    BY <1>1, <2>1, PageTyped DEF LogIn, boardVars
<1>2. CASE ChooseMatch(u)
  <2>1. Spoke(u)
    BY <1>2, SaidSpoke DEF ChooseMatch
  <2> QED
    BY <1>2, <2>1, PageTyped DEF ChooseMatch, boardVars
<1>3. CASE CancelMatching(u)
  <2>1. Spoke(u)
    BY <1>3, SaidSpoke DEF CancelMatching
  <2> QED
    BY <1>3, <2>1, PageTyped DEF CancelMatching, boardVars
<1>4. CASE Again(u) \/ Decline(u)
  BY <1>4, PageTyped DEF Again, Decline, boardVars, Spoke
<1>5. CASE \E type \in {"ForgiveRequest", "DrawRequest", "Giveup"} : Confirm(u, type)
  <2>1. Spoke(u)
    BY <1>5, SaidSpoke DEF Confirm
  <2> QED
    BY <1>5, <2>1, PageTyped DEF Confirm, boardVars
<1>6. CASE \E type \in {"ForgiveResponse", "DrawResponse"}, agree \in BOOLEAN :
             Answer(u, type, agree)
  <2>1. Spoke(u)
    BY <1>0, <1>6, SaidSpoke DEF Answer
  <2> QED
    BY <1>6, <2>1, PageTyped DEF Answer, boardVars
<1>7. CASE AgreeToTakeBack(u)
  <2>1. CASE undo[u] > 0
    <3>1. TakeBack(u) /\ Say(u, "ForgiveResponse", [agree |-> TRUE, fen |-> Front(pos[u])])
      BY <1>7, <2>1 DEF AgreeToTakeBack
    <3>2. Front(pos[u]) \in Fens
      BY <2>1, <3>1, TakenBack
    <3>3. Spoke(u)
      BY <3>1, <3>2, SaidSpoke
    <3> QED
      BY <2>1, <3>1, <3>3, TakenBack
  <2>2. CASE ~(undo[u] > 0)
    BY <1>7, <2>2, PageTyped DEF AgreeToTakeBack, boardVars, Spoke
  <2> QED
    BY <2>1, <2>2
<1> QED
  BY <1>1, <1>2, <1>3, <1>4, <1>5, <1>6, <1>7 DEF Press

LEMMA ClickStep ==
  ASSUME WorldInv, NEW u \in Users, Click(u)
  PROVE  WorldInv'
<1>1. /\ Spoke(u)
      /\ pos' \in [Users -> Fens \cup {Nil}] /\ undo' \in [Users -> Int]
      /\ \A w \in Users : /\ undo'[w] > 0 => pos'[w] # Nil
                          /\ pos'[w] = pos[w] \/ pos'[w] # Nil
  BY PressSpeaks DEF Click
<1>2. UNCHANGED <<centerVars, cid, due, selfUser, downq, record>>
  BY DEF Click, restOfPage, restOfWorld
<1> QED
  BY <1>1, <1>2, TalkStep

LEMMA AskStep ==
  ASSUME WorldInv, NEW u \in Users, Ask(u)
  PROVE  WorldInv'
<1>1. Spoke(u) /\ UNCHANGED <<pos, undo>>
  BY DEF Ask, Spoke, boardVars
<1>2. UNCHANGED <<centerVars, cid, due, selfUser, downq, record>>
  BY DEF Ask, restOfPage, restOfWorld
<1> QED
  BY <1>1, <1>2, TalkStep, PageTyped

\* Fen and move of what a page plays.
LEMMA Played ==
  ASSUME NEW fen \in Fens, NEW m \in Moves, Len(Append(fen, m)) <= MaxPlies
  PROVE  /\ Append(fen, m) \in Fens /\ Append(fen, m) # <<>> /\ Append(fen, m) # Nil
         /\ Mated(Append(fen, m)) \in BOOLEAN
<1>1. fen \in Seq(Moves)
  BY FensFacts
<1>2. Append(fen, m) \in Seq(Moves) /\ Append(fen, m) # <<>>
  BY <1>1, AppendProperties
<1> QED
  BY <1>2, FensFacts, NilAssumption DEF Mated

LEMMA PlayTyped ==
  ASSUME WorldInv, NEW u \in Users, NEW fen \in Fens, Play(u, fen)
  PROVE  /\ pos' \in [Users -> Fens \cup {Nil}] /\ undo' \in [Users -> Int]
         /\ \A w \in Users : /\ undo'[w] > 0 => pos'[w] # Nil
                             /\ pos'[w] = pos[w] \/ pos'[w] # Nil
<1>1. fen # Nil
  BY NilAssumption
<1>2. pos' = [pos EXCEPT ![u] = fen] /\ undo' = [undo EXCEPT ![u] = undo[u] + 1]
  BY DEF Play
<1> QED
  BY <1>1, <1>2, PageTyped

LEMMA PlayMoveStep ==
  ASSUME WorldInv, NEW u \in Users, NEW m \in Moves, PlayMove(u, m)
  PROVE  WorldInv'
<1> DEFINE fen == Append(pos[u], m)
<1>1. /\ pos[u] # Nil /\ Len(fen) <= MaxPlies
      /\ Play(u, fen) /\ Say(u, "MoveStep", [over |-> Mated(fen), fen |-> fen])
  BY DEF PlayMove, Free, MoveStepOf
<1>2. UNCHANGED <<centerVars, cid, due, selfUser, downq, record>>
  BY DEF PlayMove, restOfPage, restOfWorld
<1>3. pos[u] \in Fens
  BY <1>1, PageTyped
<1>4. fen \in Fens /\ fen # <<>> /\ Mated(fen) \in BOOLEAN
  BY <1>1, <1>3, Played
<1> HIDE DEF fen
<1>5. Spoke(u)
  BY <1>1, <1>4, SaidSpoke
<1> QED
  BY <1>1, <1>2, <1>4, <1>5, PlayTyped, TalkStep

LEMMA OwnPages ==
  ASSUME WorldInv, NEW u \in Users, NEW w \in Users, u # w
  PROVE  cid[w] # cid[u] /\ cid[w] \in ConnIds /\ cid[u] \in ConnIds
<1>1. cid[w] \in ConnIds /\ cid[u] \in ConnIds
  BY DEF WorldInv, WorldTypeOK
<1>2. Claims(u, cid[u]) /\ Claims(w, cid[w])
  BY DEF Claims
<1> QED
  BY <1>1, <1>2 DEF WorldInv, OwnersOK

\* What the page makes of a message: of the result, of news, of another.
MakesOf(u, m) ==
  \/ ~IsTell(m) /\ ~IsOver(m) /\ UNCHANGED <<due, selfUser>>
  \/ /\ IsTell(m) /\ UNCHANGED due
     /\ selfUser' = [selfUser EXCEPT ![u] = ToldInfo(m)]
  \/ /\ IsOver(m) /\ UNCHANGED selfUser
     /\ due' = [due EXCEPT ![u] = m.data]

LEMMA HearStep ==
  ASSUME WorldInv, NEW u \in Users, downq[cid[u]] # <<>>, Pop(u), Spoke(u),
         UNCHANGED <<centerVars, cid, record>>,
         pos' \in [Users -> Fens \cup {Nil}], undo' \in [Users -> Int],
         \A w \in Users : /\ undo'[w] > 0 => pos'[w] # Nil
                          /\ pos'[w] = pos[w] \/ pos'[w] # Nil,
         IsBoard(Head(downq[cid[u]])) => pos'[u] # Nil,
         MakesOf(u, Head(downq[cid[u]]))
  PROVE  WorldInv'
<1> DEFINE q == downq[cid[u]]
           m == Head(q)
<1>1. CenterInv' /\ FilesOK'
  BY CenterUnchanged, FilesUnchanged
<1>2. UNCHANGED <<entrys, state, links>>
  BY DEF centerVars, hallVars
<1>3. /\ cid[u] \in ConnIds /\ downq \in [ConnIds -> Seq(Heard)]
      /\ due \in [Users -> GameResult \cup {Nil}] /\ selfUser \in [Users -> Info \cup {Nil}]
  BY DEF WorldInv, WorldTypeOK
<1>4. q \in Seq(Heard) /\ q # <<>>
  BY <1>3
<1>5. downq' = [downq EXCEPT ![cid[u]] = Tail(q)]
  BY DEF Pop
<1>6. m \in Heard /\ Tail(q) \in Seq(Heard)
  BY <1>4, TailOf
<1>7. /\ IsTell(m) => ToldInfo(m) \in Info
      /\ IsOver(m) => m.data \in GameResult /\ m.data # Nil
  BY <1>6, GameAssumption DEF Heard, IsTell, IsOver, ToldInfo, GameResult
<1>8. /\ due' \in [Users -> GameResult \cup {Nil}] /\ selfUser' \in [Users -> Info \cup {Nil}]
      /\ \A w \in Users : w # u => due'[w] = due[w] /\ selfUser'[w] = selfUser[w]
  BY <1>3, <1>7 DEF MakesOf
<1>9. WorldTypeOK'
  BY <1>2, <1>3, <1>5, <1>6, <1>8, SpokeTyped DEF WorldInv, WorldTypeOK
<1>10. \A w \in Users : w # u => downq'[cid[w]] = downq[cid[w]]
  BY <1>3, <1>5, OwnPages
<1>11. downq'[cid[u]] = Tail(q)
  BY <1>3, <1>5
<1>12. OwnersOK'
  <2>1. \A i \in ConnIds : ~Present(i) => i # cid[u]
    BY DEF Present
  <2>2. \A i \in ConnIds : ~Present(i) => downq'[i] = downq[i]
    BY <1>3, <1>5, <2>1
  <2> QED
    BY <1>2, <2>2, OwnersKept
<1>13. BoardsCome'
  <2>1. ASSUME NEW w \in Users
        PROVE  /\ undo'[w] > 0 => pos'[w] # Nil
               /\ Seats(downq'[cid[w]], pos'[w])
               /\ Gets(downq[cid[w]], pos[w]) => Gets(downq'[cid[w]], pos'[w])
    <3>1. Seats(downq[cid[w]], pos[w])
      BY DEF WorldInv, BoardsCome
    <3>2. CASE w = u
      <4>1. pos'[u] # Nil \/ (pos'[u] = pos[u] /\ ~IsBoard(m))
        OBVIOUS
      <4>2. Seats(q, pos[u])
        BY <3>1, <3>2
      <4> HIDE DEF m, q
      <4>3. Seats(Tail(q), pos'[u]) /\ (Gets(q, pos[u]) => Gets(Tail(q), pos'[u]))
        BY <1>4, <4>1, <4>2, BoardHeard DEF m
      <4> QED
        BY <1>11, <3>2, <4>3 DEF q
    <3>3. CASE w # u
      BY <1>10, <3>1, <3>3 DEF Seats, Gets
    <3> QED
      BY <3>2, <3>3
  <2>2. \A w \in Users : /\ IsHome(w)' <=> IsHome(w)
                         /\ IsInRoom(w)' <=> IsInRoom(w)
    BY <1>2 DEF IsHome, IsInRoom
  <2>3. \A w \in Users : IsInRoom(w) /\ IsHome(w) => Gets(downq[cid[w]], pos[w])
    BY DEF WorldInv, BoardsCome
  <2>4. UNCHANGED cid
    OBVIOUS
  <2> QED
    BY <2>1, <2>2, <2>3, <2>4 DEF BoardsCome
<1>14. RecordsCome'
  <2>1. ASSUME NEW w \in Users
        PROVE  IF IsHome(w) THEN Fits(downq'[cid[w]], due'[w], selfUser'[w], record[w])
               ELSE due'[w] = Nil /\ NoTell(downq'[cid[w]]) /\ NoOver(downq'[cid[w]])
    <3>1. IF IsHome(w) THEN Fits(downq[cid[w]], due[w], selfUser[w], record[w])
          ELSE due[w] = Nil /\ NoTell(downq[cid[w]]) /\ NoOver(downq[cid[w]])
      BY DEF WorldInv, RecordsCome
    <3>2. CASE w # u
      BY <1>8, <1>10, <3>1, <3>2
    <3>3. CASE w = u /\ ~IsHome(u)
      <4>1. due[u] = Nil /\ NoTell(q) /\ NoOver(q)
        BY <3>1, <3>3
      <4> HIDE DEF m, q
      <4>2. /\ NoTell(q) <=> ~IsTell(m) /\ NoTell(Tail(q))
            /\ NoOver(q) <=> ~IsOver(m) /\ NoOver(Tail(q))
        BY <1>4, TailNews DEF m
      <4>3. MakesOf(u, m)
        BY DEF m, q
      <4>4. due'[u] = due[u]
        BY <4>1, <4>2, <4>3 DEF MakesOf
      <4> QED
        BY <1>11, <3>3, <4>1, <4>2, <4>4 DEF q
    <3>4. CASE w = u /\ IsHome(u)
      <4>1. Fits(q, due[u], selfUser[u], record[u])
        BY <3>1, <3>4
      <4>2. MakesOf(u, m)
        OBVIOUS
      <4> HIDE DEF m, q
      <4>3. CASE ~IsTell(m) /\ ~IsOver(m)
        <5>1. due'[u] = due[u] /\ selfUser'[u] = selfUser[u]
          BY <4>2, <4>3 DEF MakesOf
        <5>2. Fits(Tail(q), due[u], selfUser[u], record[u])
          BY <1>4, <4>1, <4>3, OtherHeard DEF m
        <5> QED
          BY <1>11, <3>4, <5>1, <5>2
      <4>4. CASE IsTell(m)
        <5>1. due'[u] = due[u] /\ selfUser'[u] = ToldInfo(m)
          BY <1>3, <4>2, <4>4 DEF MakesOf, IsTell, IsOver
        <5>2. Fits(Tail(q), due[u], ToldInfo(m), record[u])
          BY <1>4, <4>1, <4>4, TellHeard DEF m
        <5> QED
          BY <1>11, <3>4, <5>1, <5>2
      <4>5. CASE IsOver(m)
        <5>1. due'[u] = m.data /\ selfUser'[u] = selfUser[u]
          BY <1>3, <4>2, <4>5 DEF MakesOf, IsTell, IsOver
        <5>2. Fits(Tail(q), m.data, selfUser[u], record[u])
          BY <1>4, <1>7, <4>1, <4>5, OverHeard DEF m
        <5> QED
          BY <1>11, <3>4, <5>1, <5>2
      <4> QED
        BY <4>3, <4>4, <4>5
    <3> QED
      BY <3>2, <3>3, <3>4
  <2>2. \A w \in Users : IsHome(w)' <=> IsHome(w)
    BY <1>2 DEF IsHome
  <2> QED
    BY <2>1, <2>2 DEF RecordsCome
<1> QED
  BY <1>1, <1>9, <1>12, <1>13, <1>14 DEF WorldInv

\* What a message leaves of the board.
BoardTo(u, m) ==
  /\ pos' \in [Users -> Fens \cup {Nil}] /\ undo' \in [Users -> Int]
  /\ \A w \in Users : /\ undo'[w] > 0 => pos'[w] # Nil
                      /\ pos'[w] = pos[w] \/ pos'[w] # Nil
  /\ IsBoard(m) => pos'[u] # Nil

LEMMA NewBoardTo ==
  ASSUME WorldInv, NEW u \in Users, NEW fen \in Fens, NEW red, NEW m, NewBoard(u, fen, red)
  PROVE  BoardTo(u, m)
<1>1. fen # Nil
  BY NilAssumption
<1>2. pos' = [pos EXCEPT ![u] = fen] /\ undo' = [undo EXCEPT ![u] = 0]
  BY DEF NewBoard
<1> QED
  BY <1>1, <1>2, PageTyped DEF BoardTo

LEMMA SameBoard ==
  ASSUME WorldInv, NEW u, NEW m, ~IsBoard(m), UNCHANGED <<pos, undo>>
  PROVE  BoardTo(u, m)
  BY PageTyped DEF BoardTo

LEMMA OppMoveHeard ==
  ASSUME WorldInv, NEW u \in Users, downq[cid[u]] # <<>>, NEW m \in Heard,
         m = Head(downq[cid[u]]), m.type = "MoveStep", OppMove(u, m)
  PROVE  BoardTo(u, m) /\ Spoke(u)
<1> DEFINE fen == m.data.fen
           played == Append(pos[u], Last(fen))
<1>1. fen \in Fens /\ fen # <<>>
  BY DEF Heard
<1>2. fen \in Seq(Moves)
  BY <1>1, FensFacts
<1>3. Last(fen) \in Moves
  BY <1>1, <1>2 DEF Last
<1>4. pos[u] # Nil
  <2>1. Seats(downq[cid[u]], pos[u]) /\ downq[cid[u]] \in Seq(Heard)
    BY DEF WorldInv, WorldTypeOK, BoardsCome
  <2> QED
    BY <2>1, MoveHasBoard
<1>5. pos[u] \in Fens
  BY <1>4, PageTyped
<1>6. ~IsBoard(m)
  BY DEF IsBoard
<1>7. CASE Play(u, played) /\ (played = fen \/ Len(played) <= MaxPlies)
  <2>1. Len(played) <= MaxPlies
    BY <1>1, <1>7, FensFacts
  <2>2. played \in Fens /\ played # <<>> /\ Mated(played) \in BOOLEAN
    BY <1>3, <1>5, <2>1, Played
  <2>3. UNCHANGED upq \/ Say(u, "MoveStep", [over |-> Mated(played), fen |-> played])
    <3>1. CASE played = fen /\ UNCHANGED <<pos, undo, upq>>
      BY <3>1
    <3>2. CASE IF TurnToPlay(u) THEN Say(u, "MoveStep", MoveStepOf(played)) ELSE UNCHANGED upq
      BY <3>2 DEF MoveStepOf
    <3> QED
      BY Zenon, <3>1, <3>2 DEF OppMove, boardVars
  <2> HIDE DEF played, fen
  <2>4. Spoke(u)
    BY <2>2, <2>3, SaidSpoke DEF Spoke
  <2>5. BoardTo(u, m)
    BY <1>6, <1>7, <2>2, PlayTyped DEF BoardTo
  <2> QED
    BY <2>4, <2>5
<1>8. CASE UNCHANGED <<pos, undo, upq>>
  BY <1>6, <1>8, SameBoard DEF Spoke
<1> QED
  BY Zenon, <1>7, <1>8 DEF OppMove, boardVars

LEMMA ReceiveStep ==
  ASSUME WorldInv, NEW u \in Users, Receive(u)
  PROVE  WorldInv'
<1> DEFINE q == downq[cid[u]]
           m == Head(q)
<1>1. q # <<>> /\ Pop(u) /\ UNCHANGED <<centerVars, record>>
  BY DEF Receive
<1>2. q \in Seq(Heard)
  BY DEF WorldInv, WorldTypeOK
<1>3. m \in Heard
  BY <1>1, <1>2, TailOf
<1>4. ASSUME BoardTo(u, m), Spoke(u), UNCHANGED cid, MakesOf(u, m)
      PROVE  WorldInv'
  BY <1>1, <1>4, HearStep DEF BoardTo
<1> HIDE DEF q
<1>5. CASE m.type = "LoginSuccessResponse" /\ LoginSuccess(u, m)
  <2>1. ~IsBoard(m) /\ IsTell(m) /\ ToldInfo(m) = m.data.info
    BY <1>5 DEF IsBoard, IsTell, ToldInfo
  <2>2. BoardTo(u, m)
    BY <1>5, <2>1, SameBoard DEF LoginSuccess, boardVars
  <2> QED
    BY <1>4, <1>5, <2>1, <2>2 DEF LoginSuccess, keepPage, Spoke, MakesOf
<1>6. CASE m.type = "MatchResponse" /\ MatchStarts(u, m)
  <2>1. BoardTo(u, m)
    BY <1>6, FensFacts, NewBoardTo DEF MatchStarts
  <2>2. MakesOf(u, m)
    BY <1>6 DEF MatchStarts, MakesOf, IsTell, IsOver
  <2> QED
    BY <1>4, <1>6, <2>1, <2>2 DEF MatchStarts, keepPage, Spoke
<1>7. CASE m.type = "GameSituation" /\ Situation(u, m)
  <2>1. If(m.data.fen # Nil, m.data.fen) \in Fens
    BY <1>3, <1>7, FensFacts DEF Heard, If
  <2>2. BoardTo(u, m)
    BY <1>7, <2>1, NewBoardTo DEF Situation
  <2>3. MakesOf(u, m)
    BY <1>7 DEF Situation, MakesOf, IsTell, ToldInfo
  <2> QED
    BY <1>4, <1>7, <2>2, <2>3 DEF Situation, keepPage, Spoke
<1>8. CASE m.type = "MoveStep" /\ OppMove(u, m)
  <2>1. BoardTo(u, m) /\ Spoke(u)
    BY <1>1, <1>3, <1>8, OppMoveHeard DEF q
  <2>2. MakesOf(u, m)
    BY <1>8 DEF OppMove, MakesOf, IsTell, IsOver
  <2> QED
    BY <1>4, <1>8, <2>1, <2>2 DEF OppMove
<1>9. CASE m.type = "ForgiveRequest" /\ ForgiveAsked(u)
  <2>1. BoardTo(u, m)
    BY <1>9, SameBoard DEF ForgiveAsked, boardVars, IsBoard
  <2>2. MakesOf(u, m)
    BY <1>9 DEF ForgiveAsked, MakesOf, IsTell, IsOver
  <2>3. Spoke(u)
    BY <1>9, FensFacts, SaidSpoke DEF ForgiveAsked, Spoke
  <2> QED
    BY <1>4, <1>9, <2>1, <2>2, <2>3 DEF ForgiveAsked
<1>10. CASE m.type = "ForgiveResponse" /\ ForgiveAnswered(u, m)
  <2>0. ~IsBoard(m)
    BY <1>10 DEF IsBoard
  <2>1. BoardTo(u, m)
    <3>1. CASE UNCHANGED <<pos, undo>>
      BY <2>0, <3>1, SameBoard
    <3>2. CASE undo[u] > 0 /\ TakeBack(u)
      BY <2>0, <3>2, TakenBack DEF BoardTo
    <3> QED
      BY <1>10, <3>1, <3>2 DEF ForgiveAnswered, boardVars
  <2>2. MakesOf(u, m)
    BY <1>10 DEF ForgiveAnswered, MakesOf, IsTell, IsOver
  <2> QED
    BY <1>4, <1>10, <2>1, <2>2 DEF ForgiveAnswered, Spoke
<1>11. CASE m.type = "DrawRequest" /\ DrawAsked(u)
  <2>1. BoardTo(u, m)
    BY <1>11, SameBoard DEF DrawAsked, boardVars, IsBoard
  <2>2. MakesOf(u, m)
    BY <1>11 DEF DrawAsked, MakesOf, IsTell, IsOver
  <2> QED
    BY <1>4, <1>11, <2>1, <2>2 DEF DrawAsked, keepPage, Spoke
<1>12. CASE m.type = "GameOver" /\ Over(u, m)
  <2>1. BoardTo(u, m)
    BY <1>12, SameBoard DEF Over, boardVars, IsBoard
  <2>2. MakesOf(u, m)
    BY <1>12 DEF Over, MakesOf, IsTell, IsOver
  <2> QED
    BY <1>4, <1>12, <2>1, <2>2 DEF Over, keepPage, Spoke
<1>13. CASE m.type \in Labels /\ UNCHANGED <<pageVars, upq, mishaps>>
  <2>1. BoardTo(u, m)
    BY <1>13, SameBoard DEF pageVars, IsBoard, Labels
  <2>2. MakesOf(u, m)
    BY <1>13 DEF pageVars, MakesOf, IsTell, IsOver, Labels
  <2> QED
    BY <1>4, <1>13, <2>1, <2>2 DEF pageVars, Spoke
<1> QED
  BY <1>5, <1>6, <1>7, <1>8, <1>9, <1>10, <1>11, <1>12, <1>13 DEF Receive, q

LEMMA ShowResultStep ==
  ASSUME WorldInv, NEW u \in Users, ShowResult(u)
  PROVE  WorldInv'
<1> DEFINE d == due[u]
           s == Counted(selfUser[u], d.type, d.changescore)
<1>1. /\ d # Nil /\ selfUser' = [selfUser EXCEPT ![u] = s] /\ due' = [due EXCEPT ![u] = Nil]
      /\ UNCHANGED <<centerVars, cid, pos, undo, upq, downq, record>>
  BY DEF ShowResult, boardVars, restOfWorld
<1>2. CenterInv' /\ FilesOK'
  BY <1>1, CenterUnchanged, FilesUnchanged
<1>3. UNCHANGED <<entrys, state, links>>
  BY <1>1 DEF centerVars, hallVars
<1>4. OwnersOK' /\ BoardsCome'
  BY <1>1, <1>3 DEF WorldInv, OwnersOK, BoardsCome, Claims, Present, IsAway, IsHome, IsInRoom
<1>5. /\ downq[cid[u]] \in Seq(Heard) /\ record[u] \in Info
      /\ due \in [Users -> GameResult \cup {Nil}] /\ selfUser \in [Users -> Info \cup {Nil}]
  BY DEF WorldInv, WorldTypeOK
<1>6. IsHome(u) /\ Fits(downq[cid[u]], d, selfUser[u], record[u])
  BY <1>1 DEF WorldInv, RecordsCome
<1> HIDE DEF d, s
<1>7. Fits(downq[cid[u]], Nil, s, record[u]) /\ s = record[u]
  BY <1>1, <1>5, <1>6, ResultCounted DEF s
<1>8. WorldTypeOK'
  BY <1>1, <1>3, <1>5, <1>7 DEF WorldInv, WorldTypeOK
<1>9. RecordsCome'
  BY <1>1, <1>3, <1>5, <1>6, <1>7 DEF WorldInv, RecordsCome, IsHome
<1> QED
  BY <1>2, <1>4, <1>8, <1>9 DEF WorldInv

\* The new page knows nothing, and nothing is under way to it; the center
\* hears of the end of the old one behind everything it has said.
LEMMA RefreshStep ==
  ASSUME WorldInv, NEW u \in Users, Refresh(u)
  PROVE  WorldInv'
<1> DEFINE c == cid[u]
           bye == [type |-> "Disconnected", data |-> NoBody]
<1>1. PICK i \in ConnIds : /\ ~Present(i) /\ entrys[i] = Nil /\ upq[i] = <<>>
                           /\ cid' = [cid EXCEPT ![u] = i]
  BY DEF Refresh
<1>2. /\ upq' = [upq EXCEPT ![c] = Append(upq[c], bye)]
      /\ downq' = [downq EXCEPT ![c] = <<>>]
      /\ pos' = [pos EXCEPT ![u] = Nil] /\ undo' = [undo EXCEPT ![u] = 0]
      /\ due' = [due EXCEPT ![u] = Nil] /\ selfUser' = [selfUser EXCEPT ![u] = Nil]
      /\ UNCHANGED <<centerVars, record>>
  BY DEF Refresh, Say
<1>3. CenterInv' /\ FilesOK'
  BY <1>2, CenterUnchanged, FilesUnchanged
<1>4. UNCHANGED <<entrys, state, links>>
  BY <1>2 DEF centerVars, hallVars
<1>5. /\ c \in ConnIds /\ c # i /\ Present(c)
      /\ cid \in [Users -> ConnIds]
      /\ upq \in [ConnIds -> Seq(Said)] /\ downq \in [ConnIds -> Seq(Heard)]
  BY <1>1 DEF WorldInv, WorldTypeOK, Present
<1>6. /\ \A w \in Users : w # u => cid'[w] = cid[w] /\ cid[w] # c /\ cid[w] # i
      /\ cid'[u] = i
  BY <1>1, <1>5, OwnPages DEF Present
<1>7. bye \in Said /\ Closed(bye) /\ bye.type # "LoginRequest"
  BY DEF Said, Closed
<1> HIDE DEF c, bye
<1>8. /\ Append(upq[c], bye) \in Seq(Said)
      /\ Len(Append(upq[c], bye)) = Len(upq[c]) + 1 /\ Len(upq[c]) \in Nat
      /\ \A k \in 1..Len(upq[c]) : Append(upq[c], bye)[k] = upq[c][k]
      /\ Append(upq[c], bye)[Len(upq[c]) + 1] = bye
  BY <1>5, <1>7, AppendProperties
<1>9. \A k \in DOMAIN Append(upq[c], bye) :
        \/ k \in DOMAIN upq[c] /\ Append(upq[c], bye)[k] = upq[c][k]
        \/ k = Len(Append(upq[c], bye)) /\ Append(upq[c], bye)[k] = bye
  BY <1>5, <1>8
<1>10. /\ upq'[c] = Append(upq[c], bye) /\ \A j \in ConnIds : j # c => upq'[j] = upq[j]
       /\ downq'[c] = <<>> /\ \A j \in ConnIds : j # c => downq'[j] = downq[j]
  BY <1>2, <1>5
<1>11. \A j \in ConnIds : Present(j)' <=> j = i \/ (Present(j) /\ j # c)
  <2>1. \A j \in ConnIds : Present(j)' <=> \E w \in Users : cid'[w] = j
    BY DEF Present
  <2>2. \A j \in ConnIds : Present(j) <=> \E w \in Users : cid[w] = j
    BY DEF Present
  <2>3. c = cid[u]
    BY DEF c
  <2> QED
    BY <1>5, <1>6, <2>1, <2>2, <2>3
<1>12. WorldTypeOK'
  <2>1. <<>> \in Seq(Heard) /\ 0 \in Int
    OBVIOUS
  <2> QED
    BY <1>1, <1>2, <1>4, <1>8, <2>1 DEF WorldInv, WorldTypeOK
<1>13. OwnersOK'
  <2>1. ASSUME NEW j \in ConnIds, NEW w \in Users, Claims(w, j)'
        PROVE  Claims(w, j) \/ (j = i /\ w = u)
    <3>1. CASE entrys[j] = w
      BY <3>1 DEF Claims
    <3>2. CASE cid'[w] = j
      BY <1>6, <3>2 DEF Claims
    <3>3. CASE \E k \in DOMAIN upq'[j] : /\ upq'[j][k].type = "LoginRequest"
                                         /\ upq'[j][k].data.username = w
      <4>1. CASE j = c
        BY <1>7, <1>9, <1>10, <3>3, <4>1 DEF Claims
      <4>2. CASE j # c
        BY <1>10, <3>3, <4>2 DEF Claims
      <4> QED
        BY <4>1, <4>2
    <3> QED
      BY <1>4, <2>1, <3>1, <3>2, <3>3 DEF Claims
  <2>2. ASSUME NEW w \in Users
        PROVE  ~Claims(w, i)
    BY <1>1, NilAssumption DEF Claims, Present
  <2>3. \A j \in ConnIds : \A v, w \in Users : Claims(v, j)' /\ Claims(w, j)' => v = w
    <3> SUFFICES ASSUME NEW j \in ConnIds, NEW v \in Users, NEW w \in Users,
                        Claims(v, j)', Claims(w, j)'
                 PROVE  v = w
      OBVIOUS
    <3>1. CASE j = i
      BY <2>1, <2>2, <3>1
    <3>2. CASE j # i
      <4>1. Claims(v, j) /\ Claims(w, j)
        BY <2>1, <3>2
      <4> QED
        BY <4>1 DEF WorldInv, OwnersOK
    <3> QED
      BY <3>1, <3>2
  <2>4. ASSUME NEW j \in ConnIds, NEW k \in DOMAIN upq'[j], Closed(upq'[j][k])
        PROVE  ~Present(j)' /\ k = Len(upq'[j])
    <3>1. CASE j = c
      <4>1. ~(k \in DOMAIN upq[c] /\ upq'[c][k] = upq[c][k])
        BY <1>5, <2>4, <3>1 DEF WorldInv, OwnersOK
      <4> QED
        BY <1>5, <1>9, <1>10, <1>11, <2>4, <3>1, <4>1
    <3>2. CASE j # c
      <4>1. k \in DOMAIN upq[j] /\ Closed(upq[j][k]) /\ j # i
        BY <1>1, <1>10, <2>4, <3>2
      <4> QED
        BY <1>10, <1>11, <3>2, <4>1 DEF WorldInv, OwnersOK
    <3> QED
      BY <3>1, <3>2
  <2>5. \A j \in ConnIds : ~Present(j)' => downq'[j] = <<>>
    BY <1>10, <1>11 DEF WorldInv, OwnersOK
  <2>6. ASSUME NEW j \in ConnIds, IsAway(j)'
        PROVE  ~Present(j)' /\ upq'[j] = <<>>
    <3>1. IsAway(j) /\ j # i
      BY <1>1, <1>4, <2>6 DEF IsAway
    <3>2. ~Present(j) /\ upq[j] = <<>>
      BY <3>1 DEF WorldInv, OwnersOK
    <3> QED
      BY <1>5, <1>10, <1>11, <3>1, <3>2
  <2> QED
    BY <2>3, <2>4, <2>5, <2>6 DEF OwnersOK
<1>14. downq[i] = <<>> /\ downq'[i] = <<>>
  BY <1>1, <1>5, <1>10 DEF WorldInv, OwnersOK
<1>15. \A w \in Users : w # u => /\ downq'[cid'[w]] = downq[cid[w]]
                                 /\ pos'[w] = pos[w] /\ undo'[w] = undo[w]
                                 /\ due'[w] = due[w] /\ selfUser'[w] = selfUser[w]
                                 /\ IsHome(w)' <=> IsHome(w)
                                 /\ IsInRoom(w)' <=> IsInRoom(w)
  BY <1>2, <1>4, <1>5, <1>6, <1>10 DEF WorldInv, WorldTypeOK, IsHome, IsInRoom
<1>16. /\ downq'[cid'[u]] = <<>> /\ pos'[u] = Nil /\ undo'[u] = 0 /\ due'[u] = Nil
       /\ ~IsHome(u)'
  BY <1>1, <1>2, <1>4, <1>6, <1>14, NilAssumption DEF WorldInv, WorldTypeOK, IsHome
<1>17. BoardsCome'
  <2>1. ASSUME NEW w \in Users
        PROVE  /\ undo'[w] > 0 => pos'[w] # Nil
               /\ Seats(downq'[cid'[w]], pos'[w])
               /\ IsInRoom(w)' /\ IsHome(w)' => Gets(downq'[cid'[w]], pos'[w])
    <3>1. CASE w = u
      BY <1>16, <3>1 DEF Seats
    <3>2. CASE w # u
      <4>1. /\ undo[w] > 0 => pos[w] # Nil
            /\ Seats(downq[cid[w]], pos[w])
            /\ IsInRoom(w) /\ IsHome(w) => Gets(downq[cid[w]], pos[w])
        BY DEF WorldInv, BoardsCome
      <4> QED
        BY <1>15, <3>2, <4>1
    <3> QED
      BY <3>1, <3>2
  <2> QED
    BY <2>1 DEF BoardsCome, Seats, Gets
<1>18. RecordsCome'
  <2>1. ASSUME NEW w \in Users
        PROVE  IF IsHome(w)' THEN Fits(downq'[cid'[w]], due'[w], selfUser'[w], record[w])
               ELSE due'[w] = Nil /\ NoTell(downq'[cid'[w]]) /\ NoOver(downq'[cid'[w]])
    <3>1. CASE w = u
      BY <1>16, <3>1 DEF NoTell, NoOver
    <3>2. CASE w # u
      <4>1. IF IsHome(w) THEN Fits(downq[cid[w]], due[w], selfUser[w], record[w])
            ELSE due[w] = Nil /\ NoTell(downq[cid[w]]) /\ NoOver(downq[cid[w]])
        BY DEF WorldInv, RecordsCome
      <4> QED
        BY <1>15, <3>2, <4>1
    <3> QED
      BY <3>1, <3>2
  <2>2. record' = record
    BY <1>2
  <2> QED
    BY <2>1, <2>2 DEF RecordsCome
<1> QED
  BY <1>3, <1>12, <1>13, <1>17, <1>18 DEF WorldInv

-----------------------------------------------------------------------------
(* The steps of the center.  What they have in common: messages are        *)
(* handled and sent, and each page has to be told of what became of its    *)
(* user.                                                                   *)

Shrunk ==
  \/ UNCHANGED upq
  \/ \E i \in ConnIds : upq[i] # <<>> /\ upq' = [upq EXCEPT ![i] = Tail(@)]

LEMMA ShrunkParts ==
  ASSUME WorldInv, Shrunk
  PROVE  /\ upq' \in [ConnIds -> Seq(Said)]
         /\ \A j \in ConnIds : upq[j] = <<>> => upq'[j] = <<>>
         /\ \A j \in ConnIds : \A k \in DOMAIN upq'[j] :
              \E l \in DOMAIN upq[j] : /\ upq'[j][k] = upq[j][l]
                                       /\ l = Len(upq[j]) => k = Len(upq'[j])
<1>1. upq \in [ConnIds -> Seq(Said)]
  BY DEF WorldInv, WorldTypeOK
<1>2. CASE UNCHANGED upq
  BY <1>1, <1>2
<1>3. ASSUME NEW i \in ConnIds, upq[i] # <<>>, upq' = [upq EXCEPT ![i] = Tail(upq[i])]
      PROVE  /\ upq' \in [ConnIds -> Seq(Said)]
             /\ \A j \in ConnIds : upq[j] = <<>> => upq'[j] = <<>>
             /\ \A j \in ConnIds : \A k \in DOMAIN upq'[j] :
                  \E l \in DOMAIN upq[j] : /\ upq'[j][k] = upq[j][l]
                                           /\ l = Len(upq[j]) => k = Len(upq'[j])
  <2>1. upq[i] \in Seq(Said)
    BY <1>1
  <2>2. /\ Tail(upq[i]) \in Seq(Said)
        /\ \A k \in DOMAIN Tail(upq[i]) : /\ k \in Nat /\ k + 1 \in DOMAIN upq[i]
                                          /\ Tail(upq[i])[k] = upq[i][k + 1]
    BY <1>3, <2>1, TailOf
  <2>3. Len(Tail(upq[i])) = Len(upq[i]) - 1 /\ Len(upq[i]) \in Nat
    BY <1>3, <2>1
  <2>4. \A k \in Nat : k + 1 = Len(upq[i]) => k = Len(Tail(upq[i]))
    BY <2>3
  <2>5. upq'[i] = Tail(upq[i]) /\ \A j \in ConnIds : j # i => upq'[j] = upq[j]
    BY <1>1, <1>3
  <2>6. ASSUME NEW j \in ConnIds, NEW k \in DOMAIN upq'[j]
        PROVE  \E l \in DOMAIN upq[j] : /\ upq'[j][k] = upq[j][l]
                                        /\ l = Len(upq[j]) => k = Len(upq'[j])
    <3>1. CASE j = i
      BY <2>2, <2>4, <2>5, <2>6, <3>1
    <3>2. CASE j # i
      BY <2>5, <2>6, <3>2
    <3> QED
      BY <3>1, <3>2
  <2>7. \A j \in ConnIds : upq[j] = <<>> => upq'[j] = <<>>
    BY <1>3, <2>5
  <2>8. upq' \in [ConnIds -> Seq(Said)]
    BY <1>1, <1>3, <2>2
  <2> QED
    BY <2>6, <2>7, <2>8
<1> QED
  BY <1>2, <1>3 DEF Shrunk

\* What the center sends to a page.
Proper(m) ==
  /\ m.type = "MoveStep" =>
       m.data.fen \in Fens \ {<<>>} /\ entrys[m.id] # Nil /\ IsInRoom(entrys[m.id])
  /\ m.type = "GameSituation" =>
       m.data.fen \in Fens \cup {Nil} /\ userInfo[entrys'[m.id]] \in Info
  /\ m.type = "LoginSuccessResponse" => m.data.info \in Info
  /\ m.type = "GameOver" => m.data \in GameResult

LEMMA ProperHeard ==
  ASSUME NEW m \in Message, Proper(m)
  PROVE  /\ OnTheWay(m) \in Heard
         /\ IsTell(OnTheWay(m)) <=> IsTell(m)
         /\ IsOver(OnTheWay(m)) <=> IsOver(m)
         /\ IsBoard(OnTheWay(m)) <=> IsBoard(m)
         /\ OnTheWay(m).type = m.type /\ OnTheWay(m).data = m.data
<1>1. OnTheWay(m).type = m.type /\ OnTheWay(m).data = m.data
  BY DEF OnTheWay
<1>2. OnTheWay(m).self = IF m.type = "GameSituation" THEN userInfo[entrys'[m.id]] ELSE Nil
  BY DEF OnTheWay
<1>3. OnTheWay(m) \in [type : MessageTypes, data : Body, self : Info \cup {Nil}]
  BY DEF OnTheWay, Message, Proper
<1>4. OnTheWay(m) \in Heard
  BY <1>1, <1>2, <1>3 DEF Heard, Proper
<1> QED
  BY <1>1, <1>4 DEF IsTell, IsOver, IsBoard

\* A page learns nothing; it is told the record of the user who is let in;
\* it is told the result of the only game.
Unmoved(u) ==
  /\ \A k \in ForPage(u) : ~IsTell(sent'[k]) /\ ~IsOver(sent'[k])
  /\ IsHome(u)' <=> IsHome(u)
  /\ IsHome(u) => record'[u] = record[u]

LetHome(u) ==
  /\ ~IsHome(u) /\ IsHome(u)'
  /\ \A k \in ForPage(u) :
       ~IsOver(sent'[k]) /\ (IsTell(sent'[k]) => ToldInfo(OnTheWay(sent'[k])) = record'[u])
  /\ \E k \in ForPage(u) : IsTell(sent'[k])

Finished(u) ==
  /\ IsHome(u) /\ IsHome(u)' /\ record[u] = NewUser
  /\ \E k \in ForPage(u) :
       /\ \A l \in ForPage(u) : ~IsTell(sent'[l]) /\ (IsOver(sent'[l]) <=> l = k)
       /\ Counts(sent'[k].data, record'[u])

OwnersStay ==
  /\ \A i \in ConnIds, w \in Users : entrys'[i] = w => Claims(w, i)
  /\ \A i \in ConnIds : IsAway(i)' => ~Present(i) /\ upq'[i] = <<>>

LEMMA OwnersStep ==
  ASSUME WorldInv, PassOn, Shrunk, OwnersStay
  PROVE  OwnersOK'
<1>0. UNCHANGED cid
  BY DEF PassOn, pageVars
<1>1. \A i : Present(i)' <=> Present(i)
  BY <1>0 DEF Present
<1>2. ASSUME NEW i \in ConnIds, NEW w \in Users, Claims(w, i)'
      PROVE  Claims(w, i)
  <2>1. CASE entrys'[i] = w
    BY <2>1 DEF OwnersStay
  <2>2. CASE cid[w] = i
    BY <2>2 DEF Claims
  <2>3. CASE \E k \in DOMAIN upq'[i] : /\ upq'[i][k].type = "LoginRequest"
                                       /\ upq'[i][k].data.username = w
    BY <2>3, ShrunkParts DEF Claims
  <2> QED
    BY <1>0, <1>2, <2>1, <2>2, <2>3 DEF Claims
<1>3. \A i \in ConnIds : \A v, w \in Users : Claims(v, i)' /\ Claims(w, i)' => v = w
  BY <1>2 DEF WorldInv, OwnersOK
<1>4. ASSUME NEW i \in ConnIds, NEW k \in DOMAIN upq'[i], Closed(upq'[i][k])
      PROVE  ~Present(i)' /\ k = Len(upq'[i])
  <2>1. PICK l \in DOMAIN upq[i] : /\ upq'[i][k] = upq[i][l]
                                   /\ l = Len(upq[i]) => k = Len(upq'[i])
    BY ShrunkParts
  <2>2. ~Present(i) /\ l = Len(upq[i])
    BY <1>4, <2>1 DEF WorldInv, OwnersOK
  <2> QED
    BY <1>1, <2>1, <2>2
<1>5. ASSUME NEW i \in ConnIds, ~Present(i)'
      PROVE  downq'[i] = <<>>
  <2>1. downq[i] = <<>> /\ ~Present(i) /\ downq \in [ConnIds -> Seq(Heard)]
    BY <1>1, <1>5 DEF WorldInv, OwnersOK, WorldTypeOK
  <2> QED
    BY <2>1, NobodyGets
<1>6. \A i \in ConnIds : IsAway(i)' => ~Present(i)' /\ upq'[i] = <<>>
  BY <1>1 DEF OwnersStay
<1> QED
  BY <1>3, <1>4, <1>5, <1>6 DEF OwnersOK

BoardsSent ==
  \A u \in Users : IsInRoom(u)' /\ IsHome(u)' =>
    \/ IsInRoom(u) /\ IsHome(u)
    \/ \E k \in ForPage(u) : IsBoard(sent'[k])

AllProper == \A k \in DOMAIN sent' : sent'[k].to = "front" => Proper(sent'[k])

LEMMA ServedStep ==
  ASSUME WorldInv, CenterInv', UNCHANGED links, PassOn, Shrunk, OwnersStay, FilesOK',
         record' \in [Users -> Info], AllProper, BoardsSent,
         \A u \in Users : Unmoved(u) \/ LetHome(u) \/ Finished(u)
  PROVE  WorldInv'
<1>0. /\ UNCHANGED <<cid, pos, undo, due, selfUser>>
      /\ downq \in [ConnIds -> Seq(Heard)]
      /\ \A u \in Users : cid[u] \in ConnIds
  BY DEF PassOn, pageVars, WorldInv, WorldTypeOK
<1>1. sent' \in Seq(Message)
  BY DEF CenterInv, TypeOK
<1>2. ASSUME NEW u \in Users
      PROVE  /\ ForPage(u) \subseteq DOMAIN sent'
             /\ \A k \in ForPage(u) : sent'[k] \in Message /\ Proper(sent'[k])
                                      /\ sent'[k].to = "front" /\ sent'[k].id = cid[u]
  BY <1>1 DEF ForPage, AllProper
<1>3. ASSUME NEW u \in Users
      PROVE  /\ Longer(downq'[cid[u]], downq[cid[u]])
             /\ \A n \in Added(downq'[cid[u]], downq[cid[u]]) :
                  \E k \in ForPage(u) : downq'[cid[u]][n] = OnTheWay(sent'[k])
             /\ \A k \in ForPage(u) : \E n \in Added(downq'[cid[u]], downq[cid[u]]) :
                  /\ downq'[cid[u]][n] = OnTheWay(sent'[k])
                  /\ \A m \in Added(downq'[cid[u]], downq[cid[u]]) : m # n =>
                       \E l \in ForPage(u) : l # k /\ downq'[cid[u]][m] = OnTheWay(sent'[l])
  <2>1. \A k \in ForPage(u) : OnTheWay(sent'[k]) \in Heard
    BY <1>2, ProperHeard
  <2> QED
    BY <1>0, <1>1, <2>1, Arrivals
<1>4. WorldTypeOK'
  <2>1. ASSUME NEW i \in ConnIds
        PROVE  downq'[i] \in Seq(Heard)
    <3>1. CASE Present(i)
      BY <1>3, <3>1 DEF Present, Longer
    <3>2. CASE ~Present(i)
      BY <1>0, <3>2, NobodyGets
    <3> QED
      BY <3>1, <3>2
  <2>2. downq' \in [ConnIds -> Seq(Heard)]
    BY <2>1 DEF PassOn
  <2> QED
    BY <1>0, <2>2, ShrunkParts DEF WorldInv, WorldTypeOK
<1>5. OwnersOK'
  BY OwnersStep
<1>6. BoardsCome'
  <2>1. ASSUME NEW u \in Users
        PROVE  /\ undo[u] > 0 => pos[u] # Nil
               /\ Seats(downq'[cid[u]], pos[u])
               /\ IsInRoom(u)' /\ IsHome(u)' => Gets(downq'[cid[u]], pos[u])
    <3> DEFINE q == downq[cid[u]]
               q2 == downq'[cid[u]]
    <3>1. /\ undo[u] > 0 => pos[u] # Nil
          /\ Seats(q, pos[u])
          /\ IsInRoom(u) /\ IsHome(u) => Gets(q, pos[u])
      BY DEF WorldInv, BoardsCome
    <3>2. ASSUME NEW n \in Added(q2, q), q2[n].type = "MoveStep"
          PROVE  Gets(q, pos[u])
      <4>1. PICK k \in ForPage(u) : q2[n] = OnTheWay(sent'[k])
        BY <1>3
      <4>2. sent'[k].type = "MoveStep"
        BY <1>2, <3>2, <4>1, ProperHeard
      <4>3. entrys[cid[u]] # Nil /\ IsInRoom(entrys[cid[u]])
        BY <1>2, <4>2 DEF Proper
      <4>4. entrys[cid[u]] = u
        <5>1. CenterInv /\ OwnersOK
          BY DEF WorldInv
        <5>2. entrys[cid[u]] \in Users
          BY <1>0, <4>3, <5>1, EntryIsUser
        <5>3. Claims(entrys[cid[u]], cid[u]) /\ Claims(u, cid[u])
          BY DEF Claims
        <5> QED
          BY <1>0, <5>1, <5>2, <5>3 DEF OwnersOK
      <4> QED
        BY <3>1, <4>3, <4>4 DEF IsHome
    <3>3. Longer(q2, q)
      BY <1>3
    <3>4. ASSUME NEW k \in ForPage(u), IsBoard(sent'[k])
          PROVE  \E n \in Added(q2, q) : IsBoard(q2[n])
      <4>1. PICK n \in Added(q2, q) : q2[n] = OnTheWay(sent'[k])
        BY <1>3
      <4>2. IsBoard(OnTheWay(sent'[k]))
        BY <1>2, <3>4, ProperHeard
      <4> QED
        BY <4>1, <4>2
    <3> HIDE DEF q, q2
    <3>5. /\ Seats(q2, pos[u])
          /\ Gets(q, pos[u]) => Gets(q2, pos[u])
          /\ (\E n \in Added(q2, q) : IsBoard(q2[n])) => Gets(q2, pos[u])
      BY <3>1, <3>2, <3>3, BoardAdded
    <3>6. IsInRoom(u)' /\ IsHome(u)' => Gets(q2, pos[u])
      BY <3>1, <3>4, <3>5 DEF BoardsSent
    <3> QED
      BY <3>1, <3>5, <3>6 DEF q2
  <2> QED
    BY <1>0, <2>1 DEF BoardsCome
<1>7. RecordsCome'
  <2>1. ASSUME NEW u \in Users
        PROVE  IF IsHome(u)' THEN Fits(downq'[cid[u]], due[u], selfUser[u], record'[u])
               ELSE due[u] = Nil /\ NoTell(downq'[cid[u]]) /\ NoOver(downq'[cid[u]])
    <3> DEFINE q == downq[cid[u]]
               q2 == downq'[cid[u]]
    <3>1. IF IsHome(u) THEN Fits(q, due[u], selfUser[u], record[u])
          ELSE due[u] = Nil /\ NoTell(q) /\ NoOver(q)
      BY DEF WorldInv, RecordsCome
    <3>2. /\ Longer(q2, q)
          /\ \A n \in Added(q2, q) : \E k \in ForPage(u) : q2[n] = OnTheWay(sent'[k])
          /\ \A k \in ForPage(u) : \E n \in Added(q2, q) :
               /\ q2[n] = OnTheWay(sent'[k])
               /\ \A m \in Added(q2, q) : m # n =>
                    \E l \in ForPage(u) : l # k /\ q2[m] = OnTheWay(sent'[l])
      BY <1>3
    <3>3. \A k \in ForPage(u) : /\ IsTell(OnTheWay(sent'[k])) <=> IsTell(sent'[k])
                                /\ IsOver(OnTheWay(sent'[k])) <=> IsOver(sent'[k])
                                /\ OnTheWay(sent'[k]).data = sent'[k].data
      BY <1>2, ProperHeard
    <3> HIDE DEF q, q2
    <3>4. CASE Unmoved(u)
      <4>1. \A n \in Added(q2, q) : ~IsTell(q2[n]) /\ ~IsOver(q2[n])
        BY <3>2, <3>3, <3>4 DEF Unmoved
      <4>2. CASE IsHome(u)
        <5>1. Fits(q2, due[u], selfUser[u], record[u])
          BY <3>1, <3>2, <4>1, <4>2, OthersAdded
        <5> QED
          BY <3>4, <4>2, <5>1 DEF Unmoved, q2
      <4>3. CASE ~IsHome(u)
        <5>1. NoTell(q2) /\ NoOver(q2)
          BY <3>1, <3>2, <4>1, <4>3, NoNewsAdded
        <5> QED
          BY <3>1, <3>4, <4>3, <5>1 DEF Unmoved, q2
      <4> QED
        BY <4>2, <4>3
    <3>5. CASE LetHome(u)
      <4>1. due[u] = Nil /\ NoTell(q) /\ NoOver(q)
        BY <3>1, <3>5 DEF LetHome
      <4>2. \A n \in Added(q2, q) : /\ ~IsOver(q2[n])
                                    /\ IsTell(q2[n]) => ToldInfo(q2[n]) = record'[u]
        BY <3>2, <3>3, <3>5 DEF LetHome
      <4>3. \E n \in Added(q2, q) : IsTell(q2[n])
        BY <3>2, <3>3, <3>5 DEF LetHome
      <4>4. Fits(q2, Nil, selfUser[u], record'[u])
        BY <3>2, <4>1, <4>2, <4>3, TellAdded
      <4> QED
        BY <3>5, <4>1, <4>4 DEF LetHome, q2
    <3>6. CASE Finished(u)
      <4>1. PICK k \in ForPage(u) :
              /\ \A l \in ForPage(u) : ~IsTell(sent'[l]) /\ (IsOver(sent'[l]) <=> l = k)
              /\ Counts(sent'[k].data, record'[u])
        BY <3>6 DEF Finished
      <4>2. PICK n \in Added(q2, q) :
              /\ q2[n] = OnTheWay(sent'[k])
              /\ \A m \in Added(q2, q) : m # n =>
                   \E l \in ForPage(u) : l # k /\ q2[m] = OnTheWay(sent'[l])
        BY <3>2
      <4>3. \A m \in Added(q2, q) : ~IsTell(q2[m]) /\ (IsOver(q2[m]) <=> m = n)
        BY <3>2, <3>3, <4>1, <4>2
      <4>4. Counts(q2[n].data, record'[u])
        BY <3>3, <4>1, <4>2
      <4>5. \A b : ~Counts(b, NewUser)
        BY CountedOnce
      <4>6. Fits(q, due[u], selfUser[u], NewUser)
        BY <3>1, <3>6 DEF Finished
      <4>7. Fits(q2, due[u], selfUser[u], record'[u])
        <5>1. ASSUME NEW r, Counts(q2[n].data, r)
              PROVE  Fits(q2, due[u], selfUser[u], r)
          <6>1. Longer(q2, q)
            BY <3>2
          <6> QED
            BY <4>3, <4>5, <4>6, <5>1, <6>1, OverAdded
        <5> QED
          BY <4>4, <5>1
      <4> QED
        BY <3>6, <4>7 DEF Finished, q2
    <3> QED
      BY <3>4, <3>5, <3>6
  <2> QED
    BY <1>0, <2>1 DEF RecordsCome
<1> QED
  BY <1>4, <1>5, <1>6, <1>7 DEF WorldInv

-----------------------------------------------------------------------------
(* Steps that are no news about anybody's record.                          *)

NewsTypes == {"LoginSuccessResponse", "GameSituation", "GameOver", "UpdateUserInfo"}
NoNews == \A k \in DOMAIN sent' : sent'[k].type \notin NewsTypes

\* Who gets into a game with this step.
Joins(u) ==
  /\ state[u] = "kMatching" /\ userInfo[u].total < 1
  /\ \E k \in DOMAIN sent' : /\ sent'[k].to = "front" /\ sent'[k].id = connId[u]
                             /\ sent'[k].type = "MatchResponse"

Calm ==
  /\ NoNews /\ AllProper
  /\ \A i \in ConnIds : entrys'[i] = entrys[i] \/ (entrys'[i] = Nil /\ ~Present(i))
  /\ \A i \in ConnIds : IsAway(i)' => IsAway(i) \/ (~Present(i) /\ upq'[i] = <<>>)
  /\ \A u \in Users : state'[u] # "none" => state[u] # "none" /\ userInfo'[u] = userInfo[u]
  /\ \A u \in Users : IsInRoom(u)' => IsInRoom(u) \/ Joins(u)

LEMMA CalmStep ==
  ASSUME WorldInv, CenterInv', UNCHANGED links, PassOn, Shrunk, Calm
  PROVE  WorldInv'
<1>0. /\ record \in [Users -> Info] /\ cid \in [Users -> ConnIds] /\ UNCHANGED cid
      /\ CenterInv
  BY DEF WorldInv, WorldTypeOK, PassOn, pageVars
<1>1. record' = record
  <2>1. \A u \in Users : {k \in DOMAIN sent' : /\ sent'[k].type = "UpdateUserInfo"
                                               /\ sent'[k].data.username = u} = {}
    BY DEF Calm, NoNews, NewsTypes
  <2>2. record' = [u \in Users |-> record[u]]
    BY <2>1 DEF PassOn
  <2> QED
    BY <1>0, <2>2
<1>2. OwnersStay
  <2>1. ASSUME NEW i \in ConnIds, NEW w \in Users, entrys'[i] = w
        PROVE  Claims(w, i)
    BY <2>1, NilAssumption DEF Calm, Claims
  <2>2. ASSUME NEW i \in ConnIds, IsAway(i)'
        PROVE  ~Present(i) /\ upq'[i] = <<>>
    <3>1. IsAway(i) => ~Present(i) /\ upq[i] = <<>>
      BY DEF WorldInv, OwnersOK
    <3> QED
      BY <2>2, <3>1, ShrunkParts DEF Calm
  <2> QED
    BY <2>1, <2>2 DEF OwnersStay
<1>3. \A u \in Users : /\ record[u] = NewUser \/ record[u].total = 1
                       /\ state[u] # "none" => userInfo[u] = record[u]
                       /\ IsInRoom(u) => record[u] = NewUser
  BY DEF WorldInv, FilesOK
<1>4. FilesOK'
  <2>1. ASSUME NEW u \in Users, Joins(u)
        PROVE  record[u] = NewUser
    BY <1>3, <2>1 DEF Joins
  <2> QED
    BY <1>1, <1>3, <2>1 DEF Calm, FilesOK
<1>5. ASSUME NEW u \in Users
      PROVE  IsHome(u)' <=> IsHome(u)
  <2>1. Present(cid[u]) /\ cid[u] \in ConnIds
    BY <1>0 DEF Present
  <2> QED
    BY <1>0, <2>1 DEF Calm, IsHome
<1>6. BoardsSent
  <2> SUFFICES ASSUME NEW u \in Users, IsInRoom(u)', IsHome(u)'
               PROVE  \/ IsInRoom(u) /\ IsHome(u)
                      \/ \E k \in ForPage(u) : IsBoard(sent'[k])
    BY DEF BoardsSent
  <2>1. IsHome(u) /\ cid[u] \in ConnIds
    BY <1>0, <1>5
  <2>2. entrys[cid[u]] # Nil
    BY <2>1, NilAssumption DEF IsHome
  <2>3. connId[u] = cid[u]
    BY <1>0, <2>1, <2>2, EntryIsUser DEF IsHome
  <2> QED
    BY <2>1, <2>3 DEF Calm, Joins, ForPage, IsBoard
<1>7. \A u \in Users : Unmoved(u)
  BY <1>1, <1>5 DEF Unmoved, Calm, NoNews, NewsTypes, IsTell, IsOver, ForPage
<1> QED
  BY <1>0, <1>1, <1>2, <1>4, <1>6, <1>7, ServedStep DEF Calm

LEMMA NoMail ==
  ASSUME sent' = <<>>
  PROVE  NoNews /\ AllProper
  BY DEF NoNews, AllProper

LEMMA OneMail ==
  ASSUME NEW to, NEW id, NEW type, NEW data, NEW cond,
         type \notin NewsTypes,
         type = "MoveStep" => to = "front" /\ Proper(Msg(to, id, type, data)),
         \/ sent' = <<>>
         \/ sent' = <<Msg(to, id, type, data)>>
         \/ sent' = If(cond, <<Msg(to, id, type, data)>>)
  PROVE  NoNews /\ AllProper
<1>1. sent' = <<>> \/ sent' = <<Msg(to, id, type, data)>>
  BY DEF If
<1>2. Msg(to, id, type, data).type = type
  BY DEF Msg
<1>3. Proper(Msg(to, id, type, data))
  BY <1>2 DEF Proper, NewsTypes
<1>4. \A k \in DOMAIN sent' : sent'[k] = Msg(to, id, type, data)
  BY <1>1
<1> QED
  BY <1>2, <1>3, <1>4 DEF NoNews, AllProper

LEMMA QuietCalm ==
  ASSUME UNCHANGED <<entrys, state, userInfo>>, NoNews, AllProper
  PROVE  Calm
  BY DEF Calm, IsAway, IsInRoom

LEMMA IgnoreCalm ==
  ASSUME Ignore
  PROVE  Calm
  BY NoMail, QuietCalm DEF Ignore, hallVars

LEMMA RelayCalm ==
  ASSUME up', NEW o, NEW type, NEW data, type \notin NewsTypes \cup {"MoveStep"},
         Relay(o, type, data)
  PROVE  Calm
<1>1. sent' = <<Msg("front", connId[o], type, data)>> /\ UNCHANGED hallVars
  BY DEF Relay, Crash
<1> QED
  BY <1>1, OneMail, QuietCalm DEF hallVars

LEMMA QueueCalm ==
  ASSUME WorldInv, up', NEW i \in ConnIds,
         (\E type \in RoomTypes : OnMatchRequest(i, type)) \/ OnCancelMatchRequest(i)
  PROVE  Calm
<1>1. CASE Ignore
  BY <1>1, IgnoreCalm
<1>2. ASSUME entrys[i] # Nil, NEW st \in {"kOnline", "kMatching"},
             state[entrys[i]] \in {"kOnline", "kMatching"},
             state' = [state EXCEPT ![entrys[i]] = st], UNCHANGED <<entrys, userInfo>>,
             NoNews, AllProper
      PROVE  Calm
  <2>1. entrys[i] \in Users /\ state \in [Users -> States]
    BY <1>2, EntryIsUser DEF WorldInv, CenterInv, TypeOK
  <2>2. \A u \in Users : state'[u] = state[u] \/ (u = entrys[i] /\ state'[u] = st)
    BY <1>2, <2>1
  <2>3. \A j \in ConnIds : entrys[j] # Nil => entrys[j] \in Users
    BY EntryIsUser DEF WorldInv
  <2> QED
    BY <1>2, <2>2, <2>3 DEF Calm, IsAway, IsInRoom
<1>3. ASSUME NEW type \in RoomTypes, OnMatchRequest(i, type)
      PROVE  Calm
  <2>1. CASE /\ entrys[i] # Nil /\ state[entrys[i]] = "kOnline"
             /\ state' = [state EXCEPT ![entrys[i]] = "kMatching"]
             /\ sent' = <<Msg("match", i, "MatchBackendRequest",
                              [username |-> entrys[i], type |-> type,
                               score |-> userInfo[entrys[i]].score])>>
             /\ UNCHANGED <<entrys, userInfo>>
    <3>1. NoNews /\ AllProper
      BY <2>1, OneMail DEF NewsTypes
    <3> QED
      BY <1>2, <2>1, <3>1
  <2> QED
    BY <1>1, <1>3, <2>1 DEF OnMatchRequest, Crash
<1>4. ASSUME OnCancelMatchRequest(i)
      PROVE  Calm
  <2>1. CASE /\ entrys[i] # Nil /\ state[entrys[i]] = "kMatching"
             /\ state' = [state EXCEPT ![entrys[i]] = "kOnline"]
             /\ sent' = <<CancelMatchMsg(entrys[i])>>
             /\ UNCHANGED <<entrys, userInfo>>
    <3>1. NoNews /\ AllProper
      BY <2>1, OneMail DEF NewsTypes, CancelMatchMsg
    <3> QED
      BY <1>2, <2>1, <3>1
  <2> QED
    BY <1>1, <1>4, <2>1 DEF OnCancelMatchRequest, Crash
<1> QED
  BY <1>3, <1>4

LEMMA PairCalm ==
  ASSUME WorldInv, up', NEW r \in Users, NEW b \in Users, r # b,
         state[r] = "kMatching", state[b] = "kMatching",
         \A u \in {r, b} : userInfo[u].total < 1,
         NEW type \in RoomTypes, OnMatchBackendResponse(r, b, type)
  PROVE  Calm
<1>1. CASE Ignore
  BY <1>1, IgnoreCalm
<1>2. ASSUME StartNewGame(r, b, type)
      PROVE  Calm
  <2>1. /\ state' = [state EXCEPT ![r] = "kPlaying", ![b] = "kPlaying"]
        /\ UNCHANGED <<entrys, connId, userInfo>>
        /\ sent' = <<MatchResponseMsg(r, "RED", type, b), MatchResponseMsg(b, "BLACK", type, r)>>
    BY <1>2 DEF StartNewGame
  <2>2. \A k \in DOMAIN sent' : /\ sent'[k].to = "front" /\ sent'[k].type = "MatchResponse"
                                /\ sent'[k].id = IF k = 1 THEN connId[r] ELSE connId[b]
    BY <2>1 DEF MatchResponseMsg, Msg
  <2>3. 1 \in DOMAIN sent' /\ 2 \in DOMAIN sent'
    BY <2>1
  <2>4. Joins(r) /\ Joins(b)
    BY <2>2, <2>3 DEF Joins
  <2>5. NoNews /\ AllProper
    BY <2>2 DEF NoNews, AllProper, NewsTypes, Proper
  <2>6. state \in [Users -> States]
    BY DEF WorldInv, CenterInv, TypeOK
  <2>7. /\ state'[r] = "kPlaying" /\ state'[b] = "kPlaying"
        /\ \A u \in Users : u \notin {r, b} => state'[u] = state[u]
    BY <2>1, <2>6
  <2>8. \A j \in ConnIds : entrys[j] # Nil => entrys[j] \in Users
    BY EntryIsUser DEF WorldInv
  <2> QED
    BY <2>1, <2>4, <2>5, <2>7, <2>8 DEF Calm, IsAway, IsInRoom
<1>3. r = FindEntryByUsername(r) /\ b = FindEntryByUsername(b)
  <2>1. ASSUME NEW u \in Users, state[u] = "kMatching"
        PROVE  u = FindEntryByUsername(u)
    BY <2>1, SeatHasId, NilAssumption DEF WorldInv, CenterInv, HallOK, FindEntryByUsername
  <2> QED
    BY <2>1
<1> QED
  BY <1>1, <1>2, <1>3 DEF OnMatchBackendResponse, Crash

LEMMA MoveCalm ==
  ASSUME WorldInv, up', NEW i \in ConnIds, NEW fen \in Fens \ {<<>>}, OnMoveStep(i, fen, FALSE)
  PROVE  Calm
<1> DEFINE s == entrys[i]
           o == FindOppEntry(s)
<1>1. CASE Ignore
  BY <1>1, IgnoreCalm
<1>2. CASE /\ s # Nil /\ OppFound(s) /\ PassTheMove(s, o, fen, 1)
           /\ sent' = If(IsOnPlaying(o),
                         <<Msg("front", connId[o], "MoveStep", [over |-> FALSE, fen |-> fen])>>)
  <2>1. CASE IsOnPlaying(o)
    <3>1. o \in Users /\ state[o] # "none"
      BY <1>2, <2>1, FoundIsInHall DEF WorldInv
    <3>2. entrys[connId[o]] = o /\ o # Nil
      BY <3>1, SeatHasId, NilAssumption DEF WorldInv
    <3> HIDE DEF o
    <3>3. Proper(Msg("front", connId[o], "MoveStep", [over |-> FALSE, fen |-> fen]))
      BY <2>1, <3>2 DEF Proper, Msg, IsOnPlaying, IsInRoom
    <3> QED
      BY <1>2, <3>3, OneMail, QuietCalm DEF PassTheMove, hallVars, NewsTypes
  <2>2. CASE ~IsOnPlaying(o)
    <3>1. sent' = <<>>
      BY <1>2, <2>2 DEF If
    <3> QED
      BY <1>2, <3>1, NoMail, QuietCalm DEF PassTheMove, hallVars
  <2> QED
    BY <2>1, <2>2
<1> QED
  BY <1>1, <1>2 DEF OnMoveStep, OppInGame, Crash

LEMMA ForgiveRequestCalm ==
  ASSUME up', NEW i \in ConnIds, OnForgiveRequest(i)
  PROVE  Calm
<1>1. CASE Ignore
  BY <1>1, IgnoreCalm
<1>2. CASE Relay(FindOppEntry(entrys[i]), "ForgiveRequest", NoBody)
  BY <1>2, RelayCalm DEF NewsTypes
<1> QED
  BY <1>1, <1>2 DEF OnForgiveRequest, Crash

LEMMA ForgiveResponseCalm ==
  ASSUME up', NEW i \in ConnIds, NEW agree, NEW fen, OnForgiveResponse(i, agree, fen)
  PROVE  Calm
<1> DEFINE o == FindOppEntry(entrys[i])
<1>1. CASE Ignore
  BY <1>1, IgnoreCalm
<1>2. CASE Relay(o, "ForgiveResponse", [agree |-> FALSE])
  BY <1>2, RelayCalm DEF NewsTypes
<1>3. CASE /\ PassTheMove(entrys[i], o, fen, -1)
           /\ sent' = If(IsOnPlaying(o), <<Msg("front", connId[o], "ForgiveResponse",
                                           [agree |-> TRUE])>>)
  BY <1>3, OneMail, QuietCalm DEF PassTheMove, hallVars, NewsTypes
<1> QED
  BY <1>1, <1>2, <1>3 DEF OnForgiveResponse, Crash

LEMMA DrawRequestCalm ==
  ASSUME up', NEW i \in ConnIds, OnDrawRequest(i)
  PROVE  Calm
<1>1. CASE Ignore
  BY <1>1, IgnoreCalm
<1>2. CASE Relay(FindOppEntry(entrys[i]), "DrawRequest", NoBody)
  BY <1>2, RelayCalm DEF NewsTypes
<1> QED
  BY <1>1, <1>2 DEF OnDrawRequest, Crash

LEMMA DrawRefusedCalm ==
  ASSUME up', NEW i \in ConnIds, OnDrawResponse(i, FALSE)
  PROVE  Calm
<1>1. CASE Ignore
  BY <1>1, IgnoreCalm
<1>2. CASE Relay(FindOppEntry(entrys[i]), "DrawResponse", [agree |-> FALSE])
  BY <1>2, RelayCalm DEF NewsTypes
<1> QED
  BY <1>1, <1>2 DEF OnDrawResponse, Crash

\* A page is gone: its user leaves the hall, or keeps the seat.
LEMMA DisconnectedCalm ==
  ASSUME WorldInv, up', NEW i \in ConnIds, upq[i] # <<>>, ~Present(i), upq'[i] = <<>>,
         OnDisconnected(i)
  PROVE  Calm /\ CenterInv' /\ UNCHANGED links
<1> DEFINE e == entrys[i]
           o == FindOppEntry(e)
<1>0. CenterInv /\ OwnersOK
  BY DEF WorldInv
<1>1. CASE Ignore
  BY <1>0, <1>1, IgnoreCalm, IgnoreStep DEF Ignore
<1>2. ASSUME e # Nil
      PROVE  /\ e \in Users /\ connId[e] = i /\ state[e] # "none"
             /\ state[e] # "kDisconnecteInPlaying"
             /\ entrys \in [ConnIds -> Users \cup {Nil}]
             /\ state \in [Users -> States] /\ userInfo \in [Users -> Info \cup {Nil}]
  <2>1. e \in Users /\ connId[e] = i /\ state[e] # "none"
    BY <1>0, <1>2, EntryIsUser
  <2>2. ~IsAway(i)
    BY <1>0 DEF OwnersOK
  <2> QED
    BY <1>0, <1>2, <2>1, <2>2 DEF IsAway, CenterInv, TypeOK
<1> HIDE DEF e
<1>3. CASE /\ e # Nil /\ state[e] # "kPlaying" /\ OutOfHall(e)
           /\ sent' \in {<<>>, <<CancelMatchMsg(e)>>}
           /\ UNCHANGED <<gameVars, links, up>>
  <2>0. e \in Users /\ connId[e] = i /\ state[e] # "none" /\ ~IsInRoom(e)
    BY <1>2, <1>3 DEF IsInRoom
  <2>1. CenterInv'
    <3>1. sent' \in Seq(HallMessage)
      BY <1>3, <2>0, CancelMatchMsgTyped, EmptyTyped
    <3>2. sent' \in Seq(Message)
      BY <3>1, HallMessages
    <3> QED
      BY <1>0, <1>3, <2>0, <3>2, OutOfHallStep
  <2>2. NoNews /\ AllProper
    BY <1>3, NoMail, OneMail DEF CancelMatchMsg, NewsTypes
  <2>3. /\ entrys' = [entrys EXCEPT ![i] = Nil] /\ state' = [state EXCEPT ![e] = "none"]
        /\ userInfo' = [userInfo EXCEPT ![e] = Nil]
    BY <1>3, <2>0 DEF OutOfHall, Erase
  <2>4. /\ \A j \in ConnIds : entrys'[j] = entrys[j] \/ (entrys'[j] = Nil /\ j = i)
        /\ \A u \in Users : state'[u] = "none"
                            \/ (state'[u] = state[u] /\ userInfo'[u] = userInfo[u])
    BY <1>2, <1>3, <2>3
  <2>5. \A j \in ConnIds : entrys[j] # Nil => entrys[j] \in Users
    BY <1>0, EntryIsUser
  <2>6. \A j \in ConnIds : IsAway(j)' => IsAway(j)
    BY <2>4, <2>5 DEF IsAway
  <2> QED
    BY <1>3, <2>1, <2>2, <2>4, <2>6 DEF Calm, IsInRoom
<1>4. CASE /\ e # Nil /\ IsOnPlaying(e)
           /\ state' = [state EXCEPT ![e] = "kDisconnecteInPlaying"]
           /\ OppFound(e)
           /\ sent' = If(IsOnPlaying(o) /\ o # e,
                         <<Msg("front", connId[o], "OppDisconnected", NoBody)>>)
           /\ UNCHANGED <<entrys, userList, connId, userInfo, gameVars, links, up>>
  <2>0. e \in Users /\ connId[e] = i /\ state[e] # "none" /\ IsInRoom(e)
    BY <1>2, <1>4 DEF IsInRoom, IsOnPlaying
  <2>1. CenterInv'
    <3>1. o \in Users /\ state[o] # "none"
      BY <1>0, <1>4, FoundIsInHall DEF e
    <3>2. connId[o] \in ConnIds /\ entrys[connId[o]] # Nil
      BY <1>0, <3>1, SeatHasId
    <3> HIDE DEF o
    <3>3. <<Msg("front", connId[o], "OppDisconnected", NoBody)>> \in Seq(HallMessage)
      BY <3>2, HallMsg, BodyTyped DEF Links, MessageTypes
    <3>4. sent' \in Seq(Message)
      BY <1>4, <3>3, IfTyped, HallMessages
    <3>5. "kDisconnecteInPlaying" \in States \ {"none"}
      BY DEF States
    <3> QED
      BY <1>0, <1>4, <2>0, <3>4, <3>5, StateStep
  <2>2. NoNews /\ AllProper
    BY <1>4, OneMail DEF NewsTypes
  <2>3. \A u \in Users : state'[u] = state[u] \/ u = e
    BY <1>2, <1>4
  <2>4. \A j \in ConnIds : entrys[j] = e => j = i
    BY <1>0, <1>4, <2>0, EntryIsUser
  <2>5. \A j \in ConnIds : entrys[j] # Nil => entrys[j] \in Users
    BY <1>0, EntryIsUser
  <2>6. \A j \in ConnIds : IsAway(j)' => IsAway(j) \/ j = i
    BY <1>4, <2>3, <2>4, <2>5 DEF IsAway
  <2> QED
    BY <1>4, <2>0, <2>1, <2>2, <2>3, <2>6 DEF Calm, IsInRoom
<1> QED
  BY <1>1, <1>2, <1>3, <1>4 DEF OnDisconnected, Crash, e, IsOnPlaying

-----------------------------------------------------------------------------
(* An answer to a login.                                                   *)

\* Who is let in, with whatever else is sent.
LEMMA EntersStep ==
  ASSUME WorldInv, CenterInv', UNCHANGED links, PassOn, Shrunk,
         NEW i \in ConnIds, NEW u \in Users, Claims(u, i), entrys[i] = Nil, ~IsHome(u),
         entrys'[i] = u, state'[u] # "kDisconnecteInPlaying",
         \A j \in ConnIds \ {i} :
           \/ entrys'[j] = entrys[j] /\ entrys[j] # u
           \/ entrys'[j] = Nil /\ entrys[j] = u,
         \A w \in Users \ {u} : state'[w] = state[w] /\ userInfo'[w] = userInfo[w],
         userInfo'[u] = record[u], IsInRoom(u)' => IsInRoom(u),
         AllProper,
         \A k \in DOMAIN sent' :
           /\ ~IsOver(sent'[k]) /\ sent'[k].type # "UpdateUserInfo"
           /\ IsTell(sent'[k]) => /\ sent'[k].id = i
                                  /\ ToldInfo(OnTheWay(sent'[k])) = record[u],
         \E k \in DOMAIN sent' : /\ sent'[k].to = "front" /\ sent'[k].id = i
                                 /\ IsTell(sent'[k])
                                 /\ IsInRoom(u)' => IsBoard(sent'[k])
  PROVE  WorldInv'
<1>0. /\ record \in [Users -> Info] /\ cid \in [Users -> ConnIds] /\ UNCHANGED cid
      /\ CenterInv /\ OwnersOK
  BY DEF WorldInv, WorldTypeOK, PassOn, pageVars
<1>1. record' = record
  <2>1. \A w \in Users : {k \in DOMAIN sent' : /\ sent'[k].type = "UpdateUserInfo"
                                               /\ sent'[k].data.username = w} = {}
    OBVIOUS
  <2>2. record' = [w \in Users |-> record[w]]
    BY <2>1 DEF PassOn
  <2> QED
    BY <1>0, <2>2
<1>2. \A w \in Users : cid[w] = i => w = u
  <2> SUFFICES ASSUME NEW w \in Users, cid[w] = i PROVE w = u
    OBVIOUS
  <2>1. Claims(w, i)
    BY DEF Claims
  <2> QED
    BY <1>0, <2>1 DEF OwnersOK
<1>3. \A j \in ConnIds : entrys[j] # Nil => entrys[j] \in Users
  BY <1>0, EntryIsUser
<1>4. u # Nil
  BY NilAssumption
<1>5. OwnersStay
  <2>1. ASSUME NEW j \in ConnIds, NEW w \in Users, entrys'[j] = w
        PROVE  Claims(w, j)
    <3>1. CASE j = i
      BY <2>1, <3>1
    <3>2. CASE j # i
      <4>1. w # Nil
        BY NilAssumption
      <4>2. entrys[j] = w
        BY <2>1, <3>2, <4>1
      <4> QED
        BY <4>2 DEF Claims
    <3> QED
      BY <3>1, <3>2
  <2>2. ASSUME NEW j \in ConnIds, IsAway(j)'
        PROVE  ~Present(j) /\ upq'[j] = <<>>
    <3>1. j # i
      BY <2>2 DEF IsAway
    <3>2. entrys'[j] = entrys[j] /\ entrys[j] # Nil /\ entrys[j] # u
      BY <2>2, <3>1 DEF IsAway
    <3>3. state'[entrys[j]] = state[entrys[j]]
      BY <1>3, <3>2
    <3>4. IsAway(j)
      BY <2>2, <3>2, <3>3 DEF IsAway
    <3> QED
      BY <1>0, <3>4, ShrunkParts DEF OwnersOK
  <2> QED
    BY <2>1, <2>2 DEF OwnersStay
<1>6. FilesOK'
  <2>1. ASSUME NEW w \in Users
        PROVE  /\ record[w] = NewUser \/ record[w].total = 1
               /\ state'[w] # "none" => userInfo'[w] = record[w]
               /\ IsInRoom(w)' => record[w] = NewUser
    <3>1. /\ record[w] = NewUser \/ record[w].total = 1
          /\ state[w] # "none" => userInfo[w] = record[w]
          /\ IsInRoom(w) => record[w] = NewUser
      BY DEF WorldInv, FilesOK
    <3>2. CASE w = u
      BY <3>1, <3>2
    <3>3. CASE w # u
      BY <3>1, <3>3 DEF IsInRoom
    <3> QED
      BY <3>2, <3>3
  <2> QED
    BY <1>1, <2>1 DEF FilesOK
<1>7. \A w \in Users : w # u => (IsHome(w)' <=> IsHome(w))
  <2> SUFFICES ASSUME NEW w \in Users, w # u PROVE IsHome(w)' <=> IsHome(w)
    OBVIOUS
  <2>1. cid[w] \in ConnIds /\ cid[w] # i /\ w # Nil
    BY <1>0, <1>2, NilAssumption
  <2> QED
    BY <1>0, <2>1 DEF IsHome
<1>8. IsHome(u)' <=> cid[u] = i
  <2>1. cid[u] \in ConnIds
    BY <1>0
  <2> QED
    BY <1>0, <1>4, <2>1 DEF IsHome
<1>9. BoardsSent
  <2> SUFFICES ASSUME NEW w \in Users, IsInRoom(w)', IsHome(w)'
               PROVE  \/ IsInRoom(w) /\ IsHome(w)
                      \/ \E k \in ForPage(w) : IsBoard(sent'[k])
    BY DEF BoardsSent
  <2>1. CASE w = u
    BY <1>8, <2>1 DEF ForPage
  <2>2. CASE w # u
    BY <1>7, <2>2 DEF IsInRoom
  <2> QED
    BY <2>1, <2>2
<1>10. ASSUME NEW w \in Users
       PROVE  Unmoved(w) \/ LetHome(w) \/ Finished(w)
  <2>1. CASE w = u /\ cid[u] = i
    BY <1>1, <1>8, <2>1 DEF LetHome, ForPage
  <2>2. CASE w # u \/ cid[u] # i
    <3>1. cid[w] # i
      BY <1>2, <2>2
    <3>2. IsHome(w)' <=> IsHome(w)
      BY <1>7, <1>8, <2>2
    <3> QED
      BY <1>1, <3>1, <3>2 DEF Unmoved, ForPage
  <2> QED
    BY <2>1, <2>2
<1> QED
  BY <1>0, <1>1, <1>5, <1>6, <1>9, <1>10, ServedStep

LEMMA LoginStep ==
  ASSUME WorldInv, up', PassOn, Shrunk, NEW i \in ConnIds, NEW u \in Users, Claims(u, i),
         OnLoginSuccessResponse(i, u, record[u])
  PROVE  WorldInv'
<1> DEFINE oldId == userList[u]
           e == entrys[oldId]
           info == record[u]
<1>2. CenterInv /\ OwnersOK /\ FilesOK /\ info \in Info
  BY DEF WorldInv, WorldTypeOK
<1>3. /\ entrys[i] # Nil => entrys[i] = u /\ oldId = i
      /\ oldId # Nil => oldId \in ConnIds /\ e = u /\ connId[u] = oldId /\ state[u] # "none"
      /\ u # Nil
  <2>1. entrys[i] # Nil => entrys[i] = u
    <3> SUFFICES ASSUME entrys[i] # Nil PROVE entrys[i] = u
      OBVIOUS
    <3>1. entrys[i] \in Users /\ Claims(entrys[i], i)
      BY <1>2, EntryIsUser DEF Claims
    <3> QED
      BY <1>2, <3>1 DEF OwnersOK
  <2> QED
    BY <1>2, <2>1, NilAssumption DEF CenterInv, TypeOK, HallOK
<1>4. /\ state \in [Users -> States] /\ userInfo \in [Users -> Info \cup {Nil}]
      /\ entrys \in [ConnIds -> Users \cup {Nil}] /\ cid[u] \in ConnIds
  BY <1>2 DEF CenterInv, TypeOK, WorldInv, WorldTypeOK
<1>5. \A j \in ConnIds : entrys[j] = u => j = oldId
  BY <1>2, <1>3 DEF CenterInv, HallOK
<1>6. CASE Ignore
  <2>1. CenterInv' /\ Calm /\ UNCHANGED links
    BY <1>2, <1>6, IgnoreStep, IgnoreCalm DEF Ignore
  <2> QED
    BY <2>1, CalmStep
<1>7. CASE /\ oldId = Nil
           /\ IntoHall(i, u, info)
           /\ sent' = <<Msg("front", i, "LoginSuccessResponse", [username |-> u, info |-> info])>>
           /\ UNCHANGED <<gameVars, links, up>>
  <2>1. entrys[i] = Nil
    BY <1>3, <1>7, NilAssumption
  <2>2. [username |-> u, info |-> info] \in Body
    BY <1>2, BodyTyped
  <2>3. sent' \in Seq(Message)
    BY <1>7, <2>2, PlainMsg DEF Links, MessageTypes
  <2>4. CenterInv'
    BY <1>2, <1>7, <2>1, <2>3, IntoHallStep
  <2>5. /\ entrys' = [entrys EXCEPT ![i] = u]
        /\ state' = [state EXCEPT ![u] = "kOnline"]
        /\ userInfo' = [userInfo EXCEPT ![u] = info]
    BY <1>7, <2>1 DEF IntoHall, Insert
  <2>6. \A j \in ConnIds : entrys[j] # u
    BY <1>5, <1>7, NilAssumption DEF CenterInv, TypeOK
  <2>7. /\ entrys'[i] = u /\ state'[u] = "kOnline" /\ userInfo'[u] = info
        /\ \A j \in ConnIds \ {i} : entrys'[j] = entrys[j]
        /\ \A w \in Users \ {u} : state'[w] = state[w] /\ userInfo'[w] = userInfo[w]
    BY <1>4, <2>5
  <2>8. /\ 1 \in DOMAIN sent'
        /\ \A k \in DOMAIN sent' :
             /\ sent'[k].to = "front" /\ sent'[k].id = i
             /\ sent'[k].type = "LoginSuccessResponse" /\ sent'[k].data.info = info
    BY <1>7 DEF Msg
  <2>9. AllProper
    BY <1>2, <2>8 DEF AllProper, Proper
  <2>10. \A k \in DOMAIN sent' :
           /\ ~IsOver(sent'[k]) /\ sent'[k].type # "UpdateUserInfo" /\ IsTell(sent'[k])
           /\ ToldInfo(OnTheWay(sent'[k])) = record[u]
    BY <2>8 DEF IsOver, IsTell, ToldInfo, OnTheWay
  <2>11. ~IsHome(u) /\ ~IsInRoom(u)'
    BY <1>4, <2>6, <2>7 DEF IsHome, IsInRoom
  <2>12. UNCHANGED links
    BY <1>7
  <2> HIDE DEF oldId, e, info
  <2> QED
    BY <2>1, <2>4, <2>6, <2>7, <2>8, <2>9, <2>10, <2>11, <2>12, EntersStep DEF info
<1>8. CASE /\ oldId \notin {Nil, i} /\ e # Nil
           /\ sent' = <<Msg("front", i, "LoginFailedResponse", [reason |-> "MULTI_LOGIN"])>>
           /\ UNCHANGED <<hallVars, gameVars, links, up>>
  <2>1. [reason |-> "MULTI_LOGIN"] \in Body
    BY BodyTyped
  <2>2. sent' \in Seq(Message) /\ links' \subseteq Links /\ up' \in BOOLEAN
    BY <1>2, <1>8, <2>1, PlainMsg DEF Links, MessageTypes, CenterInv, TypeOK
  <2>3. CenterInv'
    BY <1>2, <1>8, <2>2, QuietStep
  <2>4. Calm
    BY <1>8, OneMail, QuietCalm DEF hallVars, NewsTypes
  <2> QED
    BY <1>8, <2>3, <2>4, CalmStep
<1>9. CASE /\ oldId \notin {Nil, i} /\ e # Nil
           /\ state[e] = "kDisconnecteInPlaying"
           /\ OnReconnected(i, oldId, e)
  <2> DEFINE opp == gameInfo[u].opp
             told == If(IsOnPlaying(opp), <<Msg("front", connId[opp], "OppReconnected", NoBody)>>)
             movedEntrys == Insert(Erase(entrys, oldId), i, u)
  <2>1. /\ e = u /\ entrys[i] = Nil /\ oldId \in ConnIds \ {i} /\ connId[u] = oldId
        /\ state[u] = "kDisconnecteInPlaying"
    BY <1>3, <1>9
  <2>2. gameInfo[u] # Nil
    BY <1>2, <2>1 DEF CenterInv, RoomOK, IsInRoom
  <2>3. /\ opp \in Users \ {u} /\ connId[opp] \in ConnIds \ {i, oldId}
        /\ entrys[connId[opp]] = opp /\ opp # Nil
    <3>1. opp \in Users \ {u} /\ state[opp] # "none"
      BY <1>2, <2>2, OppIsFound DEF IsInRoom
    <3>2. connId[opp] \in ConnIds /\ entrys[connId[opp]] = opp
      BY <1>2, <3>1, SeatHasId
    <3> QED
      BY <2>1, <3>1, <3>2, NilAssumption
  <2>4. movedEntrys = [[entrys EXCEPT ![oldId] = Nil] EXCEPT ![i] = u]
    BY <1>2, <2>1 DEF Insert, Erase, CenterInv, TypeOK
  <2>5. movedEntrys[connId[opp]] = opp
    BY <1>2, <2>3, <2>4 DEF CenterInv, TypeOK
  <2>6. /\ entrys' = movedEntrys
        /\ userList' = Insert(Erase(userList, u), u, i)
        /\ connId' = [connId EXCEPT ![u] = i]
        /\ state' = [state EXCEPT ![u] = "kPlaying"]
        /\ sent' = told \o <<SituationMsg(u, i)>>
        /\ UNCHANGED <<userInfo, gameVars, links, up>>
    BY <1>9, <2>1, <2>5 DEF OnReconnected, Crash
  <2>7. /\ <<SituationMsg(u, i)>> \in Seq(Message) /\ SituationMsg(u, i) \in Message
        /\ RoomOf(u).fen \in Fens \cup {Nil}
    <3>1. /\ gameInfo[u] \in GameInfo /\ RoomOf(u) \in RoomInfo
      BY <1>2, <2>2, NilAssumption DEF CenterInv, TypeOK, RoomOK, RoomOf, GameInfo
    <3>2. [red |-> gameInfo[u].type = "kRed", fen |-> RoomOf(u).fen,
           roomtype |-> RoomOf(u).type, turntome |-> IsTurnToPlay(u)] \in Body
      BY <3>1, BodyTyped DEF RoomInfo, IsTurnToPlay
    <3> QED
      BY <3>1, <3>2, PlainMsg DEF SituationMsg, Links, MessageTypes, RoomInfo
  <2>8. told \in Seq(Message)
    <3>1. <<Msg("front", connId[opp], "OppReconnected", NoBody)>> \in Seq(HallMessage)
      BY <2>3, HallMsg, BodyTyped DEF Links, MessageTypes
    <3>2. told \in Seq(HallMessage)
      BY <3>1, IfTyped
    <3> QED
      BY <3>2, HallMessages
  <2>9. sent' \in Seq(Message)
    BY <2>6, <2>7, <2>8, ConcatTyped
  <2>10. CenterInv'
    <3>1. connId[u] # Nil /\ IsInRoom(u)
      BY <2>1, <1>9 DEF IsInRoom
    <3>2. entrys' = Insert(Erase(entrys, connId[u]), i, u)
      BY <2>1, <2>6
    <3> QED
      BY <1>2, <2>1, <2>6, <2>9, <3>1, <3>2, ReconnectedStep
  <2>11. /\ entrys'[i] = u /\ entrys'[oldId] = Nil
         /\ \A j \in ConnIds \ {i, oldId} : entrys'[j] = entrys[j]
    BY <1>4, <2>1, <2>4, <2>6
  <2>12. \A j \in ConnIds \ {i} : \/ entrys'[j] = entrys[j] /\ entrys[j] # u
                                  \/ entrys'[j] = Nil /\ entrys[j] = u
    BY <1>5, <2>1, <2>11
  <2>13. /\ state'[u] = "kPlaying" /\ IsInRoom(u)
         /\ \A w \in Users \ {u} : state'[w] = state[w] /\ userInfo'[w] = userInfo[w]
         /\ userInfo'[u] = record[u]
    BY <1>2, <1>4, <2>1, <2>6 DEF FilesOK, IsInRoom
  <2>14. ~IsHome(u)
    <3>1. IsAway(oldId)
      BY <2>1, <1>3 DEF IsAway
    <3>2. ~Present(oldId)
      BY <1>2, <2>1, <3>1 DEF OwnersOK
    <3> QED
      BY <1>4, <1>5, <3>2 DEF IsHome, Present
  <2>15. /\ \A k \in DOMAIN sent' : \/ sent'[k] = SituationMsg(u, i)
                                    \/ sent'[k].type = "OppReconnected"
         /\ \E k \in DOMAIN sent' : sent'[k] = SituationMsg(u, i)
    <3>1. \A k \in DOMAIN told : told[k].type = "OppReconnected"
      BY DEF If, Msg
    <3> DEFINE sits == <<SituationMsg(u, i)>>
    <3>2. /\ sits \in Seq(Message) /\ Len(sits) = 1 /\ sits[1] = SituationMsg(u, i)
      BY <2>7
    <3>3. sent' = told \o sits
      BY <2>6
    <3> HIDE DEF told, sits
    <3>4. /\ sent' \in Seq(Message) /\ Len(told) \in Nat /\ Len(sent') = Len(told) + 1
          /\ \A k \in 1..Len(told) : sent'[k] = told[k]
          /\ sent'[Len(told) + 1] = sits[1]
      <4>1. ASSUME NEW x \in Seq(Message), NEW y \in Seq(Message), Len(y) = 1
            PROVE  /\ x \o y \in Seq(Message) /\ Len(x) \in Nat /\ Len(x \o y) = Len(x) + 1
                   /\ \A k \in 1..Len(x) : (x \o y)[k] = x[k]
                   /\ (x \o y)[Len(x) + 1] = y[1]
        <5>1. /\ x \o y \in Seq(Message) /\ Len(x) \in Nat /\ Len(x \o y) = Len(x) + Len(y)
              /\ \A k \in 1..Len(x) : (x \o y)[k] = x[k]
              /\ \A k \in 1..Len(y) : (x \o y)[Len(x) + k] = y[k]
          BY ConcatFacts
        <5>2. 1 \in 1..Len(y)
          BY <4>1
        <5> QED
          BY <4>1, <5>1, <5>2
      <4> QED
        BY <2>8, <3>2, <3>3, <4>1
    <3>5. DOMAIN told = 1..Len(told) /\ DOMAIN sent' = 1..(Len(told) + 1)
      BY <2>8, <3>4
    <3>6. \A k \in DOMAIN sent' : k \in DOMAIN told \/ k = Len(told) + 1
      BY <3>4, <3>5
    <3>7. Len(told) + 1 \in DOMAIN sent'
      BY <3>4, <3>5
    <3> QED
      BY <3>1, <3>2, <3>4, <3>5, <3>6, <3>7
  <2>17. /\ SituationMsg(u, i).to = "front" /\ SituationMsg(u, i).id = i
         /\ SituationMsg(u, i).type = "GameSituation"
         /\ SituationMsg(u, i).data.fen = RoomOf(u).fen
    BY DEF SituationMsg, Msg
  <2>18. userInfo[entrys'[i]] = record[u]
    BY <1>4, <2>6, <2>11, <2>13
  <2> DEFINE sit == SituationMsg(u, i)
  <2>19. /\ Proper(sit) /\ IsTell(sit) /\ IsBoard(sit) /\ ~IsOver(sit)
         /\ sit.type # "UpdateUserInfo"
         /\ ToldInfo(OnTheWay(sit)) = record[u]
    BY <1>2, <2>7, <2>17, <2>18 DEF Proper, IsTell, IsBoard, IsOver, ToldInfo, OnTheWay
  <2>20. sit.to = "front" /\ sit.id = i
    BY <2>17
  <2>21. /\ \A k \in DOMAIN sent' : sent'[k] = sit \/ sent'[k].type = "OppReconnected"
         /\ \E k \in DOMAIN sent' : sent'[k] = sit
    BY <2>15
  <2> HIDE DEF sit, opp, told, movedEntrys, oldId, e, info
  <2>22. AllProper
    BY <2>19, <2>21 DEF AllProper, Proper
  <2>23. /\ \A k \in DOMAIN sent' :
              /\ ~IsOver(sent'[k]) /\ sent'[k].type # "UpdateUserInfo"
              /\ IsTell(sent'[k]) => /\ sent'[k].id = i
                                     /\ ToldInfo(OnTheWay(sent'[k])) = record[u]
         /\ \E k \in DOMAIN sent' : /\ sent'[k].to = "front" /\ sent'[k].id = i
                                    /\ IsTell(sent'[k]) /\ IsBoard(sent'[k])
    BY <2>19, <2>20, <2>21 DEF IsOver, IsTell
  <2>24. UNCHANGED links
    BY <2>6
  <2> QED
    BY <2>1, <2>10, <2>11, <2>12, <2>13, <2>14, <2>22, <2>23, <2>24, EntersStep
<1> QED
  BY <1>6, <1>7, <1>8, <1>9 DEF OnLoginSuccessResponse, Crash

-----------------------------------------------------------------------------
(* The end of a game.                                                      *)

Never(q, e) == \A k \in DOMAIN q : q[k] # e
Once(q, e) == \E k \in DOMAIN q : \A l \in DOMAIN q : q[l] = e <=> l = k

LEMMA ConcatMembers ==
  ASSUME NEW S, NEW x \in Seq(S), NEW y \in Seq(S), NEW q, q = x \o y
  PROVE  /\ q \in Seq(S)
         /\ \A k \in DOMAIN q : \/ \E l \in DOMAIN x : q[k] = x[l]
                                \/ \E l \in DOMAIN y : q[k] = y[l]
         /\ \A e : /\ Never(x, e) /\ Never(y, e) => Never(q, e)
                   /\ Never(x, e) /\ Once(y, e) => Once(q, e)
                   /\ Once(x, e) /\ Never(y, e) => Once(q, e)
<1>1. /\ q \in Seq(S) /\ Len(x) \in Nat /\ Len(y) \in Nat
      /\ Len(q) = Len(x) + Len(y)
      /\ \A k \in 1..Len(x) : q[k] = x[k]
      /\ \A k \in 1..Len(y) : q[Len(x) + k] = y[k]
  BY ConcatFacts
<1>2. /\ DOMAIN q = 1..(Len(x) + Len(y))
      /\ DOMAIN x = 1..Len(x) /\ DOMAIN y = 1..Len(y)
  BY <1>1
<1>3. ASSUME NEW k \in DOMAIN q
      PROVE  \/ k \in DOMAIN x
             \/ \E l \in DOMAIN y : k = Len(x) + l
  <2>1. CASE k <= Len(x)
    BY <1>1, <1>2, <2>1
  <2>2. CASE ~(k <= Len(x))
    <3>1. k - Len(x) \in DOMAIN y /\ k = Len(x) + (k - Len(x))
      BY <1>1, <1>2, <2>2
    <3> QED
      BY <3>1
  <2> QED
    BY <2>1, <2>2
<1>4. /\ \A k \in DOMAIN x : k \in DOMAIN q
      /\ \A l \in DOMAIN y : Len(x) + l \in DOMAIN q
      /\ \A k \in DOMAIN x, l \in DOMAIN y : k # Len(x) + l
      /\ \A k, l \in DOMAIN y : Len(x) + k = Len(x) + l => k = l
  BY <1>1, <1>2
<1>5. ASSUME NEW e, Never(x, e), Never(y, e)
      PROVE  Never(q, e)
  BY <1>1, <1>2, <1>3, <1>5 DEF Never
<1>6. ASSUME NEW e, Never(x, e), Once(y, e)
      PROVE  Once(q, e)
  <2>1. PICK k \in DOMAIN y : \A l \in DOMAIN y : y[l] = e <=> l = k
    BY <1>6 DEF Once
  <2>2. ASSUME NEW l \in DOMAIN q
        PROVE  q[l] = e <=> l = Len(x) + k
    <3>1. CASE l \in DOMAIN x
      BY <1>1, <1>2, <1>4, <1>6, <3>1 DEF Never
    <3>2. ASSUME NEW m \in DOMAIN y, l = Len(x) + m
          PROVE  q[l] = e <=> l = Len(x) + k
      <4>1. q[l] = y[m]
        BY <1>1, <1>2, <3>2
      <4>2. l = Len(x) + k <=> m = k
        BY <1>4, <3>2
      <4> QED
        BY <2>1, <4>1, <4>2
    <3> QED
      BY <1>3, <3>1, <3>2
  <2> QED
    BY <1>4, <2>2 DEF Once
<1>7. ASSUME NEW e, Once(x, e), Never(y, e)
      PROVE  Once(q, e)
  <2>1. PICK k \in DOMAIN x : \A l \in DOMAIN x : x[l] = e <=> l = k
    BY <1>7 DEF Once
  <2>2. ASSUME NEW l \in DOMAIN q
        PROVE  q[l] = e <=> l = k
    <3>1. CASE l \in DOMAIN x
      BY <1>1, <1>2, <2>1, <3>1
    <3>2. ASSUME NEW m \in DOMAIN y, l = Len(x) + m
          PROVE  q[l] = e <=> l = k
      BY <1>1, <1>2, <1>4, <1>7, <3>2 DEF Never
    <3> QED
      BY <1>3, <3>1, <3>2
  <2> QED
    BY <1>4, <2>2 DEF Once
<1>8. ASSUME NEW k \in DOMAIN q
      PROVE  \/ \E l \in DOMAIN x : q[k] = x[l]
             \/ \E l \in DOMAIN y : q[k] = y[l]
  BY <1>1, <1>2, <1>3
<1> QED
  BY <1>1, <1>5, <1>6, <1>7, <1>8

\* The four messages of a game that ends, the last two for who is connected.
SelfReport(s, over) == UpdateUserInfoMsg(s, SelfInfo(s, over))
OppReport(o, over) == UpdateUserInfoMsg(o, OppInfo(o, over))
SelfOver(s, over) == GameOverMsg(s, over, GetChangeScore(over))
OppOver(o, over) == GameOverMsg(o, OppOverType(over), -GetChangeScore(over))
EndingMsgs(before, s, o, over) == before \o GameOverMsgs(s, o, over)

EndsWith(q, before, s, o, over) ==
  /\ \A k \in DOMAIN q :
       \/ \E l \in DOMAIN before : q[k] = before[l]
       \/ q[k] \in {SelfReport(s, over), OppReport(o, over)}
       \/ IsOnPlaying(s) /\ q[k] = SelfOver(s, over)
       \/ IsOnPlaying(o) /\ q[k] = OppOver(o, over)
  /\ IsOnPlaying(s) => Once(q, SelfOver(s, over))
  /\ IsOnPlaying(o) => Once(q, OppOver(o, over))

LEMMA GameOverNews ==
  ASSUME NEW s, NEW o, connId[s] # connId[o], NEW over, NEW S, NEW before \in Seq(S),
         \A k \in DOMAIN before : before[k].type \notin NewsTypes,
         NEW q, q = EndingMsgs(before, s, o, over)
  PROVE  EndsWith(q, before, s, o, over)
<1>0. q = before \o GameOverMsgs(s, o, over)
  BY DEF EndingMsgs
<1>1. PICK a, b : a = SelfReport(s, over) /\ b = OppReport(o, over)
  OBVIOUS
<1>2. PICK c : c = SelfOver(s, over)
  OBVIOUS
<1>3. PICK d : d = OppOver(o, over)
  OBVIOUS
<1>4. PICK cs \in BOOLEAN : cs <=> IsOnPlaying(s)
  BY DEF IsOnPlaying
<1>5. PICK co \in BOOLEAN : co <=> IsOnPlaying(o)
  BY DEF IsOnPlaying
<1>6. PICK T : T = S \cup {a, b, c, d}
  OBVIOUS
<1>7. /\ a \in T /\ b \in T /\ c \in T /\ d \in T
      /\ before \in Seq(T)
  <2>1. S \subseteq T
    BY <1>6
  <2>2. before \in Seq(T)
    BY <2>1, SeqGrows
  <2> QED
    BY <1>6, <2>2
<1>8. /\ a.type = "UpdateUserInfo" /\ b.type = "UpdateUserInfo"
      /\ c.type = "GameOver" /\ c.id = connId[s]
      /\ d.type = "GameOver" /\ d.id = connId[o]
  BY <1>1, <1>2, <1>3 DEF SelfReport, OppReport, SelfOver, OppOver, UpdateUserInfoMsg,
                          GameOverMsg, Msg
<1>9. c \notin {a, b} /\ d \notin {a, b, c}
  BY <1>8
<1>10. Never(before, c) /\ Never(before, d)
  BY <1>8 DEF Never, NewsTypes
<1>11. q = before \o ((<<a, b>> \o If(cs, <<c>>)) \o If(co, <<d>>))
  <2>1. If(IsOnPlaying(s), <<c>>) = If(cs, <<c>>) /\ If(IsOnPlaying(o), <<d>>) = If(co, <<d>>)
    BY <1>4, <1>5 DEF If
  <2>2. GameOverMsgs(s, o, over) = (<<a, b>> \o If(IsOnPlaying(s), <<c>>)) \o If(IsOnPlaying(o), <<d>>)
    BY <1>1, <1>2, <1>3 DEF GameOverMsgs, SelfReport, OppReport, SelfOver, OppOver
  <2> QED
    BY <1>0, <2>1, <2>2
<1>12. /\ \A k \in DOMAIN q : \/ \E l \in DOMAIN before : q[k] = before[l]
                              \/ q[k] \in {a, b}
                              \/ cs /\ q[k] = c
                              \/ co /\ q[k] = d
       /\ cs => Once(q, c)
       /\ co => Once(q, d)
  <2> DEFINE x == <<a, b>>
             y == If(cs, <<c>>)
             z == If(co, <<d>>)
             xy == x \o y
             xyz == xy \o z
  <2>1. /\ x \in Seq(T) /\ y \in Seq(T) /\ z \in Seq(T)
    BY <1>7 DEF If
  <2>2. /\ \A k \in DOMAIN x : x[k] \in {a, b}
        /\ \A k \in DOMAIN y : cs /\ y[k] = c
        /\ \A k \in DOMAIN z : co /\ z[k] = d
    <3>1. \A k \in DOMAIN <<a, b>> : <<a, b>>[k] \in {a, b}
      OBVIOUS
    <3>2. ASSUME NEW cond, NEW e
          PROVE  \A k \in DOMAIN If(cond, <<e>>) : cond /\ If(cond, <<e>>)[k] = e
      <4>1. CASE cond
        <5>1. If(cond, <<e>>) = <<e>>
          BY <4>1 DEF If
        <5>2. \A k \in DOMAIN <<e>> : <<e>>[k] = e
          OBVIOUS
        <5> QED
          BY <4>1, <5>1, <5>2
      <4>2. CASE ~cond
        <5>1. If(cond, <<e>>) = <<>>
          BY <4>2 DEF If
        <5> QED
          BY <5>1
      <4> QED
        BY <4>1, <4>2
    <3> QED
      BY <3>1, <3>2
  <2>3. /\ cs => Once(y, c)
        /\ co => Once(z, d)
    <3>1. ASSUME NEW e
          PROVE  Once(<<e>>, e)
      BY DEF Once
    <3> QED
      BY <3>1 DEF If
  <2> HIDE DEF x, y, z
  <2>4. /\ Never(x, c) /\ Never(x, d) /\ Never(y, d) /\ Never(z, c)
    BY <1>9, <2>2 DEF Never
  <2>5. /\ xy \in Seq(T)
        /\ \A k \in DOMAIN xy : \/ \E l \in DOMAIN x : xy[k] = x[l]
                                \/ \E l \in DOMAIN y : xy[k] = y[l]
        /\ \A e : /\ Never(x, e) /\ Never(y, e) => Never(xy, e)
                  /\ Never(x, e) /\ Once(y, e) => Once(xy, e)
                  /\ Once(x, e) /\ Never(y, e) => Once(xy, e)
    BY <2>1, ConcatMembers
  <2>6. (cs => Once(xy, c)) /\ Never(xy, d)
    BY <2>3, <2>4, <2>5
  <2> HIDE DEF xy
  <2>7. /\ xyz \in Seq(T)
        /\ \A k \in DOMAIN xyz : \/ \E l \in DOMAIN xy : xyz[k] = xy[l]
                                 \/ \E l \in DOMAIN z : xyz[k] = z[l]
        /\ \A e : /\ Never(xy, e) /\ Never(z, e) => Never(xyz, e)
                  /\ Never(xy, e) /\ Once(z, e) => Once(xyz, e)
                  /\ Once(xy, e) /\ Never(z, e) => Once(xyz, e)
    BY <2>1, <2>5, ConcatMembers
  <2>8. (cs => Once(xyz, c)) /\ (co => Once(xyz, d))
    BY <2>3, <2>4, <2>6, <2>7
  <2>9. q = before \o xyz
    BY <1>11 DEF x, y, z, xy
  <2> HIDE DEF xyz
  <2>10. /\ \A k \in DOMAIN q : \/ \E l \in DOMAIN before : q[k] = before[l]
                                \/ \E l \in DOMAIN xyz : q[k] = xyz[l]
         /\ \A e : Never(before, e) /\ Once(xyz, e) => Once(q, e)
    <3>1. ASSUME NEW r \in Seq(T), q = before \o r
          PROVE  /\ \A k \in DOMAIN q : \/ \E l \in DOMAIN before : q[k] = before[l]
                                       \/ \E l \in DOMAIN r : q[k] = r[l]
                 /\ \A e : Never(before, e) /\ Once(r, e) => Once(q, e)
      <4>1. /\ q \in Seq(T)
            /\ \A k \in DOMAIN q : \/ \E l \in DOMAIN before : q[k] = before[l]
                                   \/ \E l \in DOMAIN r : q[k] = r[l]
            /\ \A e : /\ Never(before, e) /\ Never(r, e) => Never(q, e)
                      /\ Never(before, e) /\ Once(r, e) => Once(q, e)
                      /\ Once(before, e) /\ Never(r, e) => Once(q, e)
        BY <1>7, <3>1, ConcatMembers
      <4> QED
        BY <4>1
    <3> QED
      BY <2>7, <2>9, <3>1
  <2>11. \A k \in DOMAIN xyz : \/ xyz[k] \in {a, b}
                               \/ cs /\ xyz[k] = c
                               \/ co /\ xyz[k] = d
    <3> SUFFICES ASSUME NEW k \in DOMAIN xyz
                 PROVE  xyz[k] \in {a, b} \/ (cs /\ xyz[k] = c) \/ (co /\ xyz[k] = d)
      OBVIOUS
    <3>1. CASE \E l \in DOMAIN xy : xyz[k] = xy[l]
      BY <2>2, <2>5, <3>1
    <3>2. CASE \E l \in DOMAIN z : xyz[k] = z[l]
      BY <2>2, <3>2
    <3> QED
      BY <2>7, <3>1, <3>2
  <2>12. ASSUME NEW k \in DOMAIN q
         PROVE  \/ \E l \in DOMAIN before : q[k] = before[l]
                \/ q[k] \in {a, b}
                \/ cs /\ q[k] = c
                \/ co /\ q[k] = d
    BY <2>10, <2>11
  <2>13. (cs => Once(q, c)) /\ (co => Once(q, d))
    BY <1>10, <2>8, <2>10
  <2> QED
    BY <2>12, <2>13
<1> QED
  BY <1>1, <1>2, <1>3, <1>4, <1>5, <1>12 DEF EndsWith

LEMMA GameOverReported ==
  ASSUME NEW s, NEW o, NEW over, NEW S, NEW before \in Seq(S),
         NEW q, q = EndingMsgs(before, s, o, over)
  PROVE  /\ \E k \in DOMAIN q : q[k] = SelfReport(s, over)
         /\ \E k \in DOMAIN q : q[k] = OppReport(o, over)
<1>0. q = before \o GameOverMsgs(s, o, over)
  BY DEF EndingMsgs
<1>1. /\ Len(before) \in Nat /\ DOMAIN before = 1..Len(before)
      /\ DOMAIN q \subseteq Nat
      /\ Len(before) + 1 \in DOMAIN q /\ Len(before) + 2 \in DOMAIN q
      /\ q[Len(before) + 1] = UpdateUserInfoMsg(s, SelfInfo(s, over))
      /\ q[Len(before) + 2] = UpdateUserInfoMsg(o, OppInfo(o, over))
      /\ \A k \in DOMAIN q : \/ k \in DOMAIN before /\ q[k] = before[k]
                             \/ k \in {Len(before) + 1, Len(before) + 2}
                             \/ q[k].type = "GameOver"
  BY <1>0, GameOverSent
<1> QED
  BY <1>1 DEF SelfReport, OppReport

\* The login server is told the two new records.
LEMMA EndRecords ==
  ASSUME PassOn, NEW s \in Users, NEW o \in Users, s # o, NEW over,
         \A k \in DOMAIN sent' : sent'[k].type = "UpdateUserInfo" =>
           sent'[k] \in {SelfReport(s, over), OppReport(o, over)},
         \E k \in DOMAIN sent' : sent'[k] = SelfReport(s, over),
         \E k \in DOMAIN sent' : sent'[k] = OppReport(o, over)
  PROVE  record' = [u \in Users |-> CASE u = s -> SelfInfo(s, over)
                                      [] u = o -> OppInfo(o, over)
                                      [] OTHER -> record[u]]
<1> DEFINE told(u) == {k \in DOMAIN sent' : /\ sent'[k].type = "UpdateUserInfo"
                                            /\ sent'[k].data.username = u}
<1>1. /\ SelfReport(s, over).type = "UpdateUserInfo"
      /\ SelfReport(s, over).data.username = s
      /\ SelfReport(s, over).data.info = SelfInfo(s, over)
      /\ OppReport(o, over).type = "UpdateUserInfo"
      /\ OppReport(o, over).data.username = o
      /\ OppReport(o, over).data.info = OppInfo(o, over)
  BY DEF SelfReport, OppReport, UpdateUserInfoMsg, Msg
<1>2. /\ told(s) # {} /\ \A k \in told(s) : sent'[k].data.info = SelfInfo(s, over)
      /\ told(o) # {} /\ \A k \in told(o) : sent'[k].data.info = OppInfo(o, over)
      /\ \A u \in Users \ {s, o} : told(u) = {}
  BY <1>1
<1>3. record' = [u \in Users |->
                   IF told(u) = {} THEN record[u]
                   ELSE sent'[CHOOSE k \in told(u) : TRUE].data.info]
  BY DEF PassOn
<1> HIDE DEF told
<1>4. ASSUME NEW u \in Users
      PROVE  record'[u] = CASE u = s -> SelfInfo(s, over)
                            [] u = o -> OppInfo(o, over)
                            [] OTHER -> record[u]
  <2>1. CASE u = s
    <3>1. (CHOOSE k \in told(s) : TRUE) \in told(s)
      BY <1>2
    <3> QED
      BY <1>2, <1>3, <2>1, <3>1
  <2>2. CASE u = o
    <3>1. (CHOOSE k \in told(o) : TRUE) \in told(o)
      BY <1>2
    <3> QED
      BY <1>2, <1>3, <2>2, <3>1
  <2>3. CASE u \notin {s, o}
    BY <1>2, <1>3, <2>3
  <2> QED
    BY <2>1, <2>2, <2>3
<1> QED
  BY <1>3, <1>4

\* One of the two players: told the result, if the page is there to hear it.
LEMMA PlayerTold ==
  ASSUME WorldInv, UNCHANGED cid, NEW p \in Users, IsInRoom(p), NEW m,
         m.to = "front", m.id = connId[p], IsOver(m), Counts(m.data, record'[p]),
         IsHome(p)' <=> IsHome(p), IsOnPlaying(p) => Once(sent', m),
         \A k \in DOMAIN sent' :
           /\ ~IsTell(sent'[k])
           /\ IsOver(sent'[k]) /\ sent'[k].id = cid[p] => IsHome(p) /\ sent'[k] = m
  PROVE  Unmoved(p) \/ Finished(p)
<1>1. cid[p] \in ConnIds /\ record[p] = NewUser
  BY DEF WorldInv, WorldTypeOK, FilesOK
<1>2. CASE ~IsHome(p)
  BY <1>2 DEF Unmoved, ForPage
<1>3. CASE IsHome(p)
  <2>1. Present(cid[p]) /\ entrys[cid[p]] = p /\ p # Nil
    BY <1>3, NilAssumption DEF Present, IsHome
  <2>2. connId[p] = cid[p]
    BY <1>1, <2>1, EntryIsUser DEF WorldInv
  <2>3. ~IsAway(cid[p])
    BY <1>1, <2>1 DEF WorldInv, OwnersOK
  <2>4. IsOnPlaying(p)
    BY <2>1, <2>3 DEF IsAway, IsInRoom, IsOnPlaying
  <2>5. PICK k \in DOMAIN sent' : \A l \in DOMAIN sent' : sent'[l] = m <=> l = k
    BY <2>4 DEF Once
  <2>6. k \in ForPage(p) /\ sent'[k] = m
    BY <2>2, <2>5 DEF ForPage
  <2>7. \A l \in ForPage(p) : ~IsTell(sent'[l]) /\ (IsOver(sent'[l]) <=> l = k)
    BY <2>5, <2>6 DEF ForPage
  <2> QED
    BY <1>1, <1>3, <2>6, <2>7 DEF Finished
<1> QED
  BY <1>2, <1>3

LEMMA OverStep ==
  ASSUME WorldInv, CenterInv', PassOn, Shrunk, NEW s \in Users, gameInfo[s] # Nil,
         NEW over \in OverTypes, NEW ts, NEW before \in Seq(HallMessage),
         \A k \in DOMAIN before : /\ before[k].type \notin NewsTypes
                                  /\ before[k].to = "front" => Proper(before[k]),
         GameOver(s, FindOppEntry(s), over, ts, before)
  PROVE  WorldInv'
<1>0. /\ CenterInv /\ OwnersOK /\ FilesOK
      /\ record \in [Users -> Info] /\ cid \in [Users -> ConnIds] /\ UNCHANGED cid
  BY DEF WorldInv, WorldTypeOK, PassOn, pageVars
<1>1. PICK o \in Users : /\ o # s /\ FindOppEntry(s) = o
                         /\ IsInRoom(s) /\ IsInRoom(o)
  BY <1>0, OppIsFound
<1>2. ASSUME NEW p \in {s, o}
      PROVE  /\ p \in Users /\ p # Nil /\ connId[p] \in ConnIds /\ entrys[connId[p]] = p
             /\ userInfo[p] = NewUser /\ record[p] = NewUser /\ userInfo[p] \in Info
  <2>1. p \in Users /\ state[p] # "none" /\ IsInRoom(p)
    BY <1>1 DEF IsInRoom
  <2> QED
    BY <1>0, <2>1, SeatHasId, NilAssumption DEF FilesOK
<1>3. \A u \in Users : \A p \in {s, o} : connId[p] = cid[u] => u = p /\ IsHome(p)
  <2> SUFFICES ASSUME NEW u \in Users, NEW p \in {s, o}, connId[p] = cid[u]
               PROVE  u = p /\ IsHome(p)
    OBVIOUS
  <2>1. Claims(p, cid[u]) /\ Claims(u, cid[u]) /\ cid[u] \in ConnIds
    BY <1>0, <1>2 DEF Claims
  <2>2. u = p
    BY <1>0, <1>2, <2>1 DEF OwnersOK
  <2> QED
    BY <1>2, <2>2 DEF IsHome
<1>4. connId[s] # connId[o]
  BY <1>1, <1>2
<1>5. /\ sent' = EndingMsgs(before, s, o, over)
      /\ DestroyRoom(s, o, [userInfo EXCEPT ![s] = SelfInfo(s, over), ![o] = OppInfo(o, over)])
      /\ UNCHANGED links
  BY <1>1 DEF GameOver, EndingMsgs
<1>6. /\ \A k \in DOMAIN sent' :
           \/ \E l \in DOMAIN before : sent'[k] = before[l]
           \/ sent'[k] \in {SelfReport(s, over), OppReport(o, over)}
           \/ IsOnPlaying(s) /\ sent'[k] = SelfOver(s, over)
           \/ IsOnPlaying(o) /\ sent'[k] = OppOver(o, over)
      /\ \E k \in DOMAIN sent' : sent'[k] = SelfReport(s, over)
      /\ \E k \in DOMAIN sent' : sent'[k] = OppReport(o, over)
      /\ IsOnPlaying(s) => Once(sent', SelfOver(s, over))
      /\ IsOnPlaying(o) => Once(sent', OppOver(o, over))
  <2>1. PICK q : q = sent'
    OBVIOUS
  <2>2. q = EndingMsgs(before, s, o, over)
    BY <1>5, <2>1
  <2>3. /\ \E k \in DOMAIN q : q[k] = SelfReport(s, over)
        /\ \E k \in DOMAIN q : q[k] = OppReport(o, over)
    BY <2>2, GameOverReported
  <2>4. EndsWith(q, before, s, o, over)
    <3>1. \A k \in DOMAIN before : before[k].type \notin NewsTypes
      OBVIOUS
    <3> QED
      BY <1>4, <2>2, <3>1, GameOverNews
  <2> QED
    BY <2>1, <2>3, <2>4 DEF EndsWith
<1>7. /\ \A m \in {SelfReport(s, over), OppReport(o, over)} :
           m.type = "UpdateUserInfo" /\ m.to = "login"
      /\ SelfOver(s, over).to = "front" /\ SelfOver(s, over).id = connId[s]
      /\ SelfOver(s, over).type = "GameOver"
      /\ SelfOver(s, over).data = [type |-> over, changescore |-> GetChangeScore(over)]
      /\ OppOver(o, over).to = "front" /\ OppOver(o, over).id = connId[o]
      /\ OppOver(o, over).type = "GameOver"
      /\ OppOver(o, over).data = [type |-> OppOverType(over), changescore |-> -GetChangeScore(over)]
  BY DEF SelfReport, OppReport, SelfOver, OppOver, UpdateUserInfoMsg, GameOverMsg, Msg
<1>8. record' = [u \in Users |-> CASE u = s -> SelfInfo(s, over)
                                   [] u = o -> OppInfo(o, over)
                                   [] OTHER -> record[u]]
  <2>1. \A k \in DOMAIN sent' : sent'[k].type = "UpdateUserInfo" =>
          sent'[k] \in {SelfReport(s, over), OppReport(o, over)}
    BY <1>6, <1>7 DEF NewsTypes
  <2> QED
    BY <1>1, <1>6, <2>1, EndRecords
<1>9. /\ GetChangeScore(over) \in Int /\ SelfInfo(s, over) \in Info /\ OppInfo(o, over) \in Info
  BY <1>2, ResultTyped
<1>10. /\ record'[s] = SelfInfo(s, over) /\ record'[o] = OppInfo(o, over)
       /\ \A u \in Users \ {s, o} : record'[u] = record[u]
       /\ record' \in [Users -> Info]
  BY <1>0, <1>1, <1>8, <1>9
<1>11. /\ Counts(SelfOver(s, over).data, record'[s]) /\ record'[s].total = 1
       /\ Counts(OppOver(o, over).data, record'[o]) /\ record'[o].total = 1
  <2>1. /\ Counted(NewUser, over, GetChangeScore(over)) = SelfInfo(s, over)
        /\ Counted(NewUser, OppOverType(over), -GetChangeScore(over)) = OppInfo(o, over)
    BY <1>2, SameArithmetic
  <2>2. \A d : Counts(d, Counted(NewUser, d.type, d.changescore))
    BY DEF Counts
  <2>3. \A d : Counted(NewUser, d.type, d.changescore).total = 1
    BY CountedOnce
  <2>4. /\ SelfInfo(s, over) = Counted(NewUser, SelfOver(s, over).data.type,
                                       SelfOver(s, over).data.changescore)
        /\ OppInfo(o, over) = Counted(NewUser, OppOver(o, over).data.type,
                                      OppOver(o, over).data.changescore)
    BY <1>7, <2>1
  <2> QED
    BY <1>10, <2>2, <2>3, <2>4
<1>12. /\ entrys' = [i \in ConnIds |-> IF \E p \in {s, o} : ~IsOnPlaying(p) /\ connId[p] = i
                                         THEN Nil ELSE entrys[i]]
       /\ \A u \in Users \ {s, o} : state'[u] = state[u] /\ userInfo'[u] = userInfo[u]
       /\ \A u \in {s, o} : state'[u] \in {"none", "kOnline"}
       /\ state'[s] # "none" => userInfo'[s] = SelfInfo(s, over)
       /\ state'[o] # "none" => userInfo'[o] = OppInfo(o, over)
  <2>1. /\ state' = [u \in Users |-> CASE u \in Leavers(s, o) -> "none"
                                       [] u \in {s, o} \ Leavers(s, o) -> "kOnline"
                                       [] OTHER -> state[u]]
        /\ userInfo' = [u \in Users |->
             IF u \in Leavers(s, o) THEN Nil
             ELSE [userInfo EXCEPT ![s] = SelfInfo(s, over), ![o] = OppInfo(o, over)][u]]
    BY <1>5 DEF DestroyRoom
  <2>2. userInfo \in [Users -> Info \cup {Nil}]
    BY <1>0 DEF CenterInv, TypeOK
  <2>3. Leavers(s, o) \subseteq {s, o}
    BY DEF Leavers
  <2>4. \A u \in Users \ {s, o} : state'[u] = state[u] /\ userInfo'[u] = userInfo[u]
    BY <2>1, <2>2, <2>3
  <2>5. /\ \A u \in {s, o} : state'[u] \in {"none", "kOnline"}
        /\ state'[s] # "none" => userInfo'[s] = SelfInfo(s, over)
        /\ state'[o] # "none" => userInfo'[o] = OppInfo(o, over)
    BY <1>1, <2>1, <2>2
  <2>6. entrys' = [i \in ConnIds |-> IF \E p \in {s, o} : ~IsOnPlaying(p) /\ connId[p] = i
                                       THEN Nil ELSE entrys[i]]
    BY <1>5 DEF DestroyRoom, Leavers
  <2> QED
    BY <2>4, <2>5, <2>6
<1>13. \A i \in ConnIds : entrys'[i] \in {entrys[i], Nil}
  BY <1>12
<1>14. \A u \in Users : entrys'[cid[u]] = entrys[cid[u]]
  <2> SUFFICES ASSUME NEW u \in Users, NEW p \in {s, o}, ~IsOnPlaying(p), connId[p] = cid[u]
               PROVE  FALSE
    BY <1>0, <1>12
  <2>1. IsAway(cid[u])
    BY <1>1, <1>2 DEF IsAway, IsInRoom, IsOnPlaying
  <2>2. Present(cid[u]) /\ cid[u] \in ConnIds
    BY <1>0 DEF Present
  <2> QED
    BY <1>0, <2>1, <2>2 DEF OwnersOK
<1>15. \A u \in Users : IsHome(u)' <=> IsHome(u)
  BY <1>0, <1>14 DEF IsHome
<1>16. OwnersStay
  <2>1. ASSUME NEW i \in ConnIds, NEW w \in Users, entrys'[i] = w
        PROVE  Claims(w, i)
    BY <1>13, <2>1, NilAssumption DEF Claims
  <2>2. ASSUME NEW i \in ConnIds, IsAway(i)'
        PROVE  ~Present(i) /\ upq'[i] = <<>>
    <3>1. entrys[i] # Nil /\ entrys'[i] = entrys[i] /\ state'[entrys[i]] = "kDisconnecteInPlaying"
      BY <1>13, <2>2 DEF IsAway
    <3>2. entrys[i] \in Users
      BY <1>0, <3>1, EntryIsUser
    <3>3. IsAway(i)
      BY <1>12, <3>1, <3>2 DEF IsAway
    <3> QED
      BY <1>0, <3>3, ShrunkParts DEF OwnersOK
  <2> QED
    BY <2>1, <2>2 DEF OwnersStay
<1>17. FilesOK'
  <2>1. ASSUME NEW u \in Users
        PROVE  /\ record'[u] = NewUser \/ record'[u].total = 1
               /\ state'[u] # "none" => userInfo'[u] = record'[u]
               /\ IsInRoom(u)' => record'[u] = NewUser
    <3>1. CASE u \in {s, o}
      BY <1>10, <1>11, <1>12, <3>1 DEF IsInRoom
    <3>2. CASE u \notin {s, o}
      BY <1>0, <1>10, <1>12, <3>2 DEF FilesOK, IsInRoom
    <3> QED
      BY <3>1, <3>2
  <2> QED
    BY <2>1 DEF FilesOK
<1>18. AllProper
  <2>1. over \in GameOverTypes /\ OppOverType(over) \in GameOverTypes
    BY DEF OverTypes, GameOverTypes, OppOverType, OppResult
  <2>2. -GetChangeScore(over) \in Int
    BY <1>9
  <2>3. SelfOver(s, over).data \in GameResult /\ OppOver(o, over).data \in GameResult
    BY <1>7, <1>9, <2>1, <2>2 DEF GameResult
  <2>4. Proper(SelfOver(s, over)) /\ Proper(OppOver(o, over))
    BY <1>7, <2>3 DEF Proper
  <2> QED
    BY <1>6, <1>7, <2>4 DEF AllProper
<1>19. BoardsSent
  BY <1>12, <1>15 DEF BoardsSent, IsInRoom
<1>20. /\ IsOver(SelfOver(s, over)) /\ IsOver(OppOver(o, over))
       /\ \A k \in DOMAIN sent' :
            /\ ~IsTell(sent'[k])
            /\ IsOver(sent'[k]) => \/ sent'[k] = SelfOver(s, over) /\ sent'[k].id = connId[s]
                                   \/ sent'[k] = OppOver(o, over) /\ sent'[k].id = connId[o]
  BY <1>6, <1>7 DEF IsTell, IsOver, NewsTypes
<1>21. ASSUME NEW u \in Users
       PROVE  Unmoved(u) \/ LetHome(u) \/ Finished(u)
  <2>1. CASE u = s
    <3>1. \A k \in DOMAIN sent' :
            /\ ~IsTell(sent'[k])
            /\ IsOver(sent'[k]) /\ sent'[k].id = cid[s] => IsHome(s) /\ sent'[k] = SelfOver(s, over)
      BY <1>1, <1>3, <1>20
    <3>2. Unmoved(s) \/ Finished(s)
      BY <1>0, <1>1, <1>6, <1>7, <1>11, <1>15, <1>20, <3>1, PlayerTold
    <3> QED
      BY <2>1, <3>2
  <2>2. CASE u = o
    <3>1. \A k \in DOMAIN sent' :
            /\ ~IsTell(sent'[k])
            /\ IsOver(sent'[k]) /\ sent'[k].id = cid[o] => IsHome(o) /\ sent'[k] = OppOver(o, over)
      BY <1>1, <1>3, <1>20
    <3>2. Unmoved(o) \/ Finished(o)
      BY <1>0, <1>1, <1>6, <1>7, <1>11, <1>15, <1>20, <3>1, PlayerTold
    <3> QED
      BY <2>2, <3>2
  <2>3. CASE u \notin {s, o}
    <3>1. \A k \in ForPage(u) : ~IsTell(sent'[k]) /\ ~IsOver(sent'[k])
      BY <1>3, <1>20, <2>3 DEF ForPage
    <3> QED
      BY <1>10, <1>15, <2>3, <3>1 DEF Unmoved
  <2> QED
    BY <2>1, <2>2, <2>3
<1> QED
  BY <1>5, <1>10, <1>16, <1>17, <1>18, <1>19, <1>21, ServedStep

LEMMA EndStep ==
  ASSUME WorldInv, up', PassOn, Shrunk, NEW s \in Users, NEW over \in OverTypes,
         NEW ts \in {timers, CancelTimer(timers, s)}, NEW before \in Seq(HallMessage),
         \A k \in DOMAIN before : /\ before[k].type \notin NewsTypes
                                  /\ before[k].to = "front" => Proper(before[k]),
         EndGame(s, over, ts, before)
  PROVE  WorldInv'
<1>1. OppInGame(s) /\ GameOver(s, FindOppEntry(s), over, ts, before)
  BY DEF EndGame, Crash
<1>2. gameInfo[s] # Nil
  BY <1>1 DEF OppInGame, OppFound, HasOpp
<1>3. CenterInv'
  BY EndGameSeats DEF KeepsSeats, WorldInv
<1> QED
  BY <1>1, <1>2, <1>3, OverStep

-----------------------------------------------------------------------------
(* Every handler of the center, called for a message of a page.            *)

LEMMA CalmHandled ==
  ASSUME WorldInv, PassOn, Shrunk, Calm, Kept \/ KeepsSeats, UNCHANGED links
  PROVE  WorldInv'
  BY CalmStep DEF Kept, KeepsSeats

LEMMA EmptyMail ==
  /\ <<>> \in Seq(HallMessage)
  /\ \A k \in DOMAIN <<>> : /\ <<>>[k].type \notin NewsTypes
                            /\ <<>>[k].to = "front" => Proper(<<>>[k])
  OBVIOUS

LEMMA MoveStepHandled ==
  ASSUME WorldInv, up', PassOn, Shrunk, NEW i \in ConnIds, NEW over \in BOOLEAN,
         NEW fen \in Fens \ {<<>>}, OnMoveStep(i, fen, over)
  PROVE  WorldInv'
<1> DEFINE s == entrys[i]
           o == FindOppEntry(s)
           m == Msg("front", connId[o], "MoveStep", [over |-> over, fen |-> fen])
<1>0. CenterInv
  BY DEF WorldInv
<1>1. CASE ~over
  <2>1. OnMoveStep(i, fen, FALSE)
    BY <1>1
  <2>2. Calm
    BY <2>1, MoveCalm
  <2>3. Kept
    BY <1>0, MoveStepKept
  <2>4. UNCHANGED links
    BY Zenon, <2>1 DEF OnMoveStep, Ignore, Crash, PassTheMove
  <2> QED
    BY <2>2, <2>3, <2>4, CalmHandled
<1>2. CASE Ignore
  <2>1. Kept /\ Calm /\ UNCHANGED links
    BY <1>0, <1>2, KeptIgnored, IgnoreCalm DEF Ignore
  <2> QED
    BY <2>1, CalmHandled
<1>3. CASE /\ s # Nil /\ IsOnPlaying(s) /\ OppFound(s)
           /\ EndGame(s, "WIN", timers, If(IsOnPlaying(o), <<m>>))
  <2>1. s \in Users /\ o \in Users /\ state[o] # "none"
    BY <1>0, <1>3, FoundIsInHall
  <2>2. connId[o] \in ConnIds /\ entrys[connId[o]] = o /\ o # Nil
    BY <1>0, <2>1, SeatHasId, NilAssumption
  <2>3. PICK before : before = If(IsOnPlaying(o), <<m>>)
    OBVIOUS
  <2>4. before = <<>> \/ (IsOnPlaying(o) /\ before = <<m>>)
    BY <2>3 DEF If
  <2>5. m \in HallMessage
    <3>1. [over |-> over, fen |-> fen] \in Body
      BY BodyTyped
    <3> QED
      BY <2>2, <3>1, HallMsg DEF Links, MessageTypes
  <2>6. IsOnPlaying(o) => m.type \notin NewsTypes /\ Proper(m)
    BY <2>2 DEF Msg, NewsTypes, Proper, IsOnPlaying, IsInRoom
  <2>7. EndGame(s, "WIN", timers, before)
    BY <1>3, <2>3
  <2> HIDE DEF m, o, s
  <2>8. before \in Seq(HallMessage)
    <3>1. <<m>> \in Seq(HallMessage)
      BY <2>5
    <3>2. <<>> \in Seq(HallMessage)
      OBVIOUS
    <3> QED
      BY <2>4, <3>1, <3>2
  <2>9. \A k \in DOMAIN before : IsOnPlaying(o) /\ before[k] = m
    <3>1. CASE before = <<>>
      BY <3>1
    <3>2. CASE IsOnPlaying(o) /\ before = <<m>>
      BY <3>2
    <3> QED
      BY <2>4, <3>1, <3>2
  <2>10. \A k \in DOMAIN before : /\ before[k].type \notin NewsTypes
                                  /\ before[k].to = "front" => Proper(before[k])
    BY <2>6, <2>9
  <2>11. "WIN" \in OverTypes
    BY DEF OverTypes
  <2> QED
    BY <2>1, <2>7, <2>8, <2>10, <2>11, EndStep
<1> QED
  BY <1>1, <1>2, <1>3 DEF OnMoveStep, Crash

LEMMA GiveupHandled ==
  ASSUME WorldInv, up', PassOn, Shrunk, NEW i \in ConnIds, OnGiveup(i)
  PROVE  WorldInv'
<1>0. CenterInv
  BY DEF WorldInv
<1>1. CASE Ignore
  <2>1. Kept /\ Calm /\ UNCHANGED links
    BY <1>0, <1>1, KeptIgnored, IgnoreCalm DEF Ignore
  <2> QED
    BY <2>1, CalmHandled
<1>2. CASE entrys[i] # Nil /\ EndGame(entrys[i], "SELF_GIVEUP", timers, <<>>)
  <2>1. entrys[i] \in Users /\ "SELF_GIVEUP" \in OverTypes
    BY <1>0, <1>2, EntryIsUser DEF OverTypes
  <2> QED
    BY <1>2, <2>1, EmptyMail, EndStep
<1> QED
  BY <1>1, <1>2 DEF OnGiveup, Crash

LEMMA DrawResponseHandled ==
  ASSUME WorldInv, up', PassOn, Shrunk, NEW i \in ConnIds, NEW agree \in BOOLEAN,
         OnDrawResponse(i, agree)
  PROVE  WorldInv'
<1>0. CenterInv
  BY DEF WorldInv
<1>1. CASE ~agree
  <2>1. OnDrawResponse(i, FALSE)
    BY <1>1
  <2>2. Calm
    BY <2>1, DrawRefusedCalm
  <2>3. Kept
    BY <1>0, DrawResponseKept
  <2>4. UNCHANGED links
    BY <2>1 DEF OnDrawResponse, Ignore, Crash, Relay
  <2> QED
    BY <2>2, <2>3, <2>4, CalmHandled
<1>2. CASE entrys[i] # Nil /\ EndGame(entrys[i], "DRAW", timers, <<>>)
  <2>1. entrys[i] \in Users /\ "DRAW" \in OverTypes
    BY <1>0, <1>2, EntryIsUser DEF OverTypes
  <2> QED
    BY <1>2, <2>1, EmptyMail, EndStep
<1> QED
  BY <1>1, <1>2 DEF OnDrawResponse, Crash

LEMMA AskedHandled ==
  ASSUME WorldInv, up', PassOn, Shrunk, NEW i \in ConnIds,
         \/ OnForgiveRequest(i)
         \/ OnDrawRequest(i)
         \/ \E agree \in BOOLEAN, fen \in Fens : OnForgiveResponse(i, agree, fen)
  PROVE  WorldInv'
<1>0. CenterInv
  BY DEF WorldInv
<1>1. CASE OnForgiveRequest(i)
  <2>1. Kept /\ Calm
    BY <1>0, <1>1, ForgiveRequestKept, ForgiveRequestCalm
  <2>2. UNCHANGED links
    BY <1>1 DEF OnForgiveRequest, Ignore, Crash, Relay
  <2> QED
    BY <2>1, <2>2, CalmHandled
<1>2. CASE OnDrawRequest(i)
  <2>1. Kept /\ Calm
    BY <1>0, <1>2, DrawRequestKept, DrawRequestCalm
  <2>2. UNCHANGED links
    BY <1>2 DEF OnDrawRequest, Ignore, Crash, Relay
  <2> QED
    BY <2>1, <2>2, CalmHandled
<1>3. ASSUME NEW agree \in BOOLEAN, NEW fen \in Fens, OnForgiveResponse(i, agree, fen)
      PROVE  WorldInv'
  <2>1. KeepsSeats /\ Calm
    BY <1>0, <1>3, ForgiveResponseSeats, ForgiveResponseCalm
  <2>2. UNCHANGED links
    BY Zenon, <1>3 DEF OnForgiveResponse, Ignore, Crash, Relay, PassTheMove
  <2> QED
    BY <2>1, <2>2, CalmHandled
<1> QED
  BY <1>1, <1>2, <1>3

LEMMA QueueHandled ==
  ASSUME WorldInv, up', PassOn, Shrunk, NEW i \in ConnIds,
         (\E type \in RoomTypes : OnMatchRequest(i, type)) \/ OnCancelMatchRequest(i)
  PROVE  WorldInv'
<1>1. Calm
  BY QueueCalm
<1>2. Kept
  BY MatchRequestKept, CancelMatchRequestKept DEF WorldInv
<1>3. UNCHANGED links
  BY DEF OnMatchRequest, OnCancelMatchRequest, Ignore, Crash
<1> QED
  BY <1>1, <1>2, <1>3, CalmHandled

LEMMA TailOfOne ==
  ASSUME NEW S, NEW q \in Seq(S), Len(q) = 1
  PROVE  Tail(q) = <<>>
<1>1. Tail(q) \in Seq(S) /\ Len(Tail(q)) = 0
  OBVIOUS
<1> QED
  BY <1>1, EmptySeq

LEMMA DeliverStep ==
  ASSUME WorldInv, up', NEW i \in ConnIds, Deliver(i)
  PROVE  WorldInv'
<1> DEFINE q == upq[i]
           m == Head(q)
<1>1. /\ q # <<>> /\ Handle(i, m.type, m.data)
      /\ upq' = [upq EXCEPT ![i] = Tail(q)] /\ PassOn
  BY DEF Deliver
<1>2. Shrunk
  BY <1>1 DEF Shrunk
<1>3. upq \in [ConnIds -> Seq(Said)] /\ OwnersOK
  BY DEF WorldInv, WorldTypeOK
<1>4. q \in Seq(Said) /\ 1 \in DOMAIN q /\ m = q[1] /\ m \in Said
  <2>1. q \in Seq(Said)
    BY <1>3
  <2> QED
    BY <1>1, <2>1, TailOf
<1>5. CASE m.type = "LoginRequest" /\ OnLoginSuccessResponse(i, m.data.username, record[m.data.username])
  <2>1. m.data.username \in Users
    BY <1>4, <1>5 DEF Said
  <2>2. Claims(m.data.username, i)
    BY <1>4, <1>5 DEF Claims
  <2> QED
    BY <1>1, <1>2, <1>5, <2>1, <2>2, LoginStep
<1>6. CASE m.type = "Disconnected" /\ OnDisconnected(i)
  <2>1. ~Present(i) /\ Len(q) = 1
    BY <1>3, <1>4, <1>6 DEF OwnersOK, Closed
  <2>2. Tail(q) = <<>>
    BY <1>4, <2>1, TailOfOne
  <2>3. upq'[i] = <<>>
    BY <1>1, <1>3, <2>2
  <2> QED
    BY <1>1, <1>2, <1>6, <2>1, <2>3, DisconnectedCalm, CalmStep
<1>7. CASE m.type = "MatchRequest" /\ OnMatchRequest(i, m.data.type)
  <2>1. m.data.type \in RoomTypes
    BY <1>4, <1>7 DEF Said
  <2> QED
    BY <1>1, <1>2, <1>7, <2>1, QueueHandled
<1>8. CASE m.type = "MoveStep" /\ OnMoveStep(i, m.data.fen, m.data.over)
  <2>1. m.data.fen \in Fens \ {<<>>} /\ m.data.over \in BOOLEAN
    BY <1>4, <1>8 DEF Said
  <2> QED
    BY <1>1, <1>2, <1>8, <2>1, MoveStepHandled
<1>9. CASE m.type = "ForgiveResponse" /\ OnForgiveResponse(i, m.data.agree, m.data.fen)
  <2>1. m.data.fen \in Fens /\ m.data.agree \in BOOLEAN
    BY <1>4, <1>9 DEF Said
  <2> QED
    BY <1>1, <1>2, <1>9, <2>1, AskedHandled
<1>10. CASE m.type = "DrawResponse" /\ OnDrawResponse(i, m.data.agree)
  <2>1. m.data.agree \in BOOLEAN
    BY <1>4, <1>10 DEF Said
  <2> QED
    BY <1>1, <1>2, <1>10, <2>1, DrawResponseHandled
<1>11. CASE OnCancelMatchRequest(i)
  BY <1>1, <1>2, <1>11, QueueHandled
<1>12. CASE OnGiveup(i)
  BY <1>1, <1>2, <1>12, GiveupHandled
<1>13. CASE OnForgiveRequest(i) \/ OnDrawRequest(i)
  BY <1>1, <1>2, <1>13, AskedHandled
<1> QED
  BY <1>1, <1>5, <1>6, <1>7, <1>8, <1>9, <1>10, <1>11, <1>12, <1>13 DEF Handle

LEMMA PairStep ==
  ASSUME WorldInv, up', NEW r \in Users, NEW b \in Users, Pair(r, b)
  PROVE  WorldInv'
<1>1. PICK type \in RoomTypes : OnMatchBackendResponse(r, b, type)
  BY DEF Pair
<1>2. /\ r # b /\ state[r] = "kMatching" /\ state[b] = "kMatching"
      /\ \A u \in {r, b} : userInfo[u].total < 1
      /\ PassOn /\ Shrunk
  BY DEF Pair, Shrunk
<1>3. Calm
  BY <1>1, <1>2, PairCalm
<1>4. Kept
  BY <1>1, <1>2, MatchBackendResponseKept DEF WorldInv
<1>5. UNCHANGED links
  BY <1>1 DEF OnMatchBackendResponse, StartNewGame, Ignore, Crash
<1> QED
  BY <1>2, <1>3, <1>4, <1>5, CalmHandled

LEMMA ClockRunsOutStep ==
  ASSUME WorldInv, up', NEW u \in Users, ClockRunsOut(u)
  PROVE  WorldInv'
<1>1. /\ EndGame(u, "SELF_TIMEOUT", CancelTimer(timers, u), <<>>)
      /\ PassOn /\ Shrunk
  BY DEF ClockRunsOut, OnTimeOut, Shrunk
<1>2. "SELF_TIMEOUT" \in OverTypes
  BY DEF OverTypes
<1> QED
  BY <1>1, <1>2, EmptyMail, EndStep

-----------------------------------------------------------------------------
(* The invariant holds from the first state on, for as long as the server  *)
(* is up.                                                                  *)

LEMMA EverybodyInHall ==
  ASSUME GameInit
  PROVE  /\ cid \in [Users -> ConnIds] /\ userList = cid /\ connId = cid
         /\ \A u, w \in Users : cid[u] = cid[w] => u = w
         /\ entrys \in [ConnIds -> Users \cup {Nil}]
         /\ \A u \in Users : entrys[cid[u]] = u
         /\ \A i \in ConnIds : entrys[i] # Nil => cid[entrys[i]] = i
<1>1. PICK ids \in [Users -> ConnIds] :
        /\ \A u, w \in Users : ids[u] = ids[w] => u = w
        /\ cid = ids
        /\ entrys = [i \in ConnIds |->
                       IF \E u \in Users : ids[u] = i THEN CHOOSE u \in Users : ids[u] = i ELSE Nil]
        /\ userList = ids
        /\ connId = ids
  BY DEF GameInit
<1>2. ASSUME NEW i \in ConnIds, \E u \in Users : ids[u] = i
      PROVE  entrys[i] \in Users /\ ids[entrys[i]] = i
  <2>1. entrys[i] = CHOOSE u \in Users : ids[u] = i
    BY <1>1, <1>2
  <2> QED
    BY <1>2, <2>1
<1>3. ASSUME NEW i \in ConnIds, ~\E u \in Users : ids[u] = i
      PROVE  entrys[i] = Nil
  BY <1>1, <1>3
<1>4. ASSUME NEW u \in Users
      PROVE  entrys[ids[u]] = u
  <2>1. ids[u] \in ConnIds /\ \E w \in Users : ids[w] = ids[u]
    BY <1>1
  <2>2. entrys[ids[u]] \in Users /\ ids[entrys[ids[u]]] = ids[u]
    BY <1>2, <2>1
  <2> QED
    BY <1>1, <2>2
<1>5. entrys \in [ConnIds -> Users \cup {Nil}]
  <2>1. \A i \in ConnIds : entrys[i] \in Users \cup {Nil}
    BY <1>2, <1>3
  <2>2. entrys = [i \in ConnIds |-> entrys[i]]
    BY <1>1
  <2> QED
    BY <2>1, <2>2
<1>6. \A i \in ConnIds : entrys[i] # Nil => ids[entrys[i]] = i
  BY <1>2, <1>3
<1> QED
  BY <1>1, <1>4, <1>5, <1>6

LEMMA InitCenterInv == GameInit => CenterInv
<1> SUFFICES ASSUME GameInit PROVE CenterInv
  OBVIOUS
<1>1. NewUser \in Info
  BY DEF NewUser, Info
<1>2. /\ state = [u \in Users |-> "kOnline"]
      /\ userInfo = [u \in Users |-> NewUser]
      /\ gameInfo = [u \in Users |-> Nil]
      /\ rooms = [u \in Users |-> Nil]
      /\ timers = [u \in Users |-> 0]
      /\ links = Links /\ up = TRUE /\ sent = <<>>
  BY DEF GameInit
<1>3. /\ entrys \in [ConnIds -> Users \cup {Nil}]
      /\ userList \in [Users -> ConnIds \cup {Nil}]
      /\ connId \in [Users -> ConnIds \cup {Nil}]
  BY EverybodyInHall
<1>4. TypeOK
  <2>1. <<>> \in Seq(Message)
    BY EmptyTyped
  <2>2. /\ state \in [Users -> States]
        /\ userInfo \in [Users -> Info \cup {Nil}]
        /\ gameInfo \in [Users -> GameInfo \cup {Nil}]
        /\ rooms \in [Users -> RoomInfo \cup {Nil}]
        /\ timers \in [Users -> Nat]
    BY <1>1, <1>2 DEF States
  <2> QED
    BY <1>2, <1>3, <2>1, <2>2 DEF TypeOK
<1>5. NewUser # Nil
  BY <1>1, NilAssumption
<1>6. \A i \in ConnIds : i # Nil
  BY NilAssumption
<1>7. HallOK
  BY <1>2, <1>5, <1>6, EverybodyInHall DEF HallOK
<1>8. RoomOK
  BY <1>2 DEF RoomOK, IsInRoom
<1> QED
  BY <1>4, <1>7, <1>8 DEF CenterInv

LEMMA InitWorldInv == GameInit => WorldInv
<1> SUFFICES ASSUME GameInit PROVE WorldInv
  OBVIOUS
<1>1. /\ state = [u \in Users |-> "kOnline"]
      /\ userInfo = [u \in Users |-> NewUser]
      /\ links = Links
      /\ pos = [u \in Users |-> Nil]
      /\ undo = [u \in Users |-> 0]
      /\ due = [u \in Users |-> Nil]
      /\ selfUser = [u \in Users |-> NewUser]
      /\ upq = [i \in ConnIds |-> <<>>]
      /\ downq = [i \in ConnIds |-> <<>>]
      /\ record = [u \in Users |-> NewUser]
  BY DEF GameInit
<1>2. NewUser \in Info
  BY DEF NewUser, Info
<1>3. WorldTypeOK
  BY <1>1, <1>2, EverybodyInHall DEF WorldTypeOK
<1>4. OwnersOK
  <2>1. \A i \in ConnIds : ~IsAway(i)
    BY <1>1, EverybodyInHall DEF IsAway
  <2>2. ASSUME NEW i \in ConnIds, NEW u \in Users, Claims(u, i)
        PROVE  cid[u] = i
    <3>1. DOMAIN upq[i] = {}
      BY <1>1
    <3>2. entrys[i] = u \/ cid[u] = i
      BY <2>2, <3>1 DEF Claims
    <3>3. u # Nil
      BY NilAssumption
    <3> QED
      BY <3>2, <3>3, EverybodyInHall
  <2>3. \A i \in ConnIds : \A u, w \in Users : Claims(u, i) /\ Claims(w, i) => u = w
    BY <2>2, EverybodyInHall
  <2> QED
    BY <1>1, <2>1, <2>3 DEF OwnersOK
<1>5. FilesOK
  BY <1>1 DEF FilesOK, IsInRoom
<1>6. \A u \in Users : downq[cid[u]] = <<>>
  BY <1>1, EverybodyInHall
<1>7. BoardsCome
  <2>1. Seats(<<>>, Nil)
    BY DEF Seats
  <2>2. \A u \in Users : pos[u] = Nil /\ undo[u] = 0 /\ ~IsInRoom(u)
    BY <1>1 DEF IsInRoom
  <2>3. ASSUME NEW u \in Users
        PROVE  /\ undo[u] > 0 => pos[u] # Nil
               /\ Seats(downq[cid[u]], pos[u])
               /\ IsInRoom(u) /\ IsHome(u) => Gets(downq[cid[u]], pos[u])
    <3>1. ~(undo[u] > 0)
      BY <2>2
    <3>2. Seats(downq[cid[u]], pos[u])
      BY <1>6, <2>1, <2>2
    <3> QED
      BY <2>2, <3>1, <3>2
  <2> QED
    BY <2>3 DEF BoardsCome
<1>8. Fits(<<>>, Nil, NewUser, NewUser)
  BY DEF Fits, Known, NoOver
<1>9. RecordsCome
  BY <1>1, <1>6, <1>8, EverybodyInHall DEF RecordsCome, IsHome
<1> QED
  BY <1>3, <1>4, <1>5, <1>7, <1>9, InitCenterInv DEF WorldInv

LEMMA NothingHappens ==
  ASSUME WorldInv, UNCHANGED allVars
  PROVE  WorldInv'
<1>1. /\ UNCHANGED <<centerVars, record>>
      /\ UNCHANGED <<cid, pos, undo, due, selfUser, upq, downq, links, entrys, state>>
  BY DEF allVars, pageVars, centerVars, hallVars
<1>2. CenterInv' /\ FilesOK'
  BY <1>1, CenterUnchanged, FilesUnchanged
<1>3. WorldTypeOK'
  BY <1>1 DEF WorldInv, WorldTypeOK
<1>4. OwnersOK'
  BY <1>1 DEF WorldInv, OwnersOK, Claims, Present, IsAway
<1>5. BoardsCome'
  BY <1>1 DEF WorldInv, BoardsCome, IsHome, IsInRoom
<1>6. RecordsCome'
  BY <1>1 DEF WorldInv, RecordsCome, IsHome
<1> QED
  BY <1>2, <1>3, <1>4, <1>5, <1>6 DEF WorldInv

LEMMA HandlesWhileUp ==
  ASSUME NEW i, NEW type, NEW data, Handle(i, type, data)
  PROVE  up
  BY DEF Handle, OnLoginSuccessResponse, OnDisconnected, OnMatchRequest, OnCancelMatchRequest,
         OnMoveStep, OnGiveup, OnForgiveRequest, OnForgiveResponse, OnDrawRequest, OnDrawResponse

LEMMA NextWorldInv ==
  ASSUME up => WorldInv, [GameNext]_allVars
  PROVE  up' => WorldInv'
<1> SUFFICES ASSUME up' PROVE WorldInv'
  OBVIOUS
<1>1. CASE UNCHANGED allVars
  <2>1. up
    BY <1>1 DEF allVars, centerVars
  <2> QED
    BY <1>1, <2>1, NothingHappens
<1>2. ASSUME NEW u \in Users, Click(u) \/ Ask(u) \/ Receive(u) \/ ShowResult(u) \/ Refresh(u)
      PROVE  WorldInv'
  <2>1. WorldInv
    BY <1>2 DEF Click, Ask, Receive, ShowResult, Refresh, Free
  <2> QED
    BY <1>2, <2>1, ClickStep, AskStep, ReceiveStep, ShowResultStep, RefreshStep
<1>3. ASSUME NEW u \in Users, NEW m \in Moves, PlayMove(u, m)
      PROVE  WorldInv'
  <2>1. WorldInv
    BY <1>3 DEF PlayMove, Free
  <2> QED
    BY <1>3, <2>1, PlayMoveStep
<1>4. ASSUME NEW i \in ConnIds, Deliver(i)
      PROVE  WorldInv'
  <2>1. WorldInv
    BY <1>4, HandlesWhileUp DEF Deliver
  <2> QED
    BY <1>4, <2>1, DeliverStep
<1>5. ASSUME NEW r \in Users, NEW b \in Users, Pair(r, b)
      PROVE  WorldInv'
  <2>1. WorldInv
    BY <1>5 DEF Pair, OnMatchBackendResponse, StartNewGame, Ignore, Crash
  <2> QED
    BY <1>5, <2>1, PairStep
<1>6. ASSUME NEW u \in Users, ClockRunsOut(u)
      PROVE  WorldInv'
  <2>1. WorldInv
    BY <1>6 DEF ClockRunsOut, OnTimeOut
  <2> QED
    BY <1>6, <2>1, ClockRunsOutStep
<1> QED
  BY <1>1, <1>2, <1>3, <1>4, <1>5, <1>6 DEF GameNext

\* Whenever nothing is under way to or from a page and no result is waiting
\* to be shown, what the page says of its own user's record, by its own
\* arithmetic, is what the center has and what the login server keeps,
\* whatever moves, take-backs, draws, time-outs, lost pages and new logins
\* there were, for any number of users, connections, plies and messages under
\* way, over the one game a page plays here (updateUserInfo of
\* ui_displayer.js, updateUserInfo, gameOver and onReconnected of
\* center_server.cc).
THEOREM OwnRecordIsRightAlways == GameSpec => []OwnRecordIsRight
<1>1. GameInit => (up => WorldInv)
  BY InitWorldInv
<1>2. (up => WorldInv) /\ [GameNext]_allVars => (up => WorldInv)'
  BY NextWorldInv
<1>3. (up => WorldInv) => OwnRecordIsRight
  <2>1. CASE up
    BY <2>1, RecordsAreRight
  <2>2. CASE ~up
    BY <2>2 DEF OwnRecordIsRight, Quiet
  <2> QED
    BY <2>1, <2>2
<1> QED
  BY <1>1, <1>2, <1>3, PTL DEF GameSpec
=============================================================================
