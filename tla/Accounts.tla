------------------------------- MODULE Accounts -------------------------------
(***************************************************************************)
(* The records of the users (login_server.cc) and the copies of them that  *)
(* the center works on (Entry::userInfo_).  A login brings a copy of the   *)
(* record to the center, gameOver changes the copy and sends it back, and  *)
(* onUpdateUserInfo puts it in the place of the record, whole.  One FIFO   *)
(* connection carries all of it.  A record is reduced to its total: the    *)
(* other fields travel with it.  CenterServer has the center in full; here *)
(* an Entry is its state and its opponent.                                 *)
(*                                                                         *)
(* ReportsOfWinner is a variant with a plausible mistake; no action uses   *)
(* it.                                                                     *)
(***************************************************************************)
EXTENDS Integers, Sequences

CONSTANTS
  Users,
  Returners,    \* users who log in again while they still have an Entry
  MaxGames,     \* bound on the games of one user
  MaxUnderWay,  \* bound on the messages under way to the login server
  Nil           \* no Entry, no opponent

ASSUME AccountsAssumption ==
  /\ Returners \subseteq Users
  /\ MaxGames \in Nat /\ MaxUnderWay \in Nat
  /\ Nil \notin Nat /\ Nil \notin Users

VARIABLES
  tempUsers,  \* tempUsers_: the record of each user
  userInfo,   \* Entry::userInfo_
  state,      \* Entry::state_, "none" without an Entry
  opp,        \* the opponent of a user in a game
  toLogin,    \* LoginRequest and UpdateUserInfo under way
  toCenter,   \* LoginSuccessResponse under way
  played      \* the games each user has really finished

vars == <<tempUsers, userInfo, state, opp, toLogin, toCenter, played>>

Messages == [kind : {"login"}, user : Users] \cup [kind : {"update"}, user : Users, info : Nat]

TypeOK ==
  /\ tempUsers \in [Users -> Nat]
  /\ userInfo \in [Users -> Nat \cup {Nil}]
  /\ state \in [Users -> {"none", "kOnline", "kPlaying", "kDisconnecteInPlaying"}]
  /\ opp \in [Users -> Users \cup {Nil}]
  /\ toLogin \in Seq(Messages)
  /\ toCenter \in Seq([user : Users, info : Nat])
  /\ played \in [Users -> 0..MaxGames]
  /\ \A u \in Users : userInfo[u] = Nil <=> state[u] = "none"

\* initDatabase
Init ==
  /\ tempUsers = [u \in Users |-> 0]
  /\ userInfo = [u \in Users |-> Nil]
  /\ state = [u \in Users |-> "none"]
  /\ opp = [u \in Users |-> Nil]
  /\ toLogin = <<>> /\ toCenter = <<>>
  /\ played = [u \in Users |-> 0]

LoginUnderWay(u) ==
  \/ \E k \in DOMAIN toLogin : toLogin[k] = [kind |-> "login", user |-> u]
  \/ \E k \in DOMAIN toCenter : toCenter[k].user = u

\* onLoginRequest of the center.
AskLogin(u) ==
  /\ Len(toLogin) < MaxUnderWay
  /\ ~LoginUnderWay(u)
  /\ state[u] = "none" \/ u \in Returners
  /\ toLogin' = Append(toLogin, [kind |-> "login", user |-> u])
  /\ UNCHANGED <<tempUsers, userInfo, state, opp, toCenter, played>>

\* The login server: vertifyUser copies the record; onUpdateUserInfo.
Serve ==
  /\ toLogin # <<>>
  /\ toLogin' = Tail(toLogin)
  /\ LET m == Head(toLogin)
     IN  \/ /\ m.kind = "login"
            /\ toCenter' = Append(toCenter, [user |-> m.user, info |-> tempUsers[m.user]])
            /\ UNCHANGED tempUsers
         \/ /\ m.kind = "update"
            /\ tempUsers' = [tempUsers EXCEPT ![m.user] = m.info]
            /\ UNCHANGED toCenter
  /\ UNCHANGED <<userInfo, state, opp, played>>

\* onReconnected: back in the game, with the copy that has been there.
Return(u, info) == state' = [state EXCEPT ![u] = "kPlaying"] /\ UNCHANGED userInfo

\* onLoginSuccessResponse: into the hall, back into the game, or refused.
Answer ==
  /\ toCenter # <<>>
  /\ toCenter' = Tail(toCenter)
  /\ LET u == Head(toCenter).user
     IN  \/ /\ state[u] = "none"
            /\ state' = [state EXCEPT ![u] = "kOnline"]
            /\ userInfo' = [userInfo EXCEPT ![u] = Head(toCenter).info]
         \/ state[u] = "kDisconnecteInPlaying" /\ Return(u, Head(toCenter).info)
         \/ /\ state[u] \in {"kOnline", "kPlaying"}
            /\ UNCHANGED <<state, userInfo>>
  /\ UNCHANGED <<tempUsers, opp, toLogin, played>>

\* onDisconnected
Leave(u) == state' = [state EXCEPT ![u] = "none"] /\ userInfo' = [userInfo EXCEPT ![u] = Nil]

Disconnect(u) ==
  /\ \/ state[u] = "kOnline" /\ Leave(u)
     \/ /\ state[u] = "kPlaying"
        /\ state' = [state EXCEPT ![u] = "kDisconnecteInPlaying"]
        /\ UNCHANGED userInfo
  /\ UNCHANGED <<tempUsers, opp, toLogin, toCenter, played>>

\* onMatchBackendResponse
StartGame(r, b) ==
  /\ r # b /\ state[r] = "kOnline" /\ state[b] = "kOnline"
  /\ played[r] < MaxGames /\ played[b] < MaxGames
  /\ state' = [state EXCEPT ![r] = "kPlaying", ![b] = "kPlaying"]
  /\ opp' = [opp EXCEPT ![r] = b, ![b] = r]
  /\ UNCHANGED <<tempUsers, userInfo, toLogin, toCenter, played>>

Report(u) == [kind |-> "update", user |-> u, info |-> userInfo[u] + 1]
ReportsOfWinner(s, o) == <<Report(s)>>
Reports(s, o) == <<Report(s), Report(o)>>

\* gameOver and destroyRoom.
GameOver(s) ==
  /\ opp[s] # Nil
  /\ LET o == opp[s]
         two == {s, o}
         away == {u \in two : state[u] = "kDisconnecteInPlaying"}
     IN  /\ toLogin' = toLogin \o Reports(s, o)
         /\ userInfo' = [u \in Users |-> IF u \in away THEN Nil
                                         ELSE IF u \in two THEN userInfo[u] + 1
                                         ELSE userInfo[u]]
         /\ state' = [u \in Users |-> CASE u \in away -> "none"
                                        [] u \in two \ away -> "kOnline"
                                        [] OTHER -> state[u]]
         /\ opp' = [u \in Users |-> IF u \in two THEN Nil ELSE opp[u]]
         /\ played' = [u \in Users |-> IF u \in two THEN played[u] + 1 ELSE played[u]]
  /\ UNCHANGED <<tempUsers, toCenter>>

Next ==
  \/ \E u \in Users : AskLogin(u) \/ Disconnect(u) \/ GameOver(u)
  \/ \E r, b \in Users : StartGame(r, b)
  \/ Serve \/ Answer

Spec == Init /\ [][Next]_vars

-----------------------------------------------------------------------------
(* Properties.                                                             *)

\* The reports of u under way, and what its record will be when they arrive.
Updates(u) == {k \in DOMAIN toLogin : toLogin[k].kind = "update" /\ toLogin[k].user = u}
Settled(u) ==
  IF Updates(u) = {} THEN tempUsers[u]
  ELSE toLogin[CHOOSE k \in Updates(u) : \A j \in Updates(u) : j <= k].info

\* The record of u, with the reports under way, has every game u has finished.
GameIsKept(u) == Settled(u) = played[u]

\* A user who logs in only when its last game is settled loses no game, however
\* logins, games and reports of the others overlap with its own, those of its
\* opponents among them (onLoginRequest, gameOver, onUpdateUserInfo).  A user
\* who comes back while a game goes on may be given the record as it was
\* before the report of that game, and its next report then undoes it.
PatientLoseNothing == \A u \in Users \ Returners : GameIsKept(u)
=============================================================================
