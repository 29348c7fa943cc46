---------------------------- MODULE AccountsProofs ----------------------------
(***************************************************************************)
(* Theorems about what a player gets out of a game and what it pays for:   *)
(* the records of Accounts and the time of GameClock.                      *)
(*                                                                         *)
(* Accounts, for any users, any number of games and any number of messages *)
(* under way, is a matter of order: a report and the login that follows it *)
(* travel on one connection, so when the login server reads a record for a *)
(* patient user no report about it is still behind the login, and none can *)
(* be sent before the answer is back.                                      *)
(*                                                                         *)
(* GameClock, for every pattern, every resolution of the clock and every   *)
(* lag, is right because the clock that runs is always the one that was    *)
(* started when the move was got (ClockStarted), whichever handler started *)
(* it, and because a difference of timestamps loses less than a second     *)
(* when it becomes an int (Truncated).                                     *)
(***************************************************************************)
EXTENDS Accounts, GameClock, TLAPS

InGame == {"kPlaying", "kDisconnecteInPlaying"}
Patient == Users \ Returners

Typed ==
  /\ tempUsers \in [Users -> Nat]
  /\ userInfo \in [Users -> Nat \cup {Nil}]
  /\ state \in [Users -> {"none", "kOnline"} \cup InGame]
  /\ opp \in [Users -> Users \cup {Nil}]
  /\ toLogin \in Seq(Messages)
  /\ toCenter \in Seq([user : Users, info : Nat])
  /\ played \in [Users -> Nat]
  /\ \A u \in Users : userInfo[u] = Nil <=> state[u] = "none"

\* Opponents are in the game together.
GamesOK ==
  \A u \in Users : /\ opp[u] # Nil <=> state[u] \in InGame
                   /\ opp[u] # Nil => opp[u] # u /\ opp[opp[u]] = u

LoginOf(u) == [kind |-> "login", user |-> u]

\* One login of a user at a time is on its way, there or back.
OneLogin ==
  \A u \in Users :
    /\ \A j, k \in DOMAIN toLogin : toLogin[j] = LoginOf(u) /\ toLogin[k] = LoginOf(u) => j = k
    /\ \A j, k \in DOMAIN toCenter : toCenter[j].user = u /\ toCenter[k].user = u => j = k
    /\ \A j \in DOMAIN toLogin, k \in DOMAIN toCenter :
         toLogin[j] = LoginOf(u) => toCenter[k].user # u

\* The last report of u under way has all its games; with none under way the
\* record has.
BooksOf(u) ==
  \/ Updates(u) = {} /\ tempUsers[u] = played[u]
  \/ \E k \in Updates(u) : /\ toLogin[k].info = played[u]
                           /\ \A j \in Updates(u) : j <= k

\* A patient user has no Entry while its login is under way; the login is
\* behind its reports; the answer brings, and the Entry has, all its games.
PatienceOf(u) ==
  /\ LoginUnderWay(u) => state[u] = "none"
  /\ \A k \in DOMAIN toLogin : toLogin[k] = LoginOf(u) => \A j \in Updates(u) : j < k
  /\ \A k \in DOMAIN toCenter : toCenter[k].user = u => toCenter[k].info = played[u]
  /\ state[u] # "none" => userInfo[u] = played[u]

IInv ==
  /\ Typed /\ GamesOK /\ OneLogin
  /\ \A u \in Patient : BooksOf(u) /\ PatienceOf(u)

-----------------------------------------------------------------------------
(* Sequences.                                                              *)

LEMMA TailFacts ==
  ASSUME NEW S, NEW q \in Seq(S), q # <<>>
  PROVE  /\ Tail(q) \in Seq(S) /\ Len(Tail(q)) = Len(q) - 1 /\ Len(q) \in Nat \ {0}
         /\ DOMAIN q = 1..Len(q) /\ DOMAIN Tail(q) = 1..(Len(q) - 1)
         /\ Head(q) = q[1] /\ q[1] \in S
         /\ \A k \in DOMAIN Tail(q) : k + 1 \in DOMAIN q /\ Tail(q)[k] = q[k + 1]
  OBVIOUS

LEMMA AppendFacts ==
  ASSUME NEW S, NEW q \in Seq(S), NEW e \in S
  PROVE  /\ Append(q, e) \in Seq(S) /\ Len(Append(q, e)) = Len(q) + 1 /\ Len(q) \in Nat
         /\ DOMAIN q = 1..Len(q) /\ DOMAIN Append(q, e) = 1..(Len(q) + 1)
         /\ Append(q, e)[Len(q) + 1] = e
         /\ \A k \in DOMAIN q : Append(q, e)[k] = q[k]
  OBVIOUS

LEMMA ConcatTwoFacts ==
  ASSUME NEW S, NEW q \in Seq(S), NEW d \in S, NEW e \in S
  PROVE  /\ q \o <<d, e>> \in Seq(S) /\ Len(q \o <<d, e>>) = Len(q) + 2 /\ Len(q) \in Nat
         /\ DOMAIN q = 1..Len(q) /\ DOMAIN (q \o <<d, e>>) = 1..(Len(q) + 2)
         /\ (q \o <<d, e>>)[Len(q) + 1] = d
         /\ (q \o <<d, e>>)[Len(q) + 2] = e
         /\ \A k \in DOMAIN q : (q \o <<d, e>>)[k] = q[k]
  OBVIOUS

LEMMA MessageShape ==
  ASSUME Typed, NEW k \in DOMAIN toLogin
  PROVE  /\ toLogin[k] \in Messages /\ toLogin[k].user \in Users
         /\ toLogin[k].kind = "login" => toLogin[k] = LoginOf(toLogin[k].user)
         /\ toLogin[k].kind # "login" => toLogin[k].kind = "update" /\ toLogin[k].info \in Nat
<1>1. toLogin[k] \in Messages
  BY DEF Typed
<1> QED
  BY <1>1 DEF Messages, LoginOf

-----------------------------------------------------------------------------
(* Steps that send nothing and receive nothing.                            *)

LEMMA ChannelsKept ==
  ASSUME IInv, UNCHANGED <<tempUsers, toLogin, toCenter, played>>,
         Typed', GamesOK',
         \A u \in Patient : LoginUnderWay(u) => state'[u] = "none",
         \A u \in Patient : state'[u] # "none" => userInfo'[u] = played[u]
  PROVE  IInv'
<1>1. OneLogin'
  BY DEF IInv, OneLogin
<1>2. ASSUME NEW u \in Patient
      PROVE  BooksOf(u)' /\ PatienceOf(u)'
  <2>1. Updates(u)' = Updates(u)
    BY DEF Updates
  <2>2. LoginUnderWay(u)' <=> LoginUnderWay(u)
    BY DEF LoginUnderWay
  <2> QED
    BY <2>1, <2>2 DEF IInv, BooksOf, PatienceOf
<1> QED
  BY <1>1, <1>2 DEF IInv

LEMMA DisconnectStep ==
  ASSUME IInv, NEW u \in Users, Disconnect(u)
  PROVE  IInv'
<1>1. UNCHANGED <<tempUsers, opp, toLogin, toCenter, played>>
  BY DEF Disconnect
<1>2. CASE state[u] = "kOnline" /\ Leave(u)
  <2>1. Typed'
    BY <1>1, <1>2 DEF IInv, Typed, Leave
  <2>2. GamesOK'
    BY <1>1, <1>2 DEF IInv, Typed, GamesOK, Leave, InGame
  <2>3. ASSUME NEW w \in Patient
        PROVE  /\ LoginUnderWay(w) => state'[w] = "none"
               /\ state'[w] # "none" => userInfo'[w] = played[w]
    BY <1>2 DEF IInv, Typed, PatienceOf, Leave, Patient
  <2> QED
    BY <1>1, <2>1, <2>2, <2>3, ChannelsKept
<1>3. CASE /\ state[u] = "kPlaying"
           /\ state' = [state EXCEPT ![u] = "kDisconnecteInPlaying"]
           /\ UNCHANGED userInfo
  <2>1. Typed'
    BY <1>1, <1>3 DEF IInv, Typed, InGame
  <2>2. GamesOK'
    BY <1>1, <1>3 DEF IInv, Typed, GamesOK, InGame
  <2>3. ASSUME NEW w \in Patient
        PROVE  /\ LoginUnderWay(w) => state'[w] = "none"
               /\ state'[w] # "none" => userInfo'[w] = played[w]
    BY <1>3 DEF IInv, Typed, PatienceOf, Patient
  <2> QED
    BY <1>1, <2>1, <2>2, <2>3, ChannelsKept
<1> QED
  BY <1>2, <1>3 DEF Disconnect

LEMMA StartGameStep ==
  ASSUME IInv, NEW r \in Users, NEW b \in Users, StartGame(r, b)
  PROVE  IInv'
<1>1. /\ UNCHANGED <<tempUsers, userInfo, toLogin, toCenter, played>>
      /\ r # b /\ state[r] = "kOnline" /\ state[b] = "kOnline"
      /\ state' = [state EXCEPT ![r] = "kPlaying", ![b] = "kPlaying"]
      /\ opp' = [opp EXCEPT ![r] = b, ![b] = r]
  BY DEF StartGame
<1>2. Typed'
  BY <1>1 DEF IInv, Typed, InGame
<1>3. GamesOK'
  <2>1. opp[r] = Nil /\ opp[b] = Nil
    BY <1>1 DEF IInv, GamesOK, InGame
  <2>2. ASSUME NEW u \in Users, opp[u] # Nil
        PROVE  opp[u] \in Users /\ opp[u] # r /\ opp[u] # b
    <3>1. opp[u] \in Users
      BY <2>2 DEF IInv, Typed
    <3>2. opp[opp[u]] = u /\ u # Nil
      BY <2>2, AccountsAssumption DEF IInv, GamesOK
    <3> QED
      BY <2>1, <3>1, <3>2
  <2>3. opp'[r] = b /\ opp'[b] = r /\ \A u \in Users \ {r, b} : opp'[u] = opp[u]
    BY <1>1 DEF IInv, Typed
  <2>4. /\ state'[r] \in InGame /\ state'[b] \in InGame
        /\ \A u \in Users \ {r, b} : state'[u] = state[u]
    BY <1>1 DEF IInv, Typed, InGame
  <2> SUFFICES ASSUME NEW u \in Users
               PROVE  /\ opp'[u] # Nil <=> state'[u] \in InGame
                      /\ opp'[u] # Nil => opp'[u] # u /\ opp'[opp'[u]] = u
    BY DEF GamesOK
  <2>5. CASE u = r \/ u = b
    BY <1>1, <2>3, <2>4, <2>5, AccountsAssumption
  <2>6. CASE u # r /\ u # b
    <3>1. opp'[u] = opp[u] /\ state'[u] = state[u]
      BY <2>3, <2>4, <2>6
    <3>2. opp[u] # Nil => opp'[opp[u]] = opp[opp[u]]
      BY <2>2, <2>3
    <3> QED
      BY <3>1, <3>2 DEF IInv, GamesOK
  <2> QED
    BY <2>5, <2>6
<1>4. ASSUME NEW w \in Patient
      PROVE  /\ LoginUnderWay(w) => state'[w] = "none"
             /\ state'[w] # "none" => userInfo'[w] = played[w]
  BY <1>1 DEF IInv, Typed, PatienceOf, Patient
<1> QED
  BY <1>1, <1>2, <1>3, <1>4, ChannelsKept

-----------------------------------------------------------------------------
(* Steps on the channels.                                                  *)

LEMMA AskLoginStep ==
  ASSUME IInv, NEW u \in Users, AskLogin(u)
  PROVE  IInv'
<1>1. /\ UNCHANGED <<tempUsers, userInfo, state, opp, toCenter, played>>
      /\ ~LoginUnderWay(u)
      /\ state[u] = "none" \/ u \in Returners
      /\ toLogin' = Append(toLogin, LoginOf(u))
  BY DEF AskLogin, LoginOf
<1>2. LoginOf(u) \in Messages /\ LoginOf(u).kind # "update" /\ LoginOf(u).user = u
  BY DEF LoginOf, Messages
<1>3. /\ toLogin' \in Seq(Messages) /\ Len(toLogin) \in Nat
      /\ DOMAIN toLogin = 1..Len(toLogin) /\ DOMAIN toLogin' = 1..(Len(toLogin) + 1)
      /\ toLogin'[Len(toLogin) + 1] = LoginOf(u)
      /\ \A k \in DOMAIN toLogin : toLogin'[k] = toLogin[k]
  BY <1>1, <1>2, AppendFacts DEF IInv, Typed
<1>4. Typed' /\ GamesOK'
  BY <1>1, <1>3 DEF IInv, Typed, GamesOK
<1>5. \A k \in DOMAIN toLogin' : k \in DOMAIN toLogin \/ k = Len(toLogin) + 1
  BY <1>3
<1>6. \A w \in Users \ {u} : LoginOf(w) # LoginOf(u)
  BY DEF LoginOf
<1>7. OneLogin'
  <2>1. /\ \A k \in DOMAIN toLogin : toLogin[k] # LoginOf(u)
        /\ \A k \in DOMAIN toCenter : toCenter[k].user # u
    BY <1>1 DEF LoginUnderWay, LoginOf
  <2> QED
    BY <1>1, <1>3, <1>5, <1>6, <2>1 DEF IInv, OneLogin
<1>8. ASSUME NEW w \in Patient
      PROVE  BooksOf(w)' /\ PatienceOf(w)'
  <2>1. Updates(w)' = Updates(w)
    BY <1>2, <1>3, <1>5 DEF Updates
  <2>2. Updates(w) \subseteq DOMAIN toLogin
    BY DEF Updates
  <2>3. BooksOf(w)'
    BY <1>1, <1>3, <1>8, <2>1, <2>2 DEF IInv, BooksOf
  <2>4. LoginUnderWay(w)' => state[w] = "none"
    <3>1. LoginUnderWay(w)' => LoginUnderWay(w) \/ w = u
      BY <1>1, <1>3, <1>5, <1>6 DEF LoginUnderWay, LoginOf, Patient
    <3> QED
      BY <1>1, <1>8, <3>1 DEF IInv, PatienceOf, Patient
  <2>5. ASSUME NEW k \in DOMAIN toLogin', toLogin'[k] = LoginOf(w), NEW j \in Updates(w)
        PROVE  j < k
    BY <1>3, <1>5, <1>8, <2>2, <2>5 DEF IInv, PatienceOf
  <2> QED
    BY <1>1, <1>8, <2>1, <2>3, <2>4, <2>5 DEF IInv, PatienceOf
<1> QED
  BY <1>4, <1>7, <1>8 DEF IInv

LEMMA ServeStep ==
  ASSUME IInv, Serve
  PROVE  IInv'
<1> DEFINE m == toLogin[1]
<1>1. /\ UNCHANGED <<userInfo, state, opp, played>>
      /\ toLogin # <<>> /\ toLogin' = Tail(toLogin)
  BY DEF Serve
<1>2. /\ toLogin' \in Seq(Messages) /\ Head(toLogin) = m /\ 1 \in DOMAIN toLogin
      /\ Len(toLogin) \in Nat \ {0}
      /\ DOMAIN toLogin = 1..Len(toLogin) /\ DOMAIN toLogin' = 1..(Len(toLogin) - 1)
      /\ \A k \in DOMAIN toLogin' : k + 1 \in DOMAIN toLogin /\ toLogin'[k] = toLogin[k + 1]
  BY <1>1, TailFacts DEF IInv, Typed
<1>3. /\ m.user \in Users
      /\ m.kind = "login" => m = LoginOf(m.user)
      /\ m.kind = "update" => m.info \in Nat /\ \A u \in Users : m # LoginOf(u)
  BY <1>2, MessageShape DEF IInv, LoginOf
<1>4. \A u \in Users : \A k \in Updates(u)' : k + 1 \in Updates(u)
  BY <1>2 DEF Updates
<1>5. \A u \in Users : \A k \in Updates(u) : k = 1 \/ k - 1 \in Updates(u)'
  <2>1. \A k \in DOMAIN toLogin : k # 1 => k - 1 \in DOMAIN toLogin' /\ toLogin'[k - 1] = toLogin[k]
    BY <1>2
  <2> QED
    BY <2>1 DEF Updates
<1>6. CASE m.kind = "login"
  <2> DEFINE e == [user |-> m.user, info |-> tempUsers[m.user]]
  <2>1. toCenter' = Append(toCenter, e) /\ UNCHANGED tempUsers
    BY <1>2, <1>6 DEF Serve
  <2>2. e \in [user : Users, info : Nat] /\ e.user = m.user /\ e.info = tempUsers[m.user]
    BY <1>3 DEF IInv, Typed
  <2> HIDE DEF e
  <2>3. /\ toCenter' \in Seq([user : Users, info : Nat]) /\ Len(toCenter) \in Nat
        /\ DOMAIN toCenter = 1..Len(toCenter) /\ DOMAIN toCenter' = 1..(Len(toCenter) + 1)
        /\ toCenter'[Len(toCenter) + 1] = e
        /\ \A k \in DOMAIN toCenter : toCenter'[k] = toCenter[k]
    BY <2>1, <2>2, AppendFacts DEF IInv, Typed
  <2>4. \A k \in DOMAIN toCenter' : k \in DOMAIN toCenter \/ k = Len(toCenter) + 1
    BY <2>3
  <2>5. Typed' /\ GamesOK'
    BY <1>1, <1>2, <2>1, <2>3 DEF IInv, Typed, GamesOK
  <2>6. /\ \A k \in DOMAIN toLogin' : toLogin'[k] # LoginOf(m.user)
        /\ \A k \in DOMAIN toCenter : toCenter[k].user # m.user
    BY <1>2, <1>3, <1>6 DEF IInv, OneLogin
  <2>7. OneLogin'
    <3> SUFFICES ASSUME NEW u \in Users
                 PROVE  OneLogin!(u)'
      BY DEF OneLogin
    <3>1. OneLogin!(u)
      BY DEF IInv, OneLogin
    <3>2. \A j, k \in DOMAIN toLogin' :
            toLogin'[j] = LoginOf(u) /\ toLogin'[k] = LoginOf(u) => j = k
      <4>1. ASSUME NEW j \in DOMAIN toLogin', NEW k \in DOMAIN toLogin',
                   toLogin'[j] = LoginOf(u), toLogin'[k] = LoginOf(u)
            PROVE  j = k
        <5>1. j + 1 = k + 1
          BY <1>2, <3>1, <4>1
        <5> QED
          BY <1>2, <4>1, <5>1
      <4> QED
        BY <4>1
    <3>3. \A j, k \in DOMAIN toCenter' : toCenter'[j].user = u /\ toCenter'[k].user = u => j = k
      BY <2>2, <2>3, <2>4, <2>6, <3>1
    <3>4. ASSUME NEW j \in DOMAIN toLogin', NEW k \in DOMAIN toCenter', toLogin'[j] = LoginOf(u)
          PROVE  toCenter'[k].user # u
      <4>1. j + 1 \in DOMAIN toLogin /\ toLogin[j + 1] = LoginOf(u)
        BY <1>2, <3>4
      <4>2. CASE k \in DOMAIN toCenter
        BY <2>3, <3>1, <4>1, <4>2
      <4>3. CASE k = Len(toCenter) + 1
        <5>1. u # m.user
          BY <2>6, <3>4
        <5> QED
          BY <2>2, <2>3, <4>3, <5>1
      <4> QED
        BY <2>4, <4>2, <4>3
    <3> QED
      BY <3>2, <3>3, <3>4
  <2>8. ASSUME NEW u \in Patient
        PROVE  BooksOf(u)' /\ PatienceOf(u)'
    <3>0. BooksOf(u) /\ PatienceOf(u) /\ u \in Users
      BY DEF IInv, Patient
    <3>1. 1 \notin Updates(u)
      BY <1>6 DEF Updates
    <3>2. Updates(u) \subseteq Nat /\ Updates(u)' \subseteq Nat
      BY <1>2 DEF Updates
    <3>3. BooksOf(u)'
      <4>1. CASE Updates(u) = {} /\ tempUsers[u] = played[u]
        BY <1>1, <1>4, <2>1, <3>0, <4>1 DEF BooksOf
      <4>2. ASSUME NEW k \in Updates(u), toLogin[k].info = played[u], \A j \in Updates(u) : j <= k
            PROVE  BooksOf(u)'
        <5>1. k - 1 \in Updates(u)' /\ k \in DOMAIN toLogin /\ k - 1 \in DOMAIN toLogin'
          BY <1>5, <3>0, <3>1, <4>2 DEF Updates
        <5>2. toLogin'[k - 1].info = played'[u]
          BY <1>1, <1>2, <3>2, <4>2, <5>1
        <5>3. \A j \in Updates(u)' : j <= k - 1
          BY <1>4, <3>0, <3>2, <4>2
        <5> QED
          BY <5>1, <5>2, <5>3 DEF BooksOf
      <4> QED
        BY <3>0, <4>1, <4>2 DEF BooksOf
    <3>4. LoginUnderWay(u)' => state'[u] = "none"
      <4>1. LoginUnderWay(u)' => LoginUnderWay(u)
        <5>1. ASSUME NEW k \in DOMAIN toLogin', toLogin'[k] = LoginOf(u)
              PROVE  LoginUnderWay(u)
          BY <1>2, <5>1 DEF LoginUnderWay, LoginOf
        <5>2. ASSUME NEW k \in DOMAIN toCenter', toCenter'[k].user = u
              PROVE  LoginUnderWay(u)
          BY <1>2, <1>3, <1>6, <2>2, <2>3, <2>4, <5>2 DEF LoginUnderWay, LoginOf
        <5> QED
          BY <5>1, <5>2 DEF LoginUnderWay, LoginOf
      <4> QED
        BY <1>1, <3>0, <4>1 DEF PatienceOf
    <3>5. ASSUME NEW k \in DOMAIN toLogin', toLogin'[k] = LoginOf(u), NEW j \in Updates(u)'
          PROVE  j < k
      <4>1. k + 1 \in DOMAIN toLogin /\ toLogin[k + 1] = LoginOf(u) /\ j + 1 \in Updates(u)
        BY <1>2, <1>4, <3>0, <3>5
      <4>2. j + 1 < k + 1
        BY <3>0, <4>1 DEF PatienceOf
      <4> QED
        BY <1>2, <3>2, <3>5, <4>2
    <3>6. ASSUME NEW k \in DOMAIN toCenter', toCenter'[k].user = u
          PROVE  toCenter'[k].info = played'[u]
      <4>1. CASE k \in DOMAIN toCenter
        BY <1>1, <2>3, <3>0, <3>6, <4>1 DEF PatienceOf
      <4>2. CASE k = Len(toCenter) + 1
        <5>1. u = m.user /\ toLogin[1] = LoginOf(u) /\ toCenter'[k].info = tempUsers[u]
          BY <1>3, <1>6, <2>2, <2>3, <3>6, <4>2
        <5>2. \A j \in Updates(u) : j < 1
          BY <1>2, <3>0, <5>1 DEF PatienceOf
        <5>3. Updates(u) = {}
          BY <1>2, <5>2 DEF Updates
        <5> QED
          BY <1>1, <3>0, <5>1, <5>3 DEF BooksOf
      <4> QED
        BY <2>4, <4>1, <4>2
    <3>7. state'[u] # "none" => userInfo'[u] = played'[u]
      BY <1>1, <3>0 DEF PatienceOf
    <3> QED
      BY <3>3, <3>4, <3>5, <3>6, <3>7 DEF PatienceOf
  <2> QED
    BY <2>5, <2>7, <2>8 DEF IInv
<1>7. CASE m.kind = "update"
  <2>1. tempUsers' = [tempUsers EXCEPT ![m.user] = m.info] /\ UNCHANGED toCenter
    BY <1>2, <1>7 DEF Serve
  <2>2. Typed' /\ GamesOK'
    BY <1>1, <1>2, <1>3, <1>7, <2>1 DEF IInv, Typed, GamesOK
  <2>3. OneLogin'
    <3> SUFFICES ASSUME NEW u \in Users
                 PROVE  OneLogin!(u)'
      BY DEF OneLogin
    <3>1. OneLogin!(u)
      BY DEF IInv, OneLogin
    <3>2. ASSUME NEW j \in DOMAIN toLogin', NEW k \in DOMAIN toLogin',
                 toLogin'[j] = LoginOf(u), toLogin'[k] = LoginOf(u)
          PROVE  j = k
      <4>1. j + 1 = k + 1
        BY <1>2, <3>1, <3>2
      <4> QED
        BY <1>2, <3>2, <4>1
    <3> QED
      BY <1>2, <2>1, <3>1, <3>2
  <2>4. ASSUME NEW u \in Patient
        PROVE  BooksOf(u)' /\ PatienceOf(u)'
    <3>0. BooksOf(u) /\ PatienceOf(u) /\ u \in Users
      BY DEF IInv, Patient
    <3>2. Updates(u) \subseteq Nat /\ Updates(u)' \subseteq Nat
      BY <1>2 DEF Updates
    <3>3. BooksOf(u)'
      <4>1. CASE Updates(u) = {} /\ tempUsers[u] = played[u]
        <5>1. m.user # u
          BY <1>2, <1>7, <4>1 DEF Updates
        <5> QED
          BY <1>1, <1>4, <2>1, <3>0, <4>1, <5>1 DEF BooksOf, IInv, Typed
      <4>2. ASSUME NEW k \in Updates(u), k # 1, toLogin[k].info = played[u],
                   \A j \in Updates(u) : j <= k
            PROVE  BooksOf(u)'
        <5>1. k - 1 \in Updates(u)' /\ k \in DOMAIN toLogin /\ k - 1 \in DOMAIN toLogin'
          BY <1>5, <3>0, <4>2 DEF Updates
        <5>2. toLogin'[k - 1].info = played'[u]
          BY <1>1, <1>2, <3>2, <4>2, <5>1
        <5>3. \A j \in Updates(u)' : j <= k - 1
          BY <1>4, <3>0, <3>2, <4>2
        <5> QED
          BY <5>1, <5>2, <5>3 DEF BooksOf
      <4>3. CASE 1 \in Updates(u) /\ m.info = played[u] /\ \A j \in Updates(u) : j <= 1
        <5>1. Updates(u)' = {}
          <6>1. \A j \in Updates(u)' : j + 1 <= 1 /\ j \in 1..(Len(toLogin) - 1)
            BY <1>2, <1>4, <3>0, <4>3 DEF Updates
          <6> QED
            BY <6>1
        <5>2. m.user = u
          BY <4>3 DEF Updates
        <5>3. tempUsers'[u] = played'[u]
          BY <1>1, <2>1, <3>0, <4>3, <5>2 DEF IInv, Typed
        <5> QED
          BY <5>1, <5>3 DEF BooksOf
      <4> QED
        BY <3>0, <4>1, <4>2, <4>3 DEF BooksOf
    <3>4. LoginUnderWay(u)' => state'[u] = "none"
      <4>1. LoginUnderWay(u)' => LoginUnderWay(u)
        BY <1>2, <2>1 DEF LoginUnderWay
      <4> QED
        BY <1>1, <3>0, <4>1 DEF PatienceOf
    <3>5. ASSUME NEW k \in DOMAIN toLogin', toLogin'[k] = LoginOf(u), NEW j \in Updates(u)'
          PROVE  j < k
      <4>1. k + 1 \in DOMAIN toLogin /\ toLogin[k + 1] = LoginOf(u) /\ j + 1 \in Updates(u)
        BY <1>2, <1>4, <3>0, <3>5
      <4>2. j + 1 < k + 1
        BY <3>0, <4>1 DEF PatienceOf
      <4> QED
        BY <1>2, <3>2, <3>5, <4>2
    <3> QED
      BY <1>1, <2>1, <3>0, <3>3, <3>4, <3>5 DEF PatienceOf
  <2> QED
    BY <2>2, <2>3, <2>4 DEF IInv
<1> QED
  BY <1>2, <1>6, <1>7 DEF Serve

LEMMA AnswerStep ==
  ASSUME IInv, Answer
  PROVE  IInv'
<1> DEFINE a == toCenter[1]
<1>1. /\ UNCHANGED <<tempUsers, opp, toLogin, played>>
      /\ toCenter # <<>> /\ toCenter' = Tail(toCenter)
  BY DEF Answer
<1>2. /\ toCenter' \in Seq([user : Users, info : Nat]) /\ Head(toCenter) = a
      /\ 1 \in DOMAIN toCenter /\ a \in [user : Users, info : Nat]
      /\ Len(toCenter) \in Nat \ {0}
      /\ DOMAIN toCenter = 1..Len(toCenter) /\ DOMAIN toCenter' = 1..(Len(toCenter) - 1)
      /\ \A k \in DOMAIN toCenter' : k + 1 \in DOMAIN toCenter /\ toCenter'[k] = toCenter[k + 1]
  <2> DEFINE S == [user : Users, info : Nat]
  <2>1. toCenter \in Seq(S)
    BY DEF IInv, Typed
  <2> HIDE DEF S
  <2>2. /\ Tail(toCenter) \in Seq(S) /\ Len(Tail(toCenter)) = Len(toCenter) - 1
        /\ Len(toCenter) \in Nat \ {0}
        /\ DOMAIN toCenter = 1..Len(toCenter) /\ DOMAIN Tail(toCenter) = 1..(Len(toCenter) - 1)
        /\ Head(toCenter) = a /\ a \in S
        /\ \A k \in DOMAIN Tail(toCenter) :
             k + 1 \in DOMAIN toCenter /\ Tail(toCenter)[k] = toCenter[k + 1]
    BY <1>1, <2>1, TailFacts
  <2>3. 1 \in DOMAIN toCenter
    BY <2>2
  <2> QED
    BY <1>1, <2>2, <2>3 DEF S
<1>3. a.user \in Users /\ a.info \in Nat
  BY <1>2
<1>4. \A w \in Users \ {a.user} : state'[w] = state[w] /\ userInfo'[w] = userInfo[w]
  BY <1>2 DEF Answer, Return, IInv, Typed
<1>5. \/ /\ state[a.user] = "none"
         /\ state' = [state EXCEPT ![a.user] = "kOnline"]
         /\ userInfo' = [userInfo EXCEPT ![a.user] = a.info]
      \/ /\ state[a.user] = "kDisconnecteInPlaying"
         /\ state' = [state EXCEPT ![a.user] = "kPlaying"] /\ UNCHANGED userInfo
      \/ UNCHANGED <<state, userInfo>>
  BY <1>2 DEF Answer, Return
<1>6. Typed'
  <2>1. a.info # Nil
    BY <1>3, AccountsAssumption
  <2>2. /\ state' \in [Users -> {"none", "kOnline"} \cup InGame]
        /\ userInfo' \in [Users -> Nat \cup {Nil}]
        /\ \A w \in Users : userInfo'[w] = Nil <=> state'[w] = "none"
    BY <1>3, <1>5, <2>1 DEF IInv, Typed, InGame
  <2> QED
    BY <1>1, <1>2, <2>2 DEF IInv, Typed
<1>7. GamesOK'
  <2>1. \A w \in Users : state'[w] \in InGame <=> state[w] \in InGame
    BY <1>3, <1>5 DEF IInv, Typed, InGame
  <2> QED
    BY <1>1, <2>1 DEF IInv, GamesOK
<1>8. OneLogin'
  <2> SUFFICES ASSUME NEW u \in Users
               PROVE  OneLogin!(u)'
    BY DEF OneLogin
  <2>1. OneLogin!(u)
    BY DEF IInv, OneLogin
  <2>2. ASSUME NEW j \in DOMAIN toCenter', NEW k \in DOMAIN toCenter',
               toCenter'[j].user = u, toCenter'[k].user = u
        PROVE  j = k
    <3>1. j + 1 = k + 1
      BY <1>2, <2>1, <2>2
    <3> QED
      BY <1>2, <2>2, <3>1
  <2>3. ASSUME NEW j \in DOMAIN toLogin', NEW k \in DOMAIN toCenter', toLogin'[j] = LoginOf(u)
        PROVE  toCenter'[k].user # u
    BY <1>1, <1>2, <2>1, <2>3
  <2> QED
    BY <1>1, <2>1, <2>2, <2>3
<1>9. ASSUME NEW u \in Patient
      PROVE  BooksOf(u)' /\ PatienceOf(u)'
  <2>0. BooksOf(u) /\ PatienceOf(u) /\ u \in Users
    BY DEF IInv, Patient
  <2>1. Updates(u)' = Updates(u)
    BY <1>1 DEF Updates
  <2>2. BooksOf(u)'
    BY <1>1, <2>0, <2>1 DEF BooksOf
  <2>3. LoginUnderWay(u)' => LoginUnderWay(u)
    <3>1. ASSUME NEW k \in DOMAIN toCenter', toCenter'[k].user = u
          PROVE  LoginUnderWay(u)
      BY <1>2, <3>1 DEF LoginUnderWay
    <3> QED
      BY <1>1, <3>1 DEF LoginUnderWay
  <2>4. LoginUnderWay(u)' => a.user # u
    <3>1. a.user = u => \A j \in DOMAIN toLogin : toLogin[j] # LoginOf(u)
      BY <1>2, <2>0 DEF IInv, OneLogin
    <3>2. ASSUME a.user = u, NEW k \in DOMAIN toCenter', toCenter'[k].user = u
          PROVE  FALSE
      <4>1. k + 1 = 1
        BY <1>2, <2>0, <3>2 DEF IInv, OneLogin
      <4> QED
        BY <1>2, <3>2, <4>1
    <3> QED
      BY <1>1, <3>1, <3>2 DEF LoginUnderWay, LoginOf
  <2>5. LoginUnderWay(u)' => state'[u] = "none"
    BY <1>4, <2>0, <2>3, <2>4 DEF PatienceOf
  <2>6. ASSUME NEW k \in DOMAIN toCenter', toCenter'[k].user = u
        PROVE  toCenter'[k].info = played'[u]
    BY <1>1, <1>2, <2>0, <2>6 DEF PatienceOf
  <2>7. state'[u] # "none" => userInfo'[u] = played'[u]
    <3>1. CASE u # a.user
      BY <1>1, <1>4, <2>0, <3>1 DEF PatienceOf
    <3>2. CASE u = a.user
      <4>1. a.info = played[u] /\ state[u] = "none"
        BY <1>2, <2>0, <3>2 DEF PatienceOf, LoginUnderWay
      <4> QED
        BY <1>1, <1>3, <1>5, <3>2, <4>1 DEF IInv, Typed
    <3> QED
      BY <3>1, <3>2
  <2>8. \A k \in DOMAIN toLogin' : toLogin'[k] = LoginOf(u) => \A j \in Updates(u)' : j < k
    BY <1>1, <2>0, <2>1 DEF PatienceOf
  <2> QED
    BY <2>2, <2>5, <2>6, <2>7, <2>8 DEF PatienceOf
<1> QED
  BY <1>6, <1>7, <1>8, <1>9 DEF IInv

LEMMA GameOverStep ==
  ASSUME IInv, NEW s \in Users, GameOver(s)
  PROVE  IInv'
<1> DEFINE o == opp[s]
           away == {u \in {s, o} : state[u] = "kDisconnecteInPlaying"}
<1>1. /\ UNCHANGED <<tempUsers, toCenter>>
      /\ toLogin' = toLogin \o <<Report(s), Report(o)>>
      /\ userInfo' = [u \in Users |-> IF u \in away THEN Nil
                                      ELSE IF u \in {s, o} THEN userInfo[u] + 1
                                      ELSE userInfo[u]]
      /\ state' = [u \in Users |-> CASE u \in away -> "none"
                                     [] u \in {s, o} \ away -> "kOnline"
                                     [] OTHER -> state[u]]
      /\ opp' = [u \in Users |-> IF u \in {s, o} THEN Nil ELSE opp[u]]
      /\ played' = [u \in Users |-> IF u \in {s, o} THEN played[u] + 1 ELSE played[u]]
  BY DEF GameOver, Reports
<1>2. /\ o \in Users /\ o # s /\ o # Nil
      /\ opp[o] = s /\ s # Nil
      /\ state[s] \in InGame /\ state[o] \in InGame
      /\ userInfo[s] \in Nat /\ userInfo[o] \in Nat
  <2>1. o # Nil
    BY DEF GameOver
  <2>2. o \in Users /\ s # Nil
    BY <2>1, AccountsAssumption DEF IInv, Typed
  <2>3. o # s /\ opp[o] = s /\ state[s] \in InGame /\ state[o] \in InGame
    BY <2>1, <2>2 DEF IInv, GamesOK
  <2>4. state[s] # "none" /\ state[o] # "none"
    BY <2>3 DEF InGame
  <2>5. userInfo[s] \in Nat /\ userInfo[o] \in Nat
    BY <2>2, <2>4 DEF IInv, Typed
  <2> QED
    BY <2>1, <2>2, <2>3, <2>5
<1> DEFINE d == Report(s)
           e == Report(o)
<1>3. /\ d \in Messages /\ e \in Messages
      /\ d.kind = "update" /\ d.user = s /\ d.info = userInfo[s] + 1
      /\ e.kind = "update" /\ e.user = o /\ e.info = userInfo[o] + 1
      /\ \A w \in Users : d # LoginOf(w) /\ e # LoginOf(w)
  <2>1. userInfo[s] + 1 \in Nat /\ userInfo[o] + 1 \in Nat
    BY <1>2
  <2> QED
    BY <1>2, <2>1 DEF Report, Messages, LoginOf
<1> HIDE DEF d, e
<1>4. /\ toLogin' \in Seq(Messages) /\ Len(toLogin) \in Nat
      /\ DOMAIN toLogin = 1..Len(toLogin) /\ DOMAIN toLogin' = 1..(Len(toLogin) + 2)
      /\ toLogin'[Len(toLogin) + 1] = d
      /\ toLogin'[Len(toLogin) + 2] = e
      /\ \A k \in DOMAIN toLogin : toLogin'[k] = toLogin[k]
  BY <1>1, <1>3, ConcatTwoFacts DEF IInv, Typed, d, e
<1>5. \A k \in DOMAIN toLogin' : \/ k \in DOMAIN toLogin
                                 \/ k = Len(toLogin) + 1
                                 \/ k = Len(toLogin) + 2
  BY <1>4
<1>6. /\ \A w \in Users \ {s, o} : /\ userInfo'[w] = userInfo[w] /\ state'[w] = state[w]
                                    /\ opp'[w] = opp[w] /\ played'[w] = played[w]
      /\ \A w \in {s, o} : /\ opp'[w] = Nil /\ played'[w] = played[w] + 1
                           /\ \/ state'[w] = "none" /\ userInfo'[w] = Nil
                              \/ state'[w] = "kOnline" /\ userInfo'[w] = userInfo[w] + 1
  BY <1>1, <1>2
<1> HIDE DEF o
<1>7. Typed'
  <2>1. ASSUME NEW w \in Users
        PROVE  /\ userInfo'[w] \in Nat \cup {Nil}
               /\ state'[w] \in {"none", "kOnline"} \cup InGame
               /\ opp'[w] \in Users \cup {Nil}
               /\ played'[w] \in Nat
               /\ userInfo'[w] = Nil <=> state'[w] = "none"
    <3>1. CASE w \in {s, o}
      <4>1. userInfo[w] + 1 \in Nat /\ userInfo[w] + 1 # Nil /\ played[w] + 1 \in Nat
        BY <1>2, <3>1, AccountsAssumption DEF IInv, Typed
      <4> QED
        BY <1>6, <3>1, <4>1
    <3>2. CASE w \notin {s, o}
      BY <1>6, <3>2 DEF IInv, Typed
    <3> QED
      BY <3>1, <3>2
  <2>2. userInfo' \in [Users -> Nat \cup {Nil}]
    BY <1>1, <2>1
  <2>3. state' \in [Users -> {"none", "kOnline"} \cup InGame]
    BY <1>1, <2>1
  <2>4. opp' \in [Users -> Users \cup {Nil}] /\ played' \in [Users -> Nat]
    BY <1>1, <2>1
  <2> QED
    BY <1>1, <1>4, <2>1, <2>2, <2>3, <2>4 DEF IInv, Typed
<1>8. GamesOK'
  <2> SUFFICES ASSUME NEW w \in Users
               PROVE  /\ opp'[w] # Nil <=> state'[w] \in InGame
                      /\ opp'[w] # Nil => opp'[w] # w /\ opp'[opp'[w]] = w
    BY DEF GamesOK
  <2>1. CASE w \in {s, o}
    BY <1>6, <2>1 DEF InGame
  <2>2. CASE w \notin {s, o}
    <3>1. opp[w] # Nil => /\ opp[w] \in Users /\ opp[opp[w]] = w /\ opp[w] # w
      BY DEF IInv, Typed, GamesOK
    <3>2. opp[w] # Nil => opp[w] \notin {s, o}
      BY <1>2, <2>2, <3>1 DEF o
    <3> QED
      BY <1>6, <2>2, <3>1, <3>2 DEF IInv, GamesOK
  <2> QED
    BY <2>1, <2>2
<1>9. OneLogin'
  BY <1>1, <1>3, <1>4, <1>5 DEF IInv, OneLogin
<1>10. ASSUME NEW u \in Patient
       PROVE  BooksOf(u)' /\ PatienceOf(u)'
  <2>0. BooksOf(u) /\ PatienceOf(u) /\ u \in Users
    BY DEF IInv, Patient
  <2>1. LoginUnderWay(u)' <=> LoginUnderWay(u)
    <3>1. (\E k \in DOMAIN toLogin' : toLogin'[k] = LoginOf(u))
            <=> (\E k \in DOMAIN toLogin : toLogin[k] = LoginOf(u))
      BY <1>3, <1>4, <1>5, <2>0
    <3> QED
      BY <1>1, <3>1 DEF LoginUnderWay, LoginOf
  <2>2. \A k \in DOMAIN toLogin' : toLogin'[k] = LoginOf(u) => k \in DOMAIN toLogin
    BY <1>3, <1>4, <1>5, <2>0
  <2>3. CASE u \notin {s, o}
    <3>1. Updates(u)' = Updates(u)
      BY <1>3, <1>4, <1>5, <2>3 DEF Updates
    <3>2. Updates(u) \subseteq DOMAIN toLogin
      BY DEF Updates
    <3>3. userInfo'[u] = userInfo[u] /\ state'[u] = state[u] /\ played'[u] = played[u]
      BY <1>6, <2>0, <2>3
    <3>4. BooksOf(u)'
      BY <1>1, <1>4, <2>0, <3>1, <3>2, <3>3 DEF BooksOf
    <3>5. \A k \in DOMAIN toLogin' : toLogin'[k] = LoginOf(u) => \A j \in Updates(u)' : j < k
      BY <1>4, <2>0, <2>2, <3>1 DEF PatienceOf
    <3> QED
      BY <1>1, <2>0, <2>1, <3>3, <3>4, <3>5 DEF PatienceOf
  <2>4. CASE u \in {s, o}
    <3>1. state[u] # "none" /\ ~LoginUnderWay(u) /\ userInfo[u] = played[u]
      BY <1>2, <2>0, <2>4 DEF PatienceOf, InGame
    <3>2. /\ \A k \in DOMAIN toLogin' : toLogin'[k] # LoginOf(u)
          /\ \A k \in DOMAIN toCenter' : toCenter'[k].user # u
      BY <2>1, <3>1 DEF LoginUnderWay, LoginOf
    <3>3. userInfo[u] + 1 = played'[u] /\ played'[u] # Nil
      BY <1>6, <2>0, <2>4, <3>1, <1>7, AccountsAssumption DEF Typed
    <3>4. state'[u] # "none" => userInfo'[u] = played'[u]
      BY <1>6, <2>4, <3>3
    <3>5. PICK k \in {Len(toLogin) + 1, Len(toLogin) + 2} :
            /\ k \in DOMAIN toLogin' /\ toLogin'[k].kind = "update" /\ toLogin'[k].user = u
            /\ toLogin'[k].info = played'[u]
            /\ \A j \in DOMAIN toLogin' : j > k => toLogin'[j].user # u
      <4>1. CASE u = s
        <5>1. /\ Len(toLogin) + 1 \in DOMAIN toLogin' /\ toLogin'[Len(toLogin) + 1] = d
              /\ d.info = played'[u]
              /\ \A j \in DOMAIN toLogin' : j > Len(toLogin) + 1 => toLogin'[j] = e
          BY <1>3, <1>4, <3>3, <4>1
        <5> QED
          BY <1>2, <1>3, <4>1, <5>1
      <4>2. CASE u = o
        <5>1. /\ Len(toLogin) + 2 \in DOMAIN toLogin' /\ toLogin'[Len(toLogin) + 2] = e
              /\ e.info = played'[u]
              /\ \A j \in DOMAIN toLogin' : ~(j > Len(toLogin) + 2)
          BY <1>3, <1>4, <3>3, <4>2
        <5> QED
          BY <1>3, <4>2, <5>1
      <4> QED
        BY <2>4, <4>1, <4>2
    <3>6. k \in Updates(u)'
      BY <3>5 DEF Updates
    <3>7. \A j \in Updates(u)' : j <= k
      BY <1>4, <3>5 DEF Updates
    <3>8. BooksOf(u)'
      BY <3>5, <3>6, <3>7 DEF BooksOf
    <3>9. ~LoginUnderWay(u)'
      BY <2>1, <3>1
    <3> QED
      BY <3>2, <3>4, <3>8, <3>9 DEF PatienceOf
  <2> QED
    BY <2>3, <2>4
<1> QED
  BY <1>7, <1>8, <1>9, <1>10 DEF IInv

-----------------------------------------------------------------------------
(* The invariant, and what follows from it.                                *)

LEMMA InitIInv == Init => IInv
<1> SUFFICES ASSUME Init
             PROVE  IInv
  OBVIOUS
<1>1. /\ toLogin = <<>> /\ DOMAIN toLogin = {} /\ toLogin \in Seq(Messages)
      /\ toCenter = <<>> /\ DOMAIN toCenter = {} /\ toCenter \in Seq([user : Users, info : Nat])
  BY DEF Init
<1>2. Typed
  <2>1. tempUsers \in [Users -> Nat] /\ played \in [Users -> Nat]
    BY DEF Init
  <2>2. userInfo \in [Users -> Nat \cup {Nil}] /\ opp \in [Users -> Users \cup {Nil}]
    BY DEF Init
  <2>3. state \in [Users -> {"none", "kOnline"} \cup InGame]
    BY DEF Init
  <2>4. \A u \in Users : userInfo[u] = Nil <=> state[u] = "none"
    BY DEF Init
  <2> QED
    BY <1>1, <2>1, <2>2, <2>3, <2>4 DEF Typed
<1>3. GamesOK
  BY DEF Init, GamesOK, InGame
<1>4. OneLogin
  BY <1>1 DEF OneLogin
<1>5. ASSUME NEW u \in Patient
      PROVE  BooksOf(u) /\ PatienceOf(u)
  <2>1. Updates(u) = {} /\ ~LoginUnderWay(u)
    BY <1>1 DEF Updates, LoginUnderWay
  <2>2. tempUsers[u] = 0 /\ played[u] = 0 /\ state[u] = "none"
    BY DEF Init, Patient
  <2> QED
    BY <1>1, <2>1, <2>2 DEF BooksOf, PatienceOf
<1> QED
  BY <1>2, <1>3, <1>4, <1>5 DEF IInv

LEMMA NextIInv == IInv /\ [Next]_vars => IInv'
<1> SUFFICES ASSUME IInv, [Next]_vars
             PROVE  IInv'
  OBVIOUS
<1>1. ASSUME NEW u \in Users, AskLogin(u)
      PROVE  IInv'
  BY <1>1, AskLoginStep
<1>2. ASSUME NEW u \in Users, Disconnect(u)
      PROVE  IInv'
  BY <1>2, DisconnectStep
<1>3. ASSUME NEW u \in Users, GameOver(u)
      PROVE  IInv'
  BY <1>3, GameOverStep
<1>4. ASSUME NEW r \in Users, NEW b \in Users, StartGame(r, b)
      PROVE  IInv'
  BY <1>4, StartGameStep
<1>5. CASE Serve
  BY <1>5, ServeStep
<1>6. CASE Answer
  BY <1>6, AnswerStep
<1>7. CASE UNCHANGED vars
  <2>1. UNCHANGED <<tempUsers, userInfo, state, opp, toLogin, toCenter, played>>
    BY <1>7 DEF vars
  <2>2. Typed' /\ GamesOK'
    BY <2>1 DEF IInv, Typed, GamesOK
  <2>3. ASSUME NEW w \in Patient
        PROVE  /\ LoginUnderWay(w) => state'[w] = "none"
               /\ state'[w] # "none" => userInfo'[w] = played[w]
    BY <2>1 DEF IInv, PatienceOf
  <2> QED
    BY <2>1, <2>2, <2>3, ChannelsKept
<1> QED
  BY <1>1, <1>2, <1>3, <1>4, <1>5, <1>6, <1>7 DEF Next

\* Every reachable state has the invariant: the records, the copies of the
\* center (Entry::userInfo_) and the messages between them account for every
\* game of a patient user.
THEOREM AccountsInvariance == Spec => []IInv
<1> QED
  BY InitIInv, NextIInv, PTL DEF Spec

LEMMA SettledIsPlayed ==
  ASSUME IInv, NEW u \in Patient
  PROVE  GameIsKept(u)
<1>0. BooksOf(u)
  BY DEF IInv
<1>1. CASE Updates(u) = {} /\ tempUsers[u] = played[u]
  BY <1>1 DEF GameIsKept, Settled
<1>2. ASSUME NEW k \in Updates(u), toLogin[k].info = played[u], \A j \in Updates(u) : j <= k
      PROVE  GameIsKept(u)
  <2> DEFINE last == CHOOSE i \in Updates(u) : \A j \in Updates(u) : j <= i
  <2>1. last \in Updates(u) /\ \A j \in Updates(u) : j <= last
    BY <1>2
  <2>2. Updates(u) \subseteq Nat
    <3>1. DOMAIN toLogin = 1..Len(toLogin)
      BY DEF IInv, Typed
    <3> QED
      BY <3>1 DEF Updates
  <2>3. last = k
    <3> HIDE DEF last
    <3> QED
      BY <1>2, <2>1, <2>2
  <2> QED
    BY <1>2, <2>3 DEF GameIsKept, Settled
<1> QED
  BY <1>0, <1>1, <1>2 DEF BooksOf

\* A user who logs in only when its last game is settled loses no game
\* (onLoginRequest, gameOver, onUpdateUserInfo): its record, once the reports
\* under way have replaced it, counts every game it has finished.
THEOREM PatientLoseNothingAlways == Spec => []PatientLoseNothing
<1>1. IInv => PatientLoseNothing
  BY SettledIsPlayed DEF PatientLoseNothing, Patient
<1> QED
  BY <1>1, AccountsInvariance, PTL

-----------------------------------------------------------------------------
(* The clocks.                                                             *)

\* While the game runs: the clock on the move was started when the move was
\* got, and its timer is due no later than stepTime after that.
ClockStarted ==
  ~over => /\ startTime[Turn] = since
           /\ \A c \in Colors : startTime[c] <= now
           /\ due <= since + StepTime * TicksPerSecond
           /\ now <= due + MaxLag

ClockInv == ClockTypeOK /\ ClockStarted /\ ChargedFairly

-----------------------------------------------------------------------------
(* Arithmetic.                                                             *)

LEMMA Truncated ==
  ASSUME NEW n \in Nat
  PROVE  /\ n \div TicksPerSecond \in Nat
         /\ (n \div TicksPerSecond) * TicksPerSecond <= n
         /\ n <= (n \div TicksPerSecond) * TicksPerSecond + (TicksPerSecond - 1)
  BY ClockAssumption

LEMMA Distributes ==
  ASSUME NEW a \in Int, NEW b \in Int, NEW c \in Int
  PROVE  (a + b) * c = a * c + b * c
  OBVIOUS

LEMMA Monotone ==
  ASSUME NEW a \in Nat, NEW b \in Nat, NEW c \in Nat, a <= b
  PROVE  a * c <= b * c
  OBVIOUS

-----------------------------------------------------------------------------
(* What is charged when the player on the move is charged.                 *)

LEMMA SpendTime ==
  ASSUME ClockTypeOK, NEW c \in Colors, startTime[c] <= now
  PROVE  /\ StepSpendTime(c) \in Nat
         /\ StepSpendTime(c) * TicksPerSecond <= now - startTime[c]
         /\ now - startTime[c] <= StepSpendTime(c) * TicksPerSecond + (TicksPerSecond - 1)
  BY Truncated DEF ClockTypeOK, StepSpendTime

-----------------------------------------------------------------------------
(* One lemma for each action.                                              *)

LEMMA TurnIsColor == ClockTypeOK => Turn \in Colors /\ Opp(Turn) \in Colors \ {Turn}
  BY DEF Turn, Colors, Opp

LEMMA TickStep == ASSUME ClockInv, Tick PROVE ClockInv'
<1>1. ClockTypeOK'
  BY DEF ClockInv, ClockTypeOK, Tick, clockVars, history
<1>2. ClockStarted'
  <2>1. Turn' = Turn
    BY DEF Tick, clockVars, Turn
  <2> QED
    BY <2>1, ClockAssumption DEF ClockInv, ClockTypeOK, ClockStarted, Tick, clockVars, history
<1>3. ChargedFairly'
  BY DEF ClockInv, ChargedFairly, Tick, clockVars, history
<1> QED
  BY <1>1, <1>2, <1>3 DEF ClockInv

LEMMA ClockGameOverStep ==
  ASSUME ClockInv, NEW c \in Colors, ClockGameOver(c)
  PROVE  ClockInv'
<1>1. gameSpendTime' \in [Colors -> Nat]
  BY SpendTime DEF ClockInv, ClockGameOver, ClockStarted, Charge, ClockTypeOK
<1>2. ClockTypeOK'
  BY <1>1 DEF ClockInv, ClockGameOver, ClockTypeOK, history
<1> QED
  BY <1>2 DEF ClockInv, ClockGameOver, ClockStarted, ChargedFairly

LEMMA RealStepTimeInRange ==
  ASSUME ClockTypeOK, NEW n \in Nat
  PROVE  RealStepTime(n) \in 0..StepTime
  BY ClockAssumption DEF ClockTypeOK, RealStepTime

LEMMA StartClockKeeps ==
  ASSUME ClockInv, NEW o \in Colors, NEW step \in 0..StepTime, StartClock(o, step),
         UNCHANGED <<now, over>>, since' = now, Turn' = o
  PROVE  /\ startTime' \in [Colors -> Nat] /\ due' \in Nat
         /\ ClockStarted'
<1>1. step * TicksPerSecond \in Nat /\ step * TicksPerSecond <= StepTime * TicksPerSecond
  BY Monotone, ClockAssumption
<1>2. StepTime * TicksPerSecond \in Nat
  BY ClockAssumption
<1> QED
  BY <1>1, <1>2, ClockAssumption DEF ClockInv, ClockTypeOK, ClockStarted, StartClock

LEMMA Parity ==
  \A n \in Int, d \in {1, -1} : (n % 2 = 0) <=> ~((n + d) % 2 = 0)
  OBVIOUS

LEMMA OtherTurn ==
  ASSUME ClockTypeOK, NEW c \in Colors, c = Turn,
         totalSteps' \in Nat, totalSteps' = totalSteps + 1 \/ totalSteps' = totalSteps - 1
  PROVE  Turn' = Opp(c) /\ Opp(c) \in Colors
<1>1. PICK d \in {1, -1} : totalSteps' = totalSteps + d
  BY DEF ClockTypeOK
<1>2. (totalSteps % 2 = 0) <=> ~(totalSteps' % 2 = 0)
  BY <1>1, Parity DEF ClockTypeOK
<1> QED
  BY <1>2 DEF Turn, Opp, Colors

LEMMA MoveStep ==
  ASSUME ClockInv, NEW c \in Colors, Move(c)
  PROVE  ClockInv'
<1> DEFINE spent == StepSpendTime(c)
<1>1. /\ ~over /\ c = Turn
      /\ spent \in Nat
      /\ spent * TicksPerSecond <= now - since
      /\ now - since <= spent * TicksPerSecond + (TicksPerSecond - 1)
  BY SpendTime DEF ClockInv, Move, ClockStarted
<1>2. /\ gameSpendTime' = [gameSpendTime EXCEPT ![c] = @ + spent]
      /\ used' = [used EXCEPT ![c] = @ + (now - since)]
      /\ moves' = [moves EXCEPT ![c] = @ + 1]
  BY DEF Move, Charge
<1> HIDE DEF spent
<1>3. since <= now /\ now - since \in Nat
  BY <1>1 DEF ClockInv, ClockTypeOK, ClockStarted
<1>4. /\ gameSpendTime' \in [Colors -> Nat] /\ used' \in [Colors -> Nat]
      /\ moves' \in [Colors -> Nat]
  BY <1>1, <1>2, <1>3 DEF ClockInv, ClockTypeOK
<1>5. realStepTime' \in 0..StepTime
  BY <1>4, RealStepTimeInRange DEF ClockInv, Move
<1>6. Turn' = Opp(c) /\ Opp(c) \in Colors
  BY OtherTurn DEF ClockInv, ClockTypeOK, Move
<1>7. startTime' \in [Colors -> Nat] /\ due' \in Nat /\ ClockStarted'
  BY <1>5, <1>6, StartClockKeeps DEF Move
<1>8. ClockTypeOK'
  BY <1>4, <1>5, <1>7 DEF ClockInv, ClockTypeOK, Move
<1>9. ChargedFairly'
  <2> SUFFICES ASSUME NEW d \in Colors
               PROVE  /\ gameSpendTime'[d] * TicksPerSecond <= used'[d]
                      /\ used'[d] <= gameSpendTime'[d] * TicksPerSecond
                                     + moves'[d] * (TicksPerSecond - 1)
    BY DEF ChargedFairly
  <2>1. /\ gameSpendTime[d] * TicksPerSecond <= used[d]
        /\ used[d] <= gameSpendTime[d] * TicksPerSecond + moves[d] * (TicksPerSecond - 1)
    BY <1>1 DEF ClockInv, ChargedFairly
  <2>2. CASE d # c
    BY <1>2, <2>1, <2>2 DEF ClockInv, ClockTypeOK
  <2>3. CASE d = c
    <3>1. /\ gameSpendTime'[c] = gameSpendTime[c] + spent
          /\ used'[c] = used[c] + (now - since)
          /\ moves'[c] = moves[c] + 1
      BY <1>2 DEF ClockInv, ClockTypeOK
    <3>2. /\ gameSpendTime[c] \in Nat /\ used[c] \in Nat /\ moves[c] \in Nat
          /\ TicksPerSecond \in Nat
      BY ClockAssumption DEF ClockInv, ClockTypeOK
    <3>3. /\ gameSpendTime'[c] * TicksPerSecond
               = gameSpendTime[c] * TicksPerSecond + spent * TicksPerSecond
          /\ moves'[c] * (TicksPerSecond - 1)
               = moves[c] * (TicksPerSecond - 1) + (TicksPerSecond - 1)
      <4>1. (gameSpendTime[c] + spent) * TicksPerSecond
              = gameSpendTime[c] * TicksPerSecond + spent * TicksPerSecond
        BY <1>1, <3>2, Distributes
      <4>2. (moves[c] + 1) * (TicksPerSecond - 1)
              = moves[c] * (TicksPerSecond - 1) + 1 * (TicksPerSecond - 1)
        BY <3>2, Distributes
      <4> QED
        BY <3>1, <3>2, <4>1, <4>2
    <3>4. /\ gameSpendTime[c] * TicksPerSecond \in Int /\ spent * TicksPerSecond \in Int
          /\ moves[c] * (TicksPerSecond - 1) \in Int
      BY <1>1, <3>2
    <3> QED
      BY <1>1, <1>3, <2>1, <2>3, <3>1, <3>2, <3>3, <3>4
  <2> QED
    BY <2>2, <2>3
<1> QED
  BY <1>7, <1>8, <1>9 DEF ClockInv

LEMMA TakeBackStep ==
  ASSUME ClockInv, NEW c \in Colors, TakeBack(c)
  PROVE  ClockInv'
<1>1. totalSteps' \in Nat
  BY DEF ClockInv, ClockTypeOK, TakeBack
<1>2. Turn' = Opp(c) /\ Opp(c) \in Colors
  BY <1>1, OtherTurn DEF ClockInv, TakeBack
<1>3. startTime' \in [Colors -> Nat] /\ due' \in Nat /\ ClockStarted'
  BY <1>2, StartClockKeeps DEF ClockInv, ClockTypeOK, TakeBack
<1>4. ClockTypeOK'
  BY <1>1, <1>3 DEF ClockInv, ClockTypeOK, TakeBack
<1>5. ChargedFairly'
  BY DEF ClockInv, ChargedFairly, TakeBack
<1> QED
  BY <1>3, <1>4, <1>5 DEF ClockInv

-----------------------------------------------------------------------------
(* The theorems.                                                           *)

LEMMA InitClockInv == ClockInit => ClockInv
<1> SUFFICES ASSUME ClockInit PROVE ClockInv
  OBVIOUS
<1>1. StepTime * TicksPerSecond \in Nat
  BY ClockAssumption
<1>2. ClockTypeOK
  <2>1. /\ now = Start /\ since = Start /\ totalSteps = 0
        /\ realStepTime = StepTime /\ over = FALSE
        /\ due = Start + StepTime * TicksPerSecond
    BY DEF ClockInit
  <2>2. Start \in Nat /\ StepTime \in Nat /\ Start + StepTime * TicksPerSecond \in Nat
    BY <1>1, ClockAssumption
  <2>3. /\ gameSpendTime \in [Colors -> Nat] /\ startTime \in [Colors -> Nat]
        /\ used \in [Colors -> Nat] /\ moves \in [Colors -> Nat]
    BY ClockAssumption DEF ClockInit
  <2>4. now \in Nat /\ since \in Nat /\ due \in Nat
    BY <2>1, <2>2
  <2>5. totalSteps \in Nat /\ realStepTime \in 0..StepTime
    BY <2>1, <2>2
  <2>6. over \in BOOLEAN
    BY <2>1
  <2> QED
    BY <2>3, <2>4, <2>5, <2>6 DEF ClockTypeOK
<1>3. ClockStarted
  <2>1. Turn = "kRed"
    BY DEF ClockInit, Turn
  <2> QED
    BY <1>1, <2>1, ClockAssumption DEF ClockInit, ClockStarted, Colors
<1>4. ChargedFairly
  BY ClockAssumption DEF ClockInit, ChargedFairly
<1> QED
  BY <1>2, <1>3, <1>4 DEF ClockInv

LEMMA NextClockInv == ClockInv /\ [ClockNext]_timeVars => ClockInv'
<1> SUFFICES ASSUME ClockInv, [ClockNext]_timeVars PROVE ClockInv'
  OBVIOUS
<1>1. CASE UNCHANGED timeVars
  BY <1>1 DEF ClockInv, ClockTypeOK, ClockStarted, ChargedFairly,
             timeVars, clockVars, history, Turn
<1>2. CASE Tick
  BY <1>2, TickStep
<1>3. ASSUME NEW c \in Colors, Move(c)
      PROVE  ClockInv'
  BY <1>3, MoveStep
<1>4. ASSUME NEW c \in Colors, TakeBack(c)
      PROVE  ClockInv'
  BY <1>4, TakeBackStep
<1>5. ASSUME NEW c \in Colors, WinningMove(c) \/ GiveupOrDraw(c) \/ TimeOut(c)
      PROVE  ClockInv'
  BY <1>5, ClockGameOverStep DEF WinningMove, GiveupOrDraw, TimeOut
<1> QED
  BY <1>1, <1>2, <1>3, <1>4, <1>5 DEF ClockNext

\* The clocks keep their types; realStepTime stays between zero and stepTime.
THEOREM ClockInvariance == ClockSpec => []ClockInv
  BY InitClockInv, NextClockInv, PTL DEF ClockSpec

\* For every pattern and every resolution of the clock a player is charged for
\* what it thought, to within a second a move (updateGameTime).
THEOREM ChargedFairlyAlways == ClockSpec => []ChargedFairly
<1>1. ClockInv => ChargedFairly
  BY DEF ClockInv
<1> QED
  BY <1>1, ClockInvariance, PTL

\* For every pattern and lag nobody is on the move for longer than stepTime and
\* the lag, whatever moves are made and taken back (updateRealStepTime, runAfter).
THEOREM StepBoundedAlways == ClockSpec => []StepBounded
<1>1. ClockInv => StepBounded
  <2>1. StepTime * TicksPerSecond \in Nat
    BY ClockAssumption
  <2> QED
    BY <2>1, ClockAssumption DEF ClockInv, ClockTypeOK, ClockStarted, StepBounded
<1> QED
  BY <1>1, ClockInvariance, PTL
=============================================================================
