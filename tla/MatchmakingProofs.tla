-------------------------- MODULE MatchmakingProofs --------------------------
(***************************************************************************)
(* Theorems about Matchmaking for any users, ratings, patterns, requests   *)
(* in memory and messages under way.  Games are whole because an answer is *)
(* only followed when both its users wait.  As long as nobody cancels,     *)
(* every request is in one place (InOnePlace), and a user that waits is at *)
(* one place of its way: its request under way (AsksOK), listed at the     *)
(* match server (ListedOK), or answered (AnswersOK).                       *)
(***************************************************************************)
EXTENDS Matchmaking, TLAPS

-----------------------------------------------------------------------------
(* The match server alone.  Two requests of one user may be popped         *)
(* together.  At most one of a user's requests counts at a time, and one   *)
(* that has ceased to count never counts again, for a new request is a new *)
(* object as long as anybody holds the old one.  So when the first of the  *)
(* two has passed its test the second will fail its own, however long the  *)
(* worker sleeps between the tests and whatever the event loop and the     *)
(* other workers do in the meantime.                                       *)

\* The list has requests under their own user's name.
ListedByName == \A u \in Users : matchUserList[u] # Nil => matchUserList[u].user = u

\* While onMatchRequest holds a request its user has no other one listed.
HandIsListed == inHand # Nil => matchUserList[inHand.user] \in {Nil, inHand}

\* What a worker knows of its two requests at each point.
SameUser(t) == user1[t].user = user2[t].user
WorkerKnows(t) ==
  /\ pc[t] # "pop" => user1[t] # user2[t]
  /\ pc[t] = "judge2" /\ SameUser(t) => Unique(user2[t])
  /\ pc[t] = "send" => ~SameUser(t)

IInv ==
  /\ TypeOK
  /\ ListedByName
  /\ HandIsListed
  /\ \A t \in RoomTypes : WorkerKnows(t)
  /\ NeverPairedWithSelf

-----------------------------------------------------------------------------
(* One request of a user counts.                                           *)

LEMMA OneCounts ==
  ASSUME IInv, NEW r \in Requests, NEW q \in Requests, r # q, r.user = q.user, ~Unique(r)
  PROVE  Unique(q)
  BY MatchAssumption DEF IInv, HandIsListed, Unique

\* A step after which nothing counts that did not count before.
LEMMA KnowledgeKept ==
  ASSUME IInv, NEW t \in RoomTypes, UNCHANGED <<pc, user1, user2>>,
         pc[t] # "pop" /\ Unique(user2[t]) => Unique(user2[t])'
  PROVE  WorkerKnows(t)'
  BY DEF IInv, WorkerKnows, SameUser

-----------------------------------------------------------------------------
(* The event loop.                                                         *)

LEMMA ConnectionStep ==
  ASSUME IInv, NEW c \in Conns, OnConnected(c) \/ OnClosed(c)
  PROVE  IInv'
<1>1. /\ UNCHANGED <<matchUserList, matchQueue, inHand, pushed, pc, user1, user2, up>>
      /\ answer' = Nil
  BY DEF OnConnected, OnClosed, handlerVars, workerVars
<1>2. conn' \in Conns \cup {Nil} /\ conns' \subseteq Conns
  BY DEF IInv, TypeOK, OnConnected, OnClosed
<1>3. TypeOK'
  BY <1>1, <1>2 DEF IInv, TypeOK
<1>4. \A t \in RoomTypes : WorkerKnows(t)'
  BY <1>1, KnowledgeKept DEF Unique
<1> QED
  BY <1>1, <1>3, <1>4 DEF IInv, ListedByName, HandIsListed, NeverPairedWithSelf

LEMMA MatchRequestStep ==
  ASSUME IInv, NEW u \in Users, NEW type \in RoomTypes, NEW score \in Scores,
         OnMatchRequest(u, type, score)
  PROVE  IInv'
<1>1. /\ UNCHANGED <<matchQueue, pushed, pc, user1, user2, conn, conns, up>>
      /\ answer' = Nil /\ inHand = Nil
  BY DEF OnMatchRequest, workerVars, connVars, Idle
<1>2. CASE matchUserList[u] # Nil
  <2>1. UNCHANGED <<matchUserList, inHand>>
    BY <1>2 DEF OnMatchRequest
  <2>2. TypeOK'
    BY <1>1, <2>1 DEF IInv, TypeOK
  <2>3. \A t \in RoomTypes : WorkerKnows(t)'
    BY <1>1, <2>1, KnowledgeKept DEF Unique
  <2> QED
    BY <1>1, <2>1, <2>2, <2>3 DEF IInv, ListedByName, HandIsListed, NeverPairedWithSelf
<1>3. CASE matchUserList[u] = Nil
  <2>1. PICK n \in FreeCopies(u) :
          LET r == [user |-> u, type |-> type, score |-> score, n |-> n]
          IN  /\ matchUserList' = [matchUserList EXCEPT ![u] = r]
              /\ inHand' = r
    BY <1>3 DEF OnMatchRequest
  <2> DEFINE r == [user |-> u, type |-> type, score |-> score, n |-> n]
  <2>2. r \in Requests /\ r # Nil /\ r.user = u /\ ~Alive(r)
    BY MatchAssumption DEF FreeCopies, Requests
  <2>3. matchUserList' = [matchUserList EXCEPT ![u] = r] /\ inHand' = r
    BY <2>1
  <2> HIDE DEF r
  <2>4. TypeOK'
    BY <1>1, <2>2, <2>3 DEF IInv, TypeOK
  <2>5. ListedByName' /\ HandIsListed'
    BY <2>2, <2>3 DEF IInv, TypeOK, ListedByName, HandIsListed
  <2>6. ASSUME NEW t \in RoomTypes
        PROVE  WorkerKnows(t)'
    <3>1. ASSUME pc[t] # "pop", Unique(user2[t])
          PROVE  Unique(user2[t])'
      <4>1. user2[t] # r /\ user2[t] \in Requests
        BY <2>2, <3>1 DEF Alive, Held, IInv, TypeOK
      <4>2. user2[t].user \in Users
        BY <4>1 DEF Requests
      <4> QED
        BY <1>1, <2>3, <3>1, <4>1, <4>2 DEF Unique, IInv, TypeOK
    <3> QED
      BY <1>1, <3>1, KnowledgeKept
  <2> QED
    BY <1>1, <2>4, <2>5, <2>6 DEF IInv, NeverPairedWithSelf
<1> QED
  BY <1>2, <1>3

LEMMA PushReturnStep ==
  ASSUME IInv, Push \/ Return
  PROVE  IInv'
<1>1. /\ UNCHANGED <<matchUserList, pc, user1, user2, conn, conns, up>>
      /\ answer' = Nil /\ inHand' \in {inHand, Nil}
  BY DEF Push, Return, workerVars, connVars
<1>2. TypeOK'
  <2>1. CASE Push
    <3>1. inHand \in Requests /\ inHand.type \in RoomTypes
      BY <2>1 DEF Push, IInv, TypeOK, Requests
    <3>2. matchQueue' \in [RoomTypes -> SUBSET Requests]
      BY <2>1, <3>1 DEF Push, IInv, TypeOK
    <3> QED
      BY <1>1, <2>1, <3>1, <3>2 DEF Push, IInv, TypeOK
  <2>2. CASE Return
    BY <1>1, <2>2 DEF Return, IInv, TypeOK
  <2> QED
    BY <2>1, <2>2
<1>3. ASSUME NEW t \in RoomTypes
      PROVE  WorkerKnows(t)'
  <2>1. pc[t] # "pop" /\ Unique(user2[t]) => Unique(user2[t])'
    BY <1>1 DEF Unique, IInv, TypeOK
  <2> QED
    BY <1>1, <2>1, KnowledgeKept
<1> QED
  BY <1>1, <1>2, <1>3 DEF IInv, ListedByName, HandIsListed, NeverPairedWithSelf

LEMMA CancelStep ==
  ASSUME IInv, NEW u \in Users, OnCancelMatchRequest(u)
  PROVE  IInv'
<1>1. /\ UNCHANGED <<matchQueue, inHand, pushed, pc, user1, user2, conn, conns, up>>
      /\ answer' = Nil
      /\ matchUserList' = [matchUserList EXCEPT ![u] = Nil]
  BY DEF OnCancelMatchRequest, handlerVars, workerVars, connVars
<1>2. TypeOK'
  BY <1>1 DEF IInv, TypeOK
<1>3. ASSUME NEW t \in RoomTypes
      PROVE  WorkerKnows(t)'
  <2>1. ASSUME pc[t] # "pop", Unique(user2[t])
        PROVE  Unique(user2[t])'
    <3>1. user2[t] # Nil /\ user2[t].user \in Users
      BY <2>1 DEF IInv, TypeOK, Requests
    <3> QED
      BY <1>1, <2>1, <3>1 DEF Unique, IInv, TypeOK
  <2> QED
    BY <1>1, <2>1, KnowledgeKept
<1>4. ListedByName' /\ HandIsListed'
  BY <1>1 DEF IInv, TypeOK, ListedByName, HandIsListed, Requests
<1> QED
  BY <1>1, <1>2, <1>3, <1>4 DEF IInv, NeverPairedWithSelf

-----------------------------------------------------------------------------
(* The workers.                                                            *)

\* A worker's step leaves what counts alone, or takes a name off the list.
LEMMA OthersKnow ==
  ASSUME IInv, NEW t \in RoomTypes, NEW w \in RoomTypes \ {t},
         pc'[w] = pc[w], user1'[w] = user1[w], user2'[w] = user2[w],
         inHand' = inHand,
         \A u \in Users : matchUserList'[u] \in {matchUserList[u], Nil}
  PROVE  WorkerKnows(w)'
<1>1. ASSUME pc[w] # "pop", Unique(user2[w])
      PROVE  Unique(user2[w])'
  <2>1. user2[w] # Nil /\ user2[w].user \in Users
    BY <1>1 DEF IInv, TypeOK, Requests
  <2> QED
    BY <1>1, <2>1 DEF Unique
<1>2. WorkerKnows(w)
  BY DEF IInv
<1> QED
  BY <1>1, <1>2 DEF WorkerKnows, SameUser

LEMMA PopStep ==
  ASSUME IInv, NEW t \in RoomTypes, Pop(t)
  PROVE  IInv'
<1>1. PICK r \in matchQueue[t], q \in matchQueue[t] :
        /\ r # q
        /\ user1' = [user1 EXCEPT ![t] = r]
        /\ user2' = [user2 EXCEPT ![t] = q]
        /\ matchQueue' = [matchQueue EXCEPT ![t] = @ \ {r, q}]
  BY DEF Pop, Lowest
<1>2. /\ UNCHANGED <<matchUserList, inHand, pushed, conn, conns, up>>
      /\ answer' = Nil
      /\ pc' = [pc EXCEPT ![t] = "judge1"]
  BY DEF Pop, handlerVars, connVars
<1>3. r \in Requests /\ q \in Requests /\ r # q
  BY <1>1 DEF IInv, TypeOK
<1>4. TypeOK'
  BY <1>1, <1>2, <1>3, MatchAssumption DEF IInv, TypeOK, Pcs
<1>5. ASSUME NEW w \in RoomTypes
      PROVE  WorkerKnows(w)'
  <2>1. CASE w = t
    BY <1>1, <1>2, <1>3, <2>1 DEF IInv, TypeOK, WorkerKnows
  <2>2. CASE w # t
    BY <1>1, <1>2, <2>2, OthersKnow DEF IInv, TypeOK
  <2> QED
    BY <2>1, <2>2
<1> QED
  BY <1>2, <1>4, <1>5 DEF IInv, ListedByName, HandIsListed, NeverPairedWithSelf

\* A worker goes on from one point to the next.
LEMMA GoOnStep ==
  ASSUME IInv, NEW t \in RoomTypes, NEW next \in Pcs \ {"pop"}, pc[t] # "pop",
         pc' = [pc EXCEPT ![t] = next],
         UNCHANGED <<matchUserList, inHand, pushed, user1, user2, conn, conns>>,
         matchQueue' \in [RoomTypes -> SUBSET Requests], up' \in BOOLEAN,
         answer' \in Response \cup {Nil}, NeverPairedWithSelf',
         next = "judge2" /\ SameUser(t) => Unique(user2[t]),
         next = "send" => ~SameUser(t)
  PROVE  IInv'
<1>1. TypeOK'
  BY DEF IInv, TypeOK
<1>2. ASSUME NEW w \in RoomTypes
      PROVE  WorkerKnows(w)'
  <2>1. CASE w = t
    BY <2>1 DEF IInv, TypeOK, WorkerKnows, SameUser, Unique
  <2>2. CASE w # t
    BY <2>2, OthersKnow DEF IInv, TypeOK
  <2> QED
    BY <2>1, <2>2
<1> QED
  BY <1>1, <1>2 DEF IInv, ListedByName, HandIsListed

LEMMA HeldByWorker ==
  ASSUME IInv, NEW t \in RoomTypes, pc[t] # "pop"
  PROVE  /\ user1[t] \in Requests /\ user2[t] \in Requests /\ user1[t] # user2[t]
         /\ user1[t].user \in Users /\ user2[t].user \in Users
  BY DEF IInv, TypeOK, WorkerKnows, Requests

LEMMA JudgeStep ==
  ASSUME IInv, NEW t \in RoomTypes,
         \/ Judge(t, "judge1", user1, "judge2")
         \/ Judge(t, "judge2", user2, "send")
  PROVE  IInv'
<1>1. /\ UNCHANGED <<matchUserList, matchQueue, inHand, pushed, user1, user2, conn, conns, up>>
      /\ answer' = Nil /\ pc[t] \in {"judge1", "judge2"}
  BY DEF Judge, handlerVars, connVars
<1>2. matchQueue' \in [RoomTypes -> SUBSET Requests] /\ up' \in BOOLEAN /\ NeverPairedWithSelf'
  BY <1>1 DEF IInv, TypeOK, NeverPairedWithSelf
<1>3. PICK next \in {"judge2", "send", "back1"} :
        /\ pc' = [pc EXCEPT ![t] = next]
        /\ next = "judge2" => ~Unique(user1[t])
        /\ next = "send" => pc[t] = "judge2" /\ ~Unique(user2[t])
  <2>1. CASE Judge(t, "judge1", user1, "judge2")
    BY <2>1 DEF Judge, Counts
  <2>2. CASE Judge(t, "judge2", user2, "send")
    BY <2>2 DEF Judge, Counts
  <2> QED
    BY <2>1, <2>2
<1>4. next = "judge2" /\ SameUser(t) => Unique(user2[t])
  BY <1>1, <1>3, HeldByWorker, OneCounts DEF SameUser
<1>5. next = "send" => ~SameUser(t)
  BY <1>3 DEF IInv, WorkerKnows
<1> QED
  BY <1>1, <1>2, <1>3, <1>4, <1>5, GoOnStep DEF Pcs

LEMMA SendStep ==
  ASSUME IInv, NEW t \in RoomTypes, Send(t)
  PROVE  IInv'
<1>1. /\ UNCHANGED <<matchUserList, matchQueue, inHand, pushed, user1, user2, conn, conns>>
      /\ pc[t] = "send"
  BY DEF Send, handlerVars, connVars
<1>2. user1[t].user # user2[t].user /\ user1[t].user \in Users /\ user2[t].user \in Users
  BY <1>1, HeldByWorker DEF IInv, WorkerKnows, SameUser
<1>3. CASE conn # Nil
  <2>1. /\ pc' = [pc EXCEPT ![t] = "erase"] /\ up' = up
        /\ \/ answer' = [red |-> user1[t].user, black |-> user2[t].user, type |-> t]
           \/ answer' = [red |-> user2[t].user, black |-> user1[t].user, type |-> t]
    BY <1>3 DEF Send
  <2>2. answer' \in Response /\ NeverPairedWithSelf'
    BY <1>2, <2>1 DEF Response, NeverPairedWithSelf
  <2>3. matchQueue' \in [RoomTypes -> SUBSET Requests] /\ up' \in BOOLEAN
    BY <1>1, <2>1 DEF IInv, TypeOK
  <2> QED
    BY <1>1, <2>1, <2>2, <2>3, GoOnStep DEF Pcs
<1>4. CASE conn = Nil
  <2>1. answer' = Nil /\ up' = FALSE /\ pc' = pc
    BY <1>4 DEF Send
  <2>2. \A w \in RoomTypes : WorkerKnows(w)'
    BY <1>1, <2>1, KnowledgeKept DEF Unique
  <2>3. TypeOK'
    BY <1>1, <2>1 DEF IInv, TypeOK
  <2> QED
    BY <1>1, <2>1, <2>2, <2>3 DEF IInv, ListedByName, HandIsListed, NeverPairedWithSelf
<1> QED
  BY <1>3, <1>4

LEMMA BackStep ==
  ASSUME IInv, NEW t \in RoomTypes, Back1(t)
  PROVE  IInv'
<1>1. /\ UNCHANGED <<matchUserList, inHand, pushed, user1, user2, conn, conns, up>>
      /\ answer' = Nil /\ pc[t] = "back1" /\ pc' = [pc EXCEPT ![t] = "back2"]
  BY DEF Back1, handlerVars, connVars
<1>2. matchQueue' \in [RoomTypes -> SUBSET Requests]
  BY <1>1, HeldByWorker DEF Back1, PushBack, IInv, TypeOK
<1> QED
  BY <1>1, <1>2, GoOnStep DEF IInv, TypeOK, NeverPairedWithSelf, Pcs

\* A worker is done with its two requests.
LEMMA ResetStep ==
  ASSUME IInv, NEW t \in RoomTypes, Back2(t) \/ Erase(t)
  PROVE  IInv'
<1>1. /\ UNCHANGED <<inHand, pushed, conn, conns, up>>
      /\ answer' = Nil /\ pc[t] # "pop"
      /\ user1' = [user1 EXCEPT ![t] = Nil] /\ user2' = [user2 EXCEPT ![t] = Nil]
      /\ pc' = [pc EXCEPT ![t] = "pop"]
  BY DEF Back2, Erase, Reset, handlerVars, connVars
<1>2. /\ matchUserList' \in [Users -> Requests \cup {Nil}]
      /\ \A u \in Users : matchUserList'[u] \in {matchUserList[u], Nil}
  BY DEF IInv, TypeOK, Back2, Erase
<1>3. matchQueue' \in [RoomTypes -> SUBSET Requests]
  BY <1>1, HeldByWorker DEF Back2, Erase, PushBack, IInv, TypeOK
<1>4. TypeOK'
  BY <1>1, <1>2, <1>3 DEF IInv, TypeOK, Pcs
<1>5. ASSUME NEW w \in RoomTypes
      PROVE  WorkerKnows(w)'
  <2>1. CASE w = t
    BY <1>1, <2>1 DEF IInv, TypeOK, WorkerKnows
  <2>2. CASE w # t
    BY <1>1, <1>2, <2>2, OthersKnow DEF IInv, TypeOK
  <2> QED
    BY <2>1, <2>2
<1>6. HandIsListed'
  <2>1. inHand # Nil => inHand.user \in Users
    BY DEF IInv, TypeOK, Requests
  <2> QED
    BY <1>1, <1>2, <2>1 DEF IInv, HandIsListed
<1> QED
  BY <1>1, <1>2, <1>4, <1>5, <1>6 DEF IInv, ListedByName, NeverPairedWithSelf

-----------------------------------------------------------------------------
(* The theorems.                                                           *)

LEMMA InitIInv == Init => IInv
<1> SUFFICES ASSUME Init PROVE IInv
  OBVIOUS
<1>1. TypeOK
  BY DEF Init, MatchInit, TypeOK, Pcs
<1> QED
  BY <1>1 DEF Init, MatchInit, IInv, ListedByName, HandIsListed, WorkerKnows,
              NeverPairedWithSelf

LEMMA NextIInv == IInv /\ [Next]_matchVars => IInv'
<1> SUFFICES ASSUME IInv, [Next]_matchVars PROVE IInv'
  OBVIOUS
<1>1. CASE UNCHANGED matchVars
  <2>1. UNCHANGED <<matchUserList, matchQueue, inHand, pushed, pc, user1, user2,
                    conn, conns, up, answer>>
    BY <1>1 DEF matchVars, handlerVars, workerVars, connVars
  <2>2. TypeOK'
    BY <2>1 DEF IInv, TypeOK
  <2>3. \A t \in RoomTypes : WorkerKnows(t)'
    BY <2>1, KnowledgeKept DEF Unique
  <2> QED
    BY <2>1, <2>2, <2>3 DEF IInv, ListedByName, HandIsListed, NeverPairedWithSelf
<1>2. CASE Push \/ Return
  BY <1>2, PushReturnStep
<1>3. ASSUME NEW t \in RoomTypes, Work(t)
      PROVE  IInv'
  BY <1>3, PopStep, JudgeStep, SendStep, BackStep, ResetStep DEF Work
<1>4. ASSUME NEW c \in Conns, OnConnected(c) \/ OnClosed(c)
      PROVE  IInv'
  BY <1>4, ConnectionStep
<1>5. ASSUME NEW u \in Users, NEW t \in RoomTypes, NEW s \in Scores, OnMatchRequest(u, t, s)
      PROVE  IInv'
  BY <1>5, MatchRequestStep
<1>6. ASSUME NEW u \in Users, OnCancelMatchRequest(u)
      PROVE  IInv'
  BY <1>6, CancelStep
<1> QED
  BY <1>1, <1>2, <1>3, <1>4, <1>5, <1>6 DEF Next, Threads

LEMMA MatchInvariance == Spec => []IInv
  BY InitIInv, NextIInv, PTL DEF Spec

\* Nobody is paired with itself, whatever the number of users, requests and
\* workers and however the three threads interleave (theadRoutine).
THEOREM NeverPairedWithSelfAlways == Spec => []NeverPairedWithSelf
<1>1. IInv => NeverPairedWithSelf
  BY DEF IInv
<1> QED
  BY <1>1, MatchInvariance, PTL

-----------------------------------------------------------------------------
(* The two servers together. *)

CenterTyped ==
  /\ state \in [Users -> {"kOnline", "kMatching", "kPlaying"}]
  /\ asked \in [Users -> RoomTypes \cup {Nil}]
  /\ game \in [Users -> Response \cup {Nil}]
  /\ cancels \in Nat
  /\ toMatch \in Seq(Messages)
  /\ toCenter \in Seq(Response)
  /\ \A u \in Users : game[u] # Nil <=> state[u] = "kPlaying"

\* Every game has its two players.
Whole ==
  \A u \in Users : game[u] # Nil =>
    /\ u \in {game[u].red, game[u].black}
    /\ game[game[u].red] = game[u] /\ game[game[u].black] = game[u]

\* The requests a worker has in its hands.
Hands(t) == {user1[t], user2[t]} \ {Nil}

\* A listed request waits in one place: with onMatchRequest, in its queue or
\* with its worker; and no other requests do.
Placed(r) == \/ inHand = r /\ ~pushed
             \/ r \in matchQueue[r.type] \cup Hands(r.type)

InOnePlace ==
  /\ \A t \in RoomTypes : pc[t] \notin {"back1", "back2"}
  /\ \A t \in RoomTypes : Hands(t) \cap matchQueue[t] = {}
  /\ \A t \in RoomTypes : \A r \in matchQueue[t] \cup Hands(t) :
       r.type = t /\ matchUserList[r.user] = r
  /\ inHand # Nil /\ ~pushed =>
       /\ matchUserList[inHand.user] = inHand
       /\ \A t \in RoomTypes : inHand \notin matchQueue[t] \cup Hands(t)
  /\ \A u \in Users : matchUserList[u] # Nil => Placed(matchUserList[u])

\* The match server does not have u waiting: it is not listed, or a worker
\* lingers over it after its game has been announced.
Absent(u) == matchUserList[u] = Nil \/ Lingering(u)
Awaits(u, type) == state[u] = "kMatching" /\ asked[u] = type

AsksOK ==
  \A k \in DOMAIN toMatch :
    /\ toMatch[k].kind = "ask"
    /\ Awaits(toMatch[k].user, toMatch[k].type)
    /\ Absent(toMatch[k].user) /\ ~Named(toMatch[k].user)
    /\ \A j \in DOMAIN toMatch : toMatch[j].user = toMatch[k].user => j = k

ListedOK ==
  \A u \in Users : ~Absent(u) =>
    Awaits(u, matchUserList[u].type) /\ ~Announced(u) /\ ~Named(u)

Players(a) == {a.red, a.black}

AnswersOK ==
  \A k \in DOMAIN toCenter :
    /\ toCenter[k].red # toCenter[k].black
    /\ \A u \in Players(toCenter[k]) : /\ Awaits(u, toCenter[k].type)
                                       /\ Absent(u) /\ ~Announced(u)
    /\ \A j \in DOMAIN toCenter :
         Players(toCenter[j]) \cap Players(toCenter[k]) # {} => j = k

GamesOK == \A u \in Users : game[u] # Nil => game[u].type = asked[u]

\* When no game is over before its worker has gone on, who is not waiting is
\* not listed, and who is waiting is at one of the three places.
NobodyHurries ==
  /\ \A u \in Users : state[u] = "kOnline" \/ Announced(u) => matchUserList[u] = Nil
  /\ \A u \in Users : state[u] = "kMatching" => Announced(u) \/ ~Absent(u) \/ Named(u)

WaysOK == AsksOK /\ ListedOK /\ AnswersOK /\ GamesOK /\ (~MayHurry => NobodyHurries)

MInv ==
  /\ IInv /\ CenterTyped /\ Whole
  /\ cancels = 0 => InOnePlace /\ WaysOK

-----------------------------------------------------------------------------
(* Requests are in one place as long as nobody cancels.                    *)

LEMMA HandFacts ==
  ASSUME IInv, NEW t \in RoomTypes
  PROVE  /\ Hands(t) \subseteq Requests
         /\ pc[t] # "pop" => Hands(t) = {user1[t], user2[t]}
         /\ pc[t] = "pop" => Hands(t) = {}
  BY MatchAssumption DEF IInv, TypeOK, Hands

LEMMA RequestFields ==
  ASSUME NEW r \in Requests
  PROVE  r.user \in Users /\ r.type \in RoomTypes /\ r # Nil
  BY MatchAssumption DEF Requests

\* A request in a worker's hands or in a queue is listed, so its user is not
\* absent unless the worker lingers over it.
LEMMA LingeringIsListed ==
  ASSUME IInv, InOnePlace, NEW u \in Users, Lingering(u)
  PROVE  matchUserList[u] # Nil
<1>1. PICK t \in RoomTypes : pc[t] = "erase" /\ u \in {user1[t].user, user2[t].user}
  BY DEF Lingering
<1>2. user1[t] \in Hands(t) /\ user2[t] \in Hands(t) /\ Hands(t) \subseteq Requests
  BY <1>1, HandFacts
<1> QED
  BY <1>1, <1>2, RequestFields DEF InOnePlace

LEMMA PlaceRequest ==
  ASSUME IInv, InOnePlace, NEW u \in Users, NEW type \in RoomTypes, NEW score \in Scores,
         OnMatchRequest(u, type, score)
  PROVE  /\ InOnePlace'
         /\ matchUserList[u] # Nil => UNCHANGED matchUserList
         /\ matchUserList[u] = Nil =>
              /\ matchUserList'[u] # Nil /\ matchUserList'[u].type = type
              /\ \A w \in Users \ {u} : matchUserList'[w] = matchUserList[w]
         /\ \A w \in Users : Lingering(w)' <=> Lingering(w)
<1>1. /\ UNCHANGED <<matchQueue, pushed, pc, user1, user2, conn, conns, up>>
      /\ inHand = Nil
  BY DEF OnMatchRequest, workerVars, connVars, Idle
<1>2. ~pushed /\ \A t \in RoomTypes : Hands(t)' = Hands(t)
  BY <1>1 DEF IInv, TypeOK, Hands
<1>3. \A w \in Users : Lingering(w)' <=> Lingering(w)
  BY <1>1 DEF Lingering
<1>4. CASE matchUserList[u] # Nil
  <2>1. UNCHANGED <<matchUserList, inHand>>
    BY <1>4 DEF OnMatchRequest
  <2>2. InOnePlace'
    BY <1>1, <1>2, <2>1 DEF InOnePlace, Placed, Hands
  <2> QED
    BY <1>3, <1>4, <2>1, <2>2
<1>5. CASE matchUserList[u] = Nil
  <2>1. PICK n \in FreeCopies(u) :
          LET r == [user |-> u, type |-> type, score |-> score, n |-> n]
          IN  /\ matchUserList' = [matchUserList EXCEPT ![u] = r]
              /\ inHand' = r
    BY <1>5 DEF OnMatchRequest
  <2> DEFINE r == [user |-> u, type |-> type, score |-> score, n |-> n]
  <2>2. r \in Requests /\ r.user = u /\ r.type = type /\ ~Alive(r)
    BY DEF FreeCopies, Requests
  <2>3. matchUserList' = [matchUserList EXCEPT ![u] = r] /\ inHand' = r
    BY <2>1
  <2> HIDE DEF r
  <2>4. r # Nil /\ \A t \in RoomTypes : r \notin matchQueue[t] \cup Hands(t)
    BY <2>2, RequestFields DEF Alive, Held, Hands
  <2>5. matchUserList'[u] = r /\ \A w \in Users \ {u} : matchUserList'[w] = matchUserList[w]
    BY <2>3 DEF IInv, TypeOK
  <2>6. \A t \in RoomTypes : \A q \in matchQueue[t] \cup Hands(t) :
          q.type = t /\ matchUserList'[q.user] = q
    <3> SUFFICES ASSUME NEW t \in RoomTypes, NEW q \in matchQueue[t] \cup Hands(t)
                 PROVE  q.type = t /\ matchUserList'[q.user] = q
      OBVIOUS
    <3>1. q \in Requests
      BY HandFacts DEF IInv, TypeOK
    <3>2. q.type = t /\ matchUserList[q.user] = q /\ q # Nil /\ q.user \in Users
      BY <3>1, RequestFields DEF InOnePlace
    <3> QED
      BY <1>5, <2>5, <3>2
  <2>7. \A w \in Users : matchUserList'[w] # Nil => Placed(matchUserList[w])'
    <3> SUFFICES ASSUME NEW w \in Users, matchUserList'[w] # Nil
                 PROVE  Placed(matchUserList[w])'
      OBVIOUS
    <3>1. CASE w = u
      BY <1>1, <1>2, <2>3, <2>5, <3>1 DEF Placed
    <3>2. CASE w # u
      <4>1. matchUserList[w] \in Requests /\ matchUserList'[w] = matchUserList[w]
        BY <2>5, <3>2 DEF IInv, TypeOK
      <4>2. Placed(matchUserList[w]) /\ matchUserList[w].type \in RoomTypes
        BY <4>1, RequestFields DEF InOnePlace
      <4>3. matchUserList[w] \in matchQueue[matchUserList[w].type] \cup Hands(matchUserList[w].type)
        BY <1>1, <4>1, <4>2, RequestFields DEF Placed
      <4> QED
        BY <1>1, <1>2, <4>1, <4>2, <4>3 DEF Placed
    <3> QED
      BY <3>1, <3>2
  <2>8. InOnePlace'
    BY <1>1, <1>2, <2>2, <2>3, <2>4, <2>5, <2>6, <2>7 DEF InOnePlace
  <2> QED
    BY <1>3, <1>5, <2>2, <2>4, <2>5, <2>8
<1> QED
  BY <1>4, <1>5

\* The steps of the loop and the workers that the center cannot notice.
Unnoticed ==
  \A u \in Users : /\ Absent(u)' <=> Absent(u)
                   /\ ~Absent(u) => matchUserList'[u] = matchUserList[u]
                   /\ matchUserList[u] = Nil => matchUserList'[u] = Nil

LEMMA SameListUnnoticed ==
  ASSUME UNCHANGED matchUserList,
         \A u \in Users : Lingering(u)' <=> Lingering(u)
  PROVE  Unnoticed
  BY DEF Unnoticed, Absent

LEMMA PlacePush ==
  ASSUME IInv, InOnePlace, Push
  PROVE  InOnePlace' /\ Unnoticed /\ answer' = Nil
<1>1. /\ UNCHANGED <<matchUserList, inHand, pc, user1, user2>>
      /\ answer' = Nil /\ inHand # Nil /\ ~pushed /\ pushed'
      /\ matchQueue' = [matchQueue EXCEPT ![inHand.type] = @ \cup {inHand}]
  BY DEF Push, workerVars
<1>2. inHand \in Requests /\ inHand.type \in RoomTypes /\ inHand.user \in Users
  BY <1>1, RequestFields DEF IInv, TypeOK
<1>3. \A t \in RoomTypes :
        /\ Hands(t)' = Hands(t)
        /\ matchQueue'[t] = IF t = inHand.type THEN matchQueue[t] \cup {inHand}
                                               ELSE matchQueue[t]
  BY <1>1, <1>2 DEF IInv, TypeOK, Hands
<1>4. \A u \in Users : matchUserList[u] # Nil => Placed(matchUserList[u])'
  <2> SUFFICES ASSUME NEW u \in Users, matchUserList[u] # Nil
               PROVE  Placed(matchUserList[u])'
    OBVIOUS
  <2>1. matchUserList[u] \in Requests
    BY DEF IInv, TypeOK
  <2>2. PICK r \in Requests : r = matchUserList[u] /\ r.type \in RoomTypes
    BY <2>1, RequestFields
  <2>3. Placed(r)
    BY <2>2 DEF InOnePlace
  <2>4. r \in matchQueue'[r.type] \cup Hands(r.type)'
    BY <1>3, <2>2, <2>3 DEF Placed
  <2> QED
    BY <1>1, <2>2, <2>4 DEF Placed, Hands
<1>5. InOnePlace'
  <2> DEFINE h == inHand
  <2>a. /\ \A t \in RoomTypes : h \notin matchQueue[t] /\ h \notin Hands(t)
        /\ matchUserList[h.user] = h
    BY <1>1 DEF InOnePlace
  <2>b. \A t \in RoomTypes : \A r \in matchQueue'[t] : r \in matchQueue[t] \/ (r = h /\ t = h.type)
    BY <1>3
  <2>c. \A t \in RoomTypes : Hands(t)' = Hands(t)
    BY <1>3
  <2> HIDE DEF h
  <2>1. \A t \in RoomTypes : Hands(t)' \cap matchQueue'[t] = {}
    <3>1. \A t \in RoomTypes : Hands(t) \cap matchQueue[t] = {}
      BY DEF InOnePlace
    <3> QED
      BY <2>a, <2>b, <2>c, <3>1
  <2>2. \A t \in RoomTypes : \A r \in matchQueue'[t] \cup Hands(t)' :
          r.type = t /\ matchUserList[r.user] = r
    <3>1. \A t \in RoomTypes : \A r \in matchQueue[t] \cup Hands(t) :
            r.type = t /\ matchUserList[r.user] = r
      BY DEF InOnePlace
    <3> QED
      BY <2>a, <2>b, <2>c, <3>1
  <2>3. \A t \in RoomTypes : pc[t] \notin {"back1", "back2"}
    BY DEF InOnePlace
  <2> QED
    BY <1>1, <1>4, <2>1, <2>2, <2>3 DEF InOnePlace
<1>6. \A u \in Users : Lingering(u)' <=> Lingering(u)
  BY <1>1 DEF Lingering
<1> QED
  BY <1>1, <1>5, <1>6, SameListUnnoticed

LEMMA PlaceReturn ==
  ASSUME IInv, InOnePlace, Return
  PROVE  InOnePlace' /\ Unnoticed /\ answer' = Nil
<1>1. /\ UNCHANGED <<matchUserList, matchQueue, pc, user1, user2>>
      /\ answer' = Nil /\ pushed /\ inHand' = Nil /\ ~pushed'
  BY DEF Return, workerVars
<1>2. \A t \in RoomTypes : Hands(t)' = Hands(t)
  BY <1>1 DEF Hands
<1>3. \A u \in Users : matchUserList[u] # Nil => Placed(matchUserList[u])'
  <2> SUFFICES ASSUME NEW u \in Users, matchUserList[u] # Nil
               PROVE  Placed(matchUserList[u])'
    OBVIOUS
  <2>1. PICK r : r = matchUserList[u]
    OBVIOUS
  <2>2. Placed(r)
    BY <2>1 DEF InOnePlace
  <2> QED
    BY <1>1, <2>1, <2>2 DEF Placed, Hands
<1>4. InOnePlace'
  BY <1>1, <1>2, <1>3 DEF InOnePlace
<1>5. \A u \in Users : Lingering(u)' <=> Lingering(u)
  BY <1>1 DEF Lingering
<1> QED
  BY <1>1, <1>4, <1>5, SameListUnnoticed

LEMMA PlacePop ==
  ASSUME IInv, InOnePlace, NEW t \in RoomTypes, Pop(t)
  PROVE  InOnePlace' /\ Unnoticed /\ answer' = Nil
<1>1. PICK r \in matchQueue[t], q \in matchQueue[t] :
        /\ user1' = [user1 EXCEPT ![t] = r]
        /\ user2' = [user2 EXCEPT ![t] = q]
        /\ matchQueue' = [matchQueue EXCEPT ![t] = @ \ {r, q}]
  BY DEF Pop, Lowest
<1>2. /\ UNCHANGED <<matchUserList, inHand, pushed>>
      /\ answer' = Nil /\ pc[t] = "pop" /\ pc' = [pc EXCEPT ![t] = "judge1"]
  BY DEF Pop, handlerVars
<1>3. r \in Requests /\ q \in Requests /\ r # Nil /\ q # Nil
  BY RequestFields DEF IInv, TypeOK
<1>4. \A w \in RoomTypes :
        /\ pc'[w] = IF w = t THEN "judge1" ELSE pc[w]
        /\ Hands(w)' = IF w = t THEN {r, q} ELSE Hands(w)
        /\ matchQueue'[w] = IF w = t THEN matchQueue[w] \ {r, q} ELSE matchQueue[w]
  BY <1>1, <1>2, <1>3 DEF IInv, TypeOK, Hands
<1>5. Hands(t) = {}
  BY <1>2, HandFacts
<1>6. \A w \in RoomTypes : matchQueue'[w] \cup Hands(w)' = matchQueue[w] \cup Hands(w)
  BY <1>4, <1>5
<1>7. \A u \in Users : matchUserList[u] # Nil => Placed(matchUserList[u])'
  <2> SUFFICES ASSUME NEW u \in Users, matchUserList[u] # Nil
               PROVE  Placed(matchUserList[u])'
    OBVIOUS
  <2>1. matchUserList[u] \in Requests
    BY DEF IInv, TypeOK
  <2>2. PICK p \in Requests : p = matchUserList[u] /\ p.type \in RoomTypes
    BY <2>1, RequestFields
  <2>3. Placed(p)
    BY <2>2 DEF InOnePlace
  <2>4. Placed(p)'
    BY <1>2, <1>6, <2>2, <2>3 DEF Placed
  <2> QED
    BY <1>2, <2>2, <2>4 DEF Placed, Hands
<1>8. InOnePlace'
  <2>1. \A w \in RoomTypes : Hands(w)' \cap matchQueue'[w] = {}
    BY <1>4 DEF InOnePlace
  <2>2. \A w \in RoomTypes : \A p \in matchQueue'[w] \cup Hands(w)' :
          p.type = w /\ matchUserList[p.user] = p
    BY <1>6 DEF InOnePlace
  <2>3. \A w \in RoomTypes : pc'[w] \notin {"back1", "back2"}
    BY <1>4 DEF InOnePlace
  <2>4. inHand # Nil /\ ~pushed =>
          /\ matchUserList[inHand.user] = inHand
          /\ \A w \in RoomTypes : inHand \notin matchQueue'[w] \cup Hands(w)'
    BY <1>6 DEF InOnePlace
  <2> QED
    BY <1>2, <1>7, <2>1, <2>2, <2>3, <2>4 DEF InOnePlace
<1>9. \A u \in Users : Lingering(u)' <=> Lingering(u)
  BY <1>1, <1>2, <1>4 DEF Lingering, IInv, TypeOK
<1> QED
  BY <1>2, <1>8, <1>9, SameListUnnoticed

\* Requests stay where they are.
LEMMA PlaceStays ==
  ASSUME InOnePlace, UNCHANGED <<matchUserList, matchQueue, inHand, pushed, user1, user2>>,
         \A t \in RoomTypes : pc'[t] \notin {"back1", "back2"}
  PROVE  InOnePlace'
<1>1. \A t \in RoomTypes : Hands(t)' = Hands(t)
  BY DEF Hands
<1>2. \A u \in Users : matchUserList[u] # Nil => Placed(matchUserList[u])'
  BY DEF InOnePlace, Placed, Hands
<1> QED
  BY <1>1, <1>2 DEF InOnePlace

\* Nobody cancels, so a request a worker has taken counts.
LEMMA PlaceJudge ==
  ASSUME IInv, InOnePlace, NEW t \in RoomTypes,
         \/ Judge(t, "judge1", user1, "judge2")
         \/ Judge(t, "judge2", user2, "send")
  PROVE  InOnePlace' /\ Unnoticed /\ answer' = Nil
<1>1. /\ UNCHANGED <<matchUserList, matchQueue, inHand, pushed, user1, user2>>
      /\ answer' = Nil /\ pc[t] \in {"judge1", "judge2"}
  BY DEF Judge, handlerVars
<1>2. user1[t] \in Hands(t) /\ user2[t] \in Hands(t)
  BY <1>1, HandFacts
<1>3. Counts(t, user1[t]) /\ Counts(t, user2[t])
  BY <1>2 DEF InOnePlace, Counts, Unique
<1>4. pc' = [pc EXCEPT ![t] = "judge2"] \/ pc' = [pc EXCEPT ![t] = "send"]
  BY <1>3 DEF Judge
<1>5. \A w \in RoomTypes : pc'[w] = pc[w] \/ (w = t /\ pc'[w] \in {"judge2", "send"})
  BY <1>4 DEF IInv, TypeOK
<1>6. InOnePlace'
  BY <1>1, <1>5, PlaceStays DEF InOnePlace
<1>7. \A u \in Users : Lingering(u)' <=> Lingering(u)
  BY <1>1, <1>5 DEF Lingering
<1> QED
  BY <1>1, <1>6, <1>7, SameListUnnoticed

\* What the match server's answer means for its list.
Announces(a) ==
  /\ a \in Response /\ a.red # a.black
  /\ \A u \in Players(a) : ~Absent(u) /\ Absent(u)' /\ matchUserList[u].type = a.type
  /\ \A u \in Users \ Players(a) : Absent(u)' <=> Absent(u)
  /\ UNCHANGED matchUserList

LEMMA PlaceSend ==
  ASSUME IInv, InOnePlace, NEW t \in RoomTypes, Send(t)
  PROVE  /\ InOnePlace'
         /\ \/ answer' = Nil /\ Unnoticed
            \/ answer' # Nil /\ Announces(answer')
<1>1. /\ UNCHANGED <<matchUserList, matchQueue, inHand, pushed, user1, user2>>
      /\ pc[t] = "send"
  BY DEF Send, handlerVars
<1>2. CASE conn = Nil
  <2>1. answer' = Nil /\ pc' = pc
    BY <1>2 DEF Send
  <2>2. InOnePlace'
    BY <1>1, <2>1, PlaceStays DEF InOnePlace
  <2>3. \A u \in Users : Lingering(u)' <=> Lingering(u)
    BY <1>1, <2>1 DEF Lingering
  <2> QED
    BY <1>1, <2>1, <2>2, <2>3, SameListUnnoticed
<1>3. CASE conn # Nil
  <2>1. PICK a, b : a = user1[t] /\ b = user2[t]
    OBVIOUS
  <2>2. /\ a \in Requests /\ b \in Requests /\ a.user # b.user
        /\ a \in Hands(t) /\ b \in Hands(t)
    BY <1>1, <2>1, HandFacts, HeldByWorker DEF IInv, WorkerKnows, SameUser
  <2>3. /\ a.type = t /\ b.type = t /\ a.user \in Users /\ b.user \in Users
        /\ matchUserList[a.user] = a /\ matchUserList[b.user] = b /\ a # Nil /\ b # Nil
    BY <2>2, RequestFields DEF InOnePlace
  <2>4. /\ pc' = [pc EXCEPT ![t] = "erase"]
        /\ \/ answer' = [red |-> a.user, black |-> b.user, type |-> t]
           \/ answer' = [red |-> b.user, black |-> a.user, type |-> t]
    BY <1>3, <2>1 DEF Send
  <2>5. \A w \in RoomTypes : pc'[w] = IF w = t THEN "erase" ELSE pc[w]
    BY <2>4 DEF IInv, TypeOK
  <2>6. InOnePlace'
    BY <1>1, <2>5, PlaceStays DEF InOnePlace
  <2>7. \A u \in Users : Lingering(u)' <=> Lingering(u) \/ u \in {a.user, b.user}
    BY <1>1, <2>1, <2>5 DEF Lingering
  <2>8. ~Lingering(a.user) /\ ~Lingering(b.user)
    <3> SUFFICES ASSUME NEW r \in {a, b}, Lingering(r.user) PROVE FALSE
      OBVIOUS
    <3>1. PICK w \in RoomTypes : pc[w] = "erase" /\ r.user \in {user1[w].user, user2[w].user}
      BY DEF Lingering
    <3>2. PICK q \in Hands(w) : q.user = r.user
      BY <3>1, HandFacts
    <3>3. q.type = w /\ matchUserList[q.user] = q
      BY <3>2 DEF InOnePlace
    <3> QED
      BY <1>1, <2>3, <3>1, <3>2, <3>3
  <2>9. /\ answer' \in Response /\ answer' # Nil /\ answer'.red # answer'.black
        /\ Players(answer') = {a.user, b.user} /\ answer'.type = t
    BY <2>2, <2>3, <2>4, MatchAssumption DEF Response, Players
  <2>10. Announces(answer')
    BY <1>1, <2>3, <2>7, <2>8, <2>9 DEF Announces, Absent
  <2> QED
    BY <2>6, <2>9, <2>10
<1> QED
  BY <1>2, <1>3

LEMMA PlaceErase ==
  ASSUME IInv, InOnePlace, NEW t \in RoomTypes, Erase(t)
  PROVE  InOnePlace' /\ Unnoticed /\ answer' = Nil
<1>1. PICK a, b : a = user1[t] /\ b = user2[t]
  OBVIOUS
<1>2. /\ UNCHANGED <<matchQueue, inHand, pushed>> /\ answer' = Nil /\ pc[t] = "erase"
      /\ matchUserList' = [matchUserList EXCEPT ![a.user] = Nil, ![b.user] = Nil]
      /\ user1' = [user1 EXCEPT ![t] = Nil] /\ user2' = [user2 EXCEPT ![t] = Nil]
      /\ pc' = [pc EXCEPT ![t] = "pop"]
  BY <1>1 DEF Erase, Reset, handlerVars
<1>3. /\ a \in Requests /\ b \in Requests /\ Hands(t) = {a, b}
      /\ a.user \in Users /\ b.user \in Users
  BY <1>1, <1>2, HandFacts, RequestFields
<1>4. /\ a.type = t /\ b.type = t /\ matchUserList[a.user] = a /\ matchUserList[b.user] = b
  BY <1>3 DEF InOnePlace
<1>5. \A w \in RoomTypes :
        /\ pc'[w] = IF w = t THEN "pop" ELSE pc[w]
        /\ w # t => user1'[w] = user1[w] /\ user2'[w] = user2[w]
        /\ Hands(w)' = IF w = t THEN {} ELSE Hands(w)
  BY <1>2 DEF IInv, TypeOK, Hands
<1>6. \A u \in Users : matchUserList'[u] = IF u \in {a.user, b.user} THEN Nil ELSE matchUserList[u]
  BY <1>2, <1>3 DEF IInv, TypeOK
<1>7. \A w \in RoomTypes : \A r \in matchQueue[w] \cup Hands(w)' :
        r.type = w /\ matchUserList'[r.user] = r
  <2> SUFFICES ASSUME NEW w \in RoomTypes, NEW r \in matchQueue[w] \cup Hands(w)'
               PROVE  r.type = w /\ matchUserList'[r.user] = r
    OBVIOUS
  <2>1. r \in matchQueue[w] \cup Hands(w) /\ r \in Requests
    BY <1>5, HandFacts DEF IInv, TypeOK
  <2>2. r.type = w /\ matchUserList[r.user] = r /\ r.user \in Users
    BY <2>1, RequestFields DEF InOnePlace
  <2>3. r \notin {a, b}
    <3>1. CASE w = t
      BY <1>3, <1>5, <3>1 DEF InOnePlace
    <3>2. CASE w # t
      BY <1>4, <2>2, <3>2
    <3> QED
      BY <3>1, <3>2
  <2> QED
    BY <1>4, <1>6, <2>2, <2>3
<1>8. inHand # Nil /\ ~pushed =>
        /\ matchUserList'[inHand.user] = inHand
        /\ \A w \in RoomTypes : inHand \notin matchQueue[w] \cup Hands(w)'
  <2> SUFFICES ASSUME inHand # Nil, ~pushed
               PROVE  /\ matchUserList'[inHand.user] = inHand
                      /\ \A w \in RoomTypes : inHand \notin matchQueue[w] \cup Hands(w)'
    OBVIOUS
  <2>1. inHand.user \in Users
    BY RequestFields DEF IInv, TypeOK
  <2>2. inHand \notin {a, b} /\ matchUserList[inHand.user] = inHand
    BY <1>3 DEF InOnePlace
  <2> QED
    BY <1>4, <1>5, <1>6, <2>1, <2>2 DEF InOnePlace
<1>9. \A u \in Users : matchUserList'[u] # Nil => Placed(matchUserList[u])'
  <2> SUFFICES ASSUME NEW u \in Users, matchUserList'[u] # Nil
               PROVE  Placed(matchUserList[u])'
    OBVIOUS
  <2>1. /\ matchUserList'[u] = matchUserList[u] /\ u \notin {a.user, b.user}
        /\ matchUserList[u] \in Requests
    BY <1>6 DEF IInv, TypeOK
  <2>2. PICK r \in Requests : r = matchUserList[u] /\ r.type \in RoomTypes /\ r.user = u
    BY <2>1, RequestFields DEF IInv, ListedByName
  <2>3. Placed(r) /\ r \notin Hands(t)
    BY <1>3, <2>1, <2>2 DEF InOnePlace
  <2>4. (inHand' = r /\ ~pushed') \/ r \in matchQueue'[r.type] \cup Hands(r.type)'
    BY <1>2, <1>5, <2>2, <2>3 DEF Placed
  <2> QED
    BY <2>1, <2>2, <2>4 DEF Placed, Hands
<1>10. InOnePlace'
  <2>1. \A w \in RoomTypes : Hands(w)' \cap matchQueue[w] = {}
    BY <1>5 DEF InOnePlace
  <2>2. \A w \in RoomTypes : pc'[w] \notin {"back1", "back2"}
    BY <1>5 DEF InOnePlace
  <2> QED
    BY <1>2, <1>7, <1>8, <1>9, <2>1, <2>2 DEF InOnePlace
<1>11. \A u \in Users \ {a.user, b.user} : Lingering(u)' <=> Lingering(u)
  <2> SUFFICES ASSUME NEW u \in Users \ {a.user, b.user}
               PROVE  Lingering(u)' <=> Lingering(u)
    OBVIOUS
  <2>1. \A w \in RoomTypes :
          (pc'[w] = "erase" /\ u \in {user1'[w].user, user2'[w].user})
            <=> (pc[w] = "erase" /\ u \in {user1[w].user, user2[w].user})
    BY <1>1, <1>5
  <2> QED
    BY <2>1 DEF Lingering
<1>12. \A u \in {a.user, b.user} : Absent(u) /\ Absent(u)'
  BY <1>1, <1>2, <1>3, <1>6 DEF Absent, Lingering
<1>13. Unnoticed
  BY <1>2, <1>3, <1>6, <1>11, <1>12 DEF Unnoticed, Absent
<1> QED
  BY <1>2, <1>10, <1>13

\* The loop and the workers, as the center sees them.
LEMMA PlaceThreads ==
  ASSUME IInv, InOnePlace, Push \/ Return \/ \E t \in RoomTypes : Work(t)
  PROVE  /\ InOnePlace'
         /\ \/ answer' = Nil /\ Unnoticed
            \/ answer' # Nil /\ Announces(answer')
<1>1. CASE Push \/ Return
  BY <1>1, PlacePush, PlaceReturn
<1>2. ASSUME NEW t \in RoomTypes, Work(t)
      PROVE  /\ InOnePlace'
             /\ \/ answer' = Nil /\ Unnoticed
                \/ answer' # Nil /\ Announces(answer')
  <2>1. ~Back1(t) /\ ~Back2(t)
    BY DEF InOnePlace, Back1, Back2
  <2> QED
    BY <1>2, <2>1, PlacePop, PlaceJudge, PlaceSend, PlaceErase DEF Work
<1> QED
  BY <1>1, <1>2

-----------------------------------------------------------------------------
(* Sequences.                                                              *)

LEMMA HeadTail ==
  ASSUME NEW S, NEW q \in Seq(S), q # <<>>
  PROVE  /\ Head(q) \in S /\ Head(q) = q[1] /\ 1 \in DOMAIN q
         /\ Tail(q) \in Seq(S)
         /\ \A k \in DOMAIN Tail(q) : k + 1 \in DOMAIN q /\ Tail(q)[k] = q[k + 1] /\ k + 1 # 1
         /\ \A k \in DOMAIN q : k = 1 \/ (k - 1 \in DOMAIN Tail(q) /\ Tail(q)[k - 1] = q[k])
         /\ \A j, k \in DOMAIN Tail(q) : j + 1 = k + 1 => j = k
  OBVIOUS

LEMMA Appended ==
  ASSUME NEW S, NEW q \in Seq(S), NEW x \in S
  PROVE  /\ Append(q, x) \in Seq(S)
         /\ Len(q) + 1 \in DOMAIN Append(q, x) /\ Append(q, x)[Len(q) + 1] = x
         /\ Len(q) + 1 \notin DOMAIN q
         /\ \A k \in DOMAIN q : k \in DOMAIN Append(q, x) /\ Append(q, x)[k] = q[k]
         /\ \A k \in DOMAIN Append(q, x) : k \in DOMAIN q \/ k = Len(q) + 1
  OBVIOUS

LEMMA ElementOf ==
  ASSUME NEW S, NEW q \in Seq(S), NEW k \in DOMAIN q
  PROVE  q[k] \in S
  OBVIOUS

LEMMA ResponseFields ==
  ASSUME NEW a \in Response
  PROVE  /\ a.red \in Users /\ a.black \in Users /\ a.type \in RoomTypes /\ a # Nil
         /\ Players(a) \subseteq Users
  BY MatchAssumption DEF Response, Players

LEMMA MessageFields ==
  ASSUME NEW m \in Messages
  PROVE  /\ m.user \in Users
         /\ m.kind \in {"ask", "cancel"}
         /\ m.kind = "ask" => m.type \in RoomTypes /\ m.score \in Scores
  BY DEF Messages

-----------------------------------------------------------------------------
(* The types, and games of two, whoever cancels.                           *)

LEMMA MatchServerStep ==
  ASSUME IInv, CenterTyped, MatchmakingNext
  PROVE  IInv'
<1>1. ASSUME UNCHANGED matchVars
      PROVE  IInv'
  BY <1>1, NextIInv
<1>2. CASE Deliver
  <2>1. PICK m \in Messages : \/ m.kind = "ask" /\ OnMatchRequest(m.user, m.type, m.score)
                              \/ m.kind = "cancel" /\ OnCancelMatchRequest(m.user)
    BY <1>2, HeadTail DEF Deliver, CenterTyped
  <2> QED
    BY <2>1, MessageFields, MatchRequestStep, CancelStep
<1>3. CASE RunLoop
  BY <1>3, PushReturnStep DEF RunLoop, Run
<1>4. ASSUME NEW t \in RoomTypes, RunWorker(t)
      PROVE  IInv'
  <2>1. Threads
    BY <1>4 DEF RunWorker, Run, Threads
  <2> QED
    BY <2>1, NextIInv DEF Next
<1> QED
  BY <1>1, <1>2, <1>3, <1>4 DEF MatchmakingNext, AskMatch, CancelMatch, Answer, GameOver

\* Two who are told of the same game, or nobody, change their game.
LEMMA AnswerTyped ==
  ASSUME CenterTyped, Whole, Answer
  PROVE  CenterTyped' /\ Whole'
<1>1. PICK a \in Response : a = Head(toCenter)
  BY HeadTail DEF Answer, CenterTyped
<1>2. /\ UNCHANGED <<asked, cancels, toMatch>> /\ toCenter' \in Seq(Response)
  BY HeadTail DEF Answer, CenterTyped
<1>3. CASE ~Fits(a)
  <2>1. UNCHANGED <<state, game>>
    BY <1>1, <1>3 DEF Answer
  <2> QED
    BY <1>2, <2>1 DEF CenterTyped, Whole
<1>4. CASE Fits(a)
  <2>1. /\ state' = [state EXCEPT ![a.red] = "kPlaying", ![a.black] = "kPlaying"]
        /\ game' = [game EXCEPT ![a.red] = a, ![a.black] = a]
    BY <1>1, <1>4 DEF Answer
  <2>2. a.red \in Users /\ a.black \in Users /\ a # Nil
    BY ResponseFields
  <2>3. game[a.red] = Nil /\ game[a.black] = Nil
    BY <1>4, <2>2 DEF Fits, CenterTyped
  <2>4. \A u \in Users :
          /\ game'[u] = IF u \in Players(a) THEN a ELSE game[u]
          /\ state'[u] = IF u \in Players(a) THEN "kPlaying" ELSE state[u]
    BY <2>1, <2>2 DEF CenterTyped, Players
  <2>5. CenterTyped'
    <3>1. /\ state' \in [Users -> {"kOnline", "kMatching", "kPlaying"}]
          /\ game' \in [Users -> Response \cup {Nil}]
      BY <2>1, <2>2 DEF CenterTyped
    <3> QED
      BY <1>2, <2>2, <2>4, <3>1 DEF CenterTyped
  <2>6. ASSUME NEW u \in Users, game'[u] # Nil
        PROVE  /\ u \in {game'[u].red, game'[u].black}
               /\ game'[game'[u].red] = game'[u] /\ game'[game'[u].black] = game'[u]
    <3>1. CASE u \in Players(a)
      BY <2>2, <2>4, <3>1 DEF Players
    <3>2. CASE u \notin Players(a)
      <4>1. PICK g \in Response : g = game[u] /\ game'[u] = g
        BY <2>4, <2>6, <3>2 DEF CenterTyped
      <4>2. g.red \in Users /\ g.black \in Users /\ g # Nil
        BY ResponseFields
      <4>3. game[g.red] = g /\ game[g.black] = g /\ u \in {g.red, g.black}
        BY <4>1, <4>2 DEF Whole
      <4> QED
        BY <2>3, <2>4, <4>1, <4>2, <4>3 DEF Players
    <3> QED
      BY <3>1, <3>2
  <2> QED
    BY <2>5, <2>6 DEF Whole
<1> QED
  BY <1>3, <1>4

\* The two that leave a game are the two that were in it.
LEMMA GameOverTyped ==
  ASSUME CenterTyped, Whole, NEW u \in Users, GameOver(u)
  PROVE  /\ CenterTyped' /\ Whole'
         /\ \E g \in Response :
              /\ \A w \in Players(g) : game[w] = g /\ state[w] = "kPlaying"
              /\ ~MayHurry => \A w \in Players(g) : ~Lingering(w)
              /\ \A w \in Users :
                   /\ game'[w] = IF w \in Players(g) THEN Nil ELSE game[w]
                   /\ state'[w] = IF w \in Players(g) THEN "kOnline" ELSE state[w]
<1>1. PICK g \in Response : g = game[u]
  BY DEF GameOver, CenterTyped
<1>2. g.red \in Users /\ g.black \in Users /\ g # Nil
  BY ResponseFields
<1>3. game[g.red] = g /\ game[g.black] = g /\ u \in {g.red, g.black}
  BY <1>1, <1>2 DEF Whole
<1>4. \A w \in Players(g) : game[w] = g /\ state[w] = "kPlaying" /\ w \in Users
  BY <1>2, <1>3 DEF Players, CenterTyped
<1>5. /\ state' = [w \in Users |-> IF w \in Players(g) THEN "kOnline" ELSE state[w]]
      /\ game' = [w \in Users |-> IF w \in Players(g) THEN Nil ELSE game[w]]
      /\ ~MayHurry => \A w \in Players(g) : ~Lingering(w)
      /\ UNCHANGED <<asked, cancels, toMatch, toCenter>>
  BY <1>1 DEF GameOver, Players
<1>6. CenterTyped'
  BY <1>5 DEF CenterTyped
<1>7. ASSUME NEW w \in Users, game'[w] # Nil
      PROVE  /\ w \in {game'[w].red, game'[w].black}
             /\ game'[game'[w].red] = game'[w] /\ game'[game'[w].black] = game'[w]
  <2>1. w \notin Players(g) /\ game'[w] = game[w]
    BY <1>5, <1>7
  <2>2. PICK h \in Response : h = game[w]
    BY <1>7, <2>1 DEF CenterTyped
  <2>3. h.red \in Users /\ h.black \in Users /\ h # Nil
    BY ResponseFields
  <2>4. game[h.red] = h /\ game[h.black] = h /\ w \in {h.red, h.black}
    BY <2>2, <2>3 DEF Whole
  <2>5. h.red \notin Players(g) /\ h.black \notin Players(g)
    BY <1>4, <2>1, <2>4 DEF Players
  <2> QED
    BY <1>5, <2>1, <2>2, <2>3, <2>4, <2>5
<1> QED
  BY <1>4, <1>5, <1>6, <1>7 DEF Whole

LEMMA CenterTypedStep ==
  ASSUME IInv, CenterTyped, Whole, MatchmakingNext
  PROVE  CenterTyped' /\ Whole'
<1>1. ASSUME NEW u \in Users, NEW type \in RoomTypes, NEW score \in Scores,
             AskMatch(u, type, score)
      PROVE  CenterTyped' /\ Whole'
  <2>1. PICK m \in Messages : toMatch' = Append(toMatch, m)
    BY <1>1 DEF AskMatch, Request, ToMatch, Messages
  <2>2. toMatch' \in Seq(Messages)
    BY <2>1, Appended DEF CenterTyped
  <2>3. /\ state[u] = "kOnline" /\ state' = [state EXCEPT ![u] = "kMatching"]
        /\ asked' = [asked EXCEPT ![u] = type] /\ UNCHANGED <<game, cancels, toCenter>>
    BY <1>1 DEF AskMatch
  <2> QED
    BY <2>2, <2>3 DEF CenterTyped, Whole
<1>2. ASSUME NEW u \in Users, CancelMatch(u)
      PROVE  CenterTyped' /\ Whole'
  <2>1. PICK m \in Messages : toMatch' = Append(toMatch, m)
    BY <1>2 DEF CancelMatch, ToMatch, Messages
  <2>2. toMatch' \in Seq(Messages)
    BY <2>1, Appended DEF CenterTyped
  <2>3. /\ state[u] = "kMatching" /\ state' = [state EXCEPT ![u] = "kOnline"]
        /\ cancels' = cancels + 1 /\ UNCHANGED <<game, asked, toCenter>>
    BY <1>2 DEF CancelMatch
  <2> QED
    BY <2>2, <2>3 DEF CenterTyped, Whole
<1>3. CASE Deliver
  <2>1. toMatch' \in Seq(Messages) /\ UNCHANGED <<state, asked, game, cancels, toCenter>>
    BY <1>3, HeadTail DEF Deliver, CenterTyped, centerVars
  <2> QED
    BY <2>1 DEF CenterTyped, Whole
<1>4. ASSUME RunLoop \/ \E t \in RoomTypes : RunWorker(t)
      PROVE  CenterTyped' /\ Whole'
  <2>1. /\ UNCHANGED <<state, asked, game, cancels, toMatch>>
        /\ toCenter' = IF answer' = Nil THEN toCenter ELSE Append(toCenter, answer')
    BY <1>4 DEF RunLoop, RunWorker, Run, centerVars
  <2>2. answer' \in Response \cup {Nil}
    BY <1>4, MatchServerStep DEF MatchmakingNext, IInv, TypeOK
  <2>3. toCenter' \in Seq(Response)
    BY <2>1, <2>2, Appended DEF CenterTyped
  <2> QED
    BY <2>1, <2>3 DEF CenterTyped, Whole
<1> QED
  BY <1>1, <1>2, <1>3, <1>4, AnswerTyped, GameOverTyped DEF MatchmakingNext

-----------------------------------------------------------------------------
(* The ways of those who wait, as long as nobody cancels.                  *)

LEMMA AskedUsers ==
  ASSUME CenterTyped, NEW k \in DOMAIN toMatch
  PROVE  toMatch[k] \in Messages /\ toMatch[k].user \in Users
  BY ElementOf, MessageFields DEF CenterTyped

LEMMA AnsweredUsers ==
  ASSUME CenterTyped, NEW k \in DOMAIN toCenter
  PROVE  toCenter[k] \in Response /\ Players(toCenter[k]) \subseteq Users
  BY ElementOf, ResponseFields DEF CenterTyped

\* The three places exclude each other.
LEMMA OneWay ==
  ASSUME CenterTyped, WaysOK, NEW u \in Users
  PROVE  /\ Announced(u) => state[u] = "kMatching" /\ Absent(u) /\ ~Named(u)
         /\ Named(u) => state[u] = "kMatching" /\ Absent(u) /\ ~Announced(u)
         /\ ~Absent(u) => state[u] = "kMatching" /\ ~Announced(u) /\ ~Named(u)
<1>1. Announced(u) => state[u] = "kMatching" /\ Absent(u) /\ ~Named(u)
  BY DEF WaysOK, AsksOK, Announced, Awaits
<1>2. Named(u) => state[u] = "kMatching" /\ Absent(u) /\ ~Announced(u)
  BY DEF WaysOK, AnswersOK, Named, Players, Awaits
<1> QED
  BY <1>1, <1>2 DEF WaysOK, ListedOK, Awaits

LEMMA WaysUnnoticed ==
  ASSUME CenterTyped, WaysOK, Unnoticed, UNCHANGED <<centerVars, toMatch, toCenter>>
  PROVE  WaysOK'
<1>1. UNCHANGED <<state, asked, game, toMatch, toCenter>>
  BY DEF centerVars
<1>2. \A u \in Users : /\ Announced(u)' <=> Announced(u)
                       /\ Named(u)' <=> Named(u)
  BY <1>1 DEF Announced, Named
<1>3. AsksOK'
  <2>1. ASSUME NEW k \in DOMAIN toMatch
        PROVE  /\ toMatch[k].kind = "ask"
               /\ Awaits(toMatch[k].user, toMatch[k].type)'
               /\ Absent(toMatch[k].user)' /\ ~Named(toMatch[k].user)'
               /\ \A j \in DOMAIN toMatch : toMatch[j].user = toMatch[k].user => j = k
    <3>1. PICK w \in Users : w = toMatch[k].user
      BY AskedUsers
    <3>2. /\ toMatch[k].kind = "ask" /\ Awaits(w, toMatch[k].type) /\ Absent(w) /\ ~Named(w)
          /\ \A j \in DOMAIN toMatch : toMatch[j].user = toMatch[k].user => j = k
      BY <3>1 DEF WaysOK, AsksOK
    <3>3. Absent(w)' /\ ~Named(w)' /\ Awaits(w, toMatch[k].type)'
      BY <1>1, <1>2, <3>2 DEF Unnoticed, Awaits
    <3> QED
      BY <1>1, <3>1, <3>2, <3>3
  <2> QED
    BY <1>1, <2>1 DEF AsksOK
<1>4. ListedOK'
  BY <1>1, <1>2 DEF WaysOK, ListedOK, Unnoticed, Awaits
<1>5. AnswersOK'
  <2>1. ASSUME NEW k \in DOMAIN toCenter, NEW w \in Players(toCenter[k])
        PROVE  Awaits(w, toCenter[k].type)' /\ Absent(w)' /\ ~Announced(w)'
    <3>1. w \in Users /\ Awaits(w, toCenter[k].type) /\ Absent(w) /\ ~Announced(w)
      BY <2>1, AnsweredUsers DEF WaysOK, AnswersOK
    <3> QED
      BY <1>1, <1>2, <3>1 DEF Unnoticed, Awaits
  <2> QED
    BY <1>1, <2>1 DEF WaysOK, AnswersOK, Players
<1>6. GamesOK'
  BY <1>1 DEF WaysOK, GamesOK
<1>7. NobodyHurries => NobodyHurries'
  BY <1>1, <1>2 DEF NobodyHurries, Unnoticed
<1> QED
  BY <1>3, <1>4, <1>5, <1>6, <1>7 DEF WaysOK

\* The match server answers for two it has listed.
LEMMA WaysAnnounced ==
  ASSUME CenterTyped, WaysOK, NEW a, Announces(a), UNCHANGED <<centerVars, toMatch>>,
         toCenter' = Append(toCenter, a)
  PROVE  WaysOK'
<1>1. UNCHANGED <<state, asked, game, toMatch, matchUserList>>
  BY DEF centerVars, Announces
<1> DEFINE new == Len(toCenter) + 1
<1>2. /\ a \in Response /\ Players(a) \subseteq Users
      /\ new \in DOMAIN toCenter' /\ toCenter'[new] = a /\ new \notin DOMAIN toCenter
      /\ \A k \in DOMAIN toCenter : k \in DOMAIN toCenter' /\ toCenter'[k] = toCenter[k]
      /\ \A k \in DOMAIN toCenter' : k \in DOMAIN toCenter \/ k = new
  BY Appended, ResponseFields DEF CenterTyped, Announces
<1> HIDE DEF new
<1>3. \A u \in Users : /\ Announced(u)' <=> Announced(u)
                       /\ Named(u)' <=> Named(u) \/ u \in Players(a)
  BY <1>1, <1>2 DEF Announced, Named, Players
<1>4. \A u \in Players(a) : /\ u \in Users /\ ~Absent(u) /\ Absent(u)'
                            /\ Awaits(u, a.type) /\ ~Announced(u) /\ ~Named(u)
  BY <1>2 DEF Announces, WaysOK, ListedOK
<1>5. \A u \in Users : Absent(u) => u \notin Players(a) /\ Absent(u)'
  BY DEF Announces
<1>6. AsksOK'
  <2>1. ASSUME NEW k \in DOMAIN toMatch
        PROVE  /\ Awaits(toMatch[k].user, toMatch[k].type)'
               /\ Absent(toMatch[k].user)' /\ ~Named(toMatch[k].user)'
    <3>1. PICK w \in Users : w = toMatch[k].user
      BY AskedUsers
    <3>2. Awaits(w, toMatch[k].type) /\ Absent(w) /\ ~Named(w)
      BY <3>1 DEF WaysOK, AsksOK
    <3>3. Absent(w)' /\ ~Named(w)' /\ Awaits(w, toMatch[k].type)'
      BY <1>1, <1>3, <1>5, <3>2 DEF Awaits
    <3> QED
      BY <1>1, <3>1, <3>3
  <2> QED
    BY <1>1, <2>1 DEF WaysOK, AsksOK
<1>7. ListedOK'
  <2>1. \A u \in Users : ~Absent(u)' => ~Absent(u) /\ u \notin Players(a)
    BY <1>4, <1>5
  <2> QED
    BY <1>1, <1>3, <2>1 DEF WaysOK, ListedOK, Awaits
<1>8. AnswersOK'
  <2>1. ASSUME NEW k \in DOMAIN toCenter'
        PROVE  /\ toCenter'[k].red # toCenter'[k].black
               /\ \A u \in Players(toCenter'[k]) :
                    u \in Users /\ Awaits(u, toCenter'[k].type) /\ ~Announced(u) /\ Absent(u)'
    <3>1. CASE k = new
      BY <1>2, <1>4, <3>1 DEF Announces
    <3>2. CASE k \in DOMAIN toCenter
      BY <1>2, <1>5, <3>2, AnsweredUsers DEF WaysOK, AnswersOK
    <3> QED
      BY <1>2, <3>1, <3>2
  <2>2. ASSUME NEW k \in DOMAIN toCenter', NEW j \in DOMAIN toCenter', j # k
        PROVE  Players(toCenter'[j]) \cap Players(toCenter'[k]) = {}
    <3>1. ASSUME NEW i \in DOMAIN toCenter
          PROVE  Players(toCenter[i]) \cap Players(a) = {}
      BY <1>4, <3>1, AnsweredUsers DEF WaysOK, AnswersOK
    <3>2. \A h, i \in DOMAIN toCenter :
            h # i => Players(toCenter[h]) \cap Players(toCenter[i]) = {}
      BY DEF WaysOK, AnswersOK
    <3>3. CASE k = new
      BY <1>2, <2>2, <3>1, <3>3
    <3>4. CASE j = new
      BY <1>2, <2>2, <3>1, <3>4
    <3>5. CASE k \in DOMAIN toCenter /\ j \in DOMAIN toCenter
      BY <1>2, <2>2, <3>2, <3>5
    <3> QED
      BY <1>2, <3>3, <3>4, <3>5
  <2>3. \A k \in DOMAIN toCenter' : \A u \in Players(toCenter'[k]) :
          Awaits(u, toCenter[k].type)' /\ ~Announced(u)' /\ Absent(u)'
    BY <1>1, <1>3, <2>1 DEF Awaits
  <2> QED
    BY <2>1, <2>2, <2>3 DEF AnswersOK, Players
<1>9. GamesOK'
  BY <1>1 DEF WaysOK, GamesOK
<1>10. NobodyHurries => NobodyHurries'
  <2>1. \A u \in Users : ~Absent(u) => ~Absent(u)' \/ Named(u)'
    BY <1>3 DEF Announces
  <2> QED
    BY <1>1, <1>3, <2>1 DEF NobodyHurries
<1> QED
  BY <1>6, <1>7, <1>8, <1>9, <1>10 DEF WaysOK

\* The request of a user gets to the match server.
LEMMA WaysDelivered ==
  ASSUME IInv, InOnePlace, CenterTyped, WaysOK, Deliver
  PROVE  InOnePlace' /\ WaysOK'
<1>1. /\ UNCHANGED <<state, asked, game, toCenter>> /\ toMatch # <<>>
      /\ toMatch' = Tail(toMatch)
  BY DEF Deliver, centerVars
<1>2. /\ Head(toMatch) = toMatch[1] /\ 1 \in DOMAIN toMatch
      /\ \A k \in DOMAIN toMatch' : /\ k + 1 \in DOMAIN toMatch
                                    /\ toMatch'[k] = toMatch[k + 1] /\ k + 1 # 1
      /\ \A k \in DOMAIN toMatch :
           k = 1 \/ (k - 1 \in DOMAIN toMatch' /\ toMatch'[k - 1] = toMatch[k])
      /\ \A j, k \in DOMAIN toMatch' : j + 1 = k + 1 => j = k
  BY <1>1, HeadTail DEF CenterTyped
<1>3. PICK m \in Messages : m = toMatch[1]
  BY <1>2, AskedUsers
<1>4. PICK w \in Users : w = m.user
  BY MessageFields
<1>5. /\ m.kind = "ask" /\ Awaits(w, m.type) /\ Absent(w) /\ ~Named(w) /\ Announced(w)
      /\ \A j \in DOMAIN toMatch : toMatch[j].user = w => j = 1
  BY <1>2, <1>3, <1>4 DEF WaysOK, AsksOK, Announced
<1>6. OnMatchRequest(w, m.type, m.score) /\ m.type \in RoomTypes /\ m.score \in Scores
  BY <1>2, <1>3, <1>4, <1>5, MessageFields DEF Deliver
<1>7. /\ InOnePlace'
      /\ matchUserList[w] # Nil => UNCHANGED matchUserList
      /\ matchUserList[w] = Nil =>
           /\ matchUserList'[w] # Nil /\ matchUserList'[w].type = m.type
           /\ \A u \in Users \ {w} : matchUserList'[u] = matchUserList[u]
      /\ \A u \in Users : Lingering(u)' <=> Lingering(u)
  BY <1>6, PlaceRequest
<1>8. \A u \in Users : /\ Named(u)' <=> Named(u)
                       /\ Announced(u)' <=> Announced(u) /\ u # w
  <2>1. \A u \in Users : Named(u)' <=> Named(u)
    BY <1>1 DEF Named
  <2>2. ASSUME NEW u \in Users
        PROVE  Announced(u)' <=> Announced(u) /\ u # w
    <3>1. Announced(u)' => Announced(u) /\ u # w
      BY <1>2, <1>5 DEF Announced
    <3>2. Announced(u) /\ u # w => Announced(u)'
      BY <1>2, <1>3, <1>4 DEF Announced
    <3> QED
      BY <3>1, <3>2
  <2> QED
    BY <2>1, <2>2
<1>9. \A u \in Users \ {w} : /\ Absent(u)' <=> Absent(u)
                             /\ matchUserList'[u] = matchUserList[u]
  BY <1>7 DEF Absent
<1>10. AsksOK'
  <2>1. ASSUME NEW k \in DOMAIN toMatch'
        PROVE  /\ toMatch'[k].kind = "ask" /\ toMatch'[k].user \in Users \ {w}
               /\ Awaits(toMatch'[k].user, toMatch'[k].type)
               /\ Absent(toMatch'[k].user) /\ ~Named(toMatch'[k].user)
               /\ \A j \in DOMAIN toMatch' : toMatch'[j].user = toMatch'[k].user => j = k
    BY <1>2, <1>5, AskedUsers DEF WaysOK, AsksOK
  <2>2. \A k \in DOMAIN toMatch' :
          /\ Awaits(toMatch[k].user, toMatch[k].type)'
          /\ Absent(toMatch[k].user)' /\ ~Named(toMatch[k].user)'
    <3> SUFFICES ASSUME NEW k \in DOMAIN toMatch'
                 PROVE  /\ Awaits(toMatch[k].user, toMatch[k].type)'
                        /\ Absent(toMatch[k].user)' /\ ~Named(toMatch[k].user)'
      OBVIOUS
    <3>1. PICK u \in Users \ {w} : u = toMatch'[k].user
      BY <2>1
    <3>2. Absent(u)' /\ ~Named(u)' /\ Awaits(u, toMatch'[k].type)
      BY <1>8, <1>9, <2>1, <3>1
    <3> QED
      BY <1>1, <3>1, <3>2 DEF Awaits, Absent, Named, Lingering
  <2> QED
    BY <2>1, <2>2 DEF AsksOK
<1>11. ListedOK'
  <2>1. ASSUME NEW u \in Users, ~Absent(u)'
        PROVE  Awaits(u, matchUserList'[u].type) /\ ~Announced(u)' /\ ~Named(u)'
    <3>1. CASE u = w
      <4>1. matchUserList[w] = Nil
        BY <1>5, <1>7, <2>1, <3>1 DEF Absent
      <4> QED
        BY <1>5, <1>7, <1>8, <3>1, <4>1
    <3>2. CASE u # w
      BY <1>8, <1>9, <2>1, <3>2 DEF WaysOK, ListedOK
    <3> QED
      BY <3>1, <3>2
  <2> QED
    BY <1>1, <2>1 DEF ListedOK, Awaits
<1>12. AnswersOK'
  <2>1. ASSUME NEW k \in DOMAIN toCenter, NEW u \in Players(toCenter[k])
        PROVE  Awaits(u, toCenter[k].type)' /\ Absent(u)' /\ ~Announced(u)'
    <3>1. u \in Users /\ Awaits(u, toCenter[k].type) /\ Absent(u) /\ ~Announced(u)
      BY <2>1, AnsweredUsers DEF WaysOK, AnswersOK
    <3> QED
      BY <1>1, <1>5, <1>8, <1>9, <3>1 DEF Awaits
  <2> QED
    BY <1>1, <2>1 DEF WaysOK, AnswersOK, Players
<1>13. GamesOK'
  BY <1>1 DEF WaysOK, GamesOK
<1>14. NobodyHurries => NobodyHurries'
  <2> SUFFICES ASSUME NobodyHurries PROVE NobodyHurries'
    OBVIOUS
  <2>1. matchUserList[w] = Nil
    BY <1>5 DEF NobodyHurries
  <2>2. ~Absent(w)'
    BY <1>7, <2>1, LingeringIsListed DEF Absent
  <2>3. \A u \in Users : state[u] = "kOnline" \/ Announced(u)' => matchUserList'[u] = Nil
    BY <1>5, <1>8, <1>9 DEF NobodyHurries, Awaits
  <2>4. \A u \in Users : state[u] = "kMatching" => Announced(u)' \/ ~Absent(u)' \/ Named(u)'
    BY <1>8, <1>9, <2>2 DEF NobodyHurries
  <2> QED
    BY <1>1, <2>3, <2>4 DEF NobodyHurries
<1> QED
  BY <1>7, <1>10, <1>11, <1>12, <1>13, <1>14 DEF WaysOK

\* A user asks the center for a game.
LEMMA WaysAsked ==
  ASSUME IInv, InOnePlace, CenterTyped, WaysOK,
         NEW u \in Users, NEW type \in RoomTypes, NEW score \in Scores, AskMatch(u, type, score)
  PROVE  InOnePlace' /\ WaysOK'
<1>1. /\ UNCHANGED <<matchVars, game, toCenter>> /\ state[u] = "kOnline"
      /\ state' = [state EXCEPT ![u] = "kMatching"] /\ asked' = [asked EXCEPT ![u] = type]
  BY DEF AskMatch
<1>2. PICK m \in Messages : m.user = u /\ m.kind = "ask" /\ m.type = type
                            /\ toMatch' = Append(toMatch, m)
  BY DEF AskMatch, Request, ToMatch, Messages
<1> DEFINE new == Len(toMatch) + 1
<1>3. /\ new \in DOMAIN toMatch' /\ toMatch'[new] = m /\ new \notin DOMAIN toMatch
      /\ \A k \in DOMAIN toMatch : k \in DOMAIN toMatch' /\ toMatch'[k] = toMatch[k]
      /\ \A k \in DOMAIN toMatch' : k \in DOMAIN toMatch \/ k = new
  BY <1>2, Appended DEF CenterTyped
<1> HIDE DEF new
<1>4. UNCHANGED <<matchUserList, matchQueue, inHand, pushed, pc, user1, user2>>
  BY <1>1 DEF matchVars, handlerVars, workerVars
<1>5. InOnePlace'
  BY <1>4, PlaceStays DEF InOnePlace
<1>6. \A w \in Users : /\ Lingering(w)' <=> Lingering(w)
                       /\ Absent(w)' <=> Absent(w)
                       /\ Named(w)' <=> Named(w)
                       /\ Announced(w)' <=> Announced(w) \/ w = u
  BY <1>1, <1>2, <1>3, <1>4 DEF Absent, Lingering, Named, Announced
<1>7. Absent(u) /\ ~Named(u) /\ ~Announced(u)
  BY <1>1, OneWay
<1>8. /\ state'[u] = "kMatching" /\ asked'[u] = type
      /\ \A w \in Users \ {u} : state'[w] = state[w] /\ asked'[w] = asked[w]
  BY <1>1 DEF CenterTyped
<1>9. AsksOK'
  <2>1. ASSUME NEW k \in DOMAIN toMatch'
        PROVE  /\ toMatch'[k].kind = "ask" /\ toMatch'[k].user \in Users
               /\ state'[toMatch'[k].user] = "kMatching"
               /\ asked'[toMatch'[k].user] = toMatch'[k].type
               /\ Absent(toMatch'[k].user) /\ ~Named(toMatch'[k].user)
    <3>1. CASE k = new
      BY <1>2, <1>3, <1>7, <1>8, <3>1
    <3>2. CASE k \in DOMAIN toMatch
      <4>1. PICK w \in Users : w = toMatch[k].user
        BY <3>2, AskedUsers
      <4>2. toMatch[k].kind = "ask" /\ Awaits(w, toMatch[k].type) /\ Absent(w) /\ ~Named(w)
        BY <3>2, <4>1 DEF WaysOK, AsksOK
      <4>3. w # u
        BY <1>1, <4>2 DEF Awaits
      <4> QED
        BY <1>3, <1>8, <3>2, <4>1, <4>2, <4>3 DEF Awaits
    <3> QED
      BY <1>3, <3>1, <3>2
  <2>2. ASSUME NEW j \in DOMAIN toMatch', NEW k \in DOMAIN toMatch', j # k
        PROVE  toMatch'[j].user # toMatch'[k].user
    <3>1. \A i \in DOMAIN toMatch : toMatch[i].user # u
      BY <1>7 DEF WaysOK, AsksOK, Announced
    <3>2. \A h, i \in DOMAIN toMatch : h # i => toMatch[h].user # toMatch[i].user
      BY DEF WaysOK, AsksOK
    <3> QED
      BY <1>2, <1>3, <2>2, <3>1, <3>2
  <2>3. \A k \in DOMAIN toMatch' :
          /\ Awaits(toMatch[k].user, toMatch[k].type)'
          /\ Absent(toMatch[k].user)' /\ ~Named(toMatch[k].user)'
    <3> SUFFICES ASSUME NEW k \in DOMAIN toMatch'
                 PROVE  /\ Awaits(toMatch[k].user, toMatch[k].type)'
                        /\ Absent(toMatch[k].user)' /\ ~Named(toMatch[k].user)'
      OBVIOUS
    <3>1. PICK w \in Users : w = toMatch'[k].user
      BY <2>1
    <3>2. /\ state'[w] = "kMatching" /\ asked'[w] = toMatch'[k].type
          /\ Absent(w)' /\ ~Named(w)'
      BY <1>6, <2>1, <3>1
    <3> QED
      BY <3>1, <3>2 DEF Awaits, Absent, Named, Lingering
  <2> QED
    BY <2>1, <2>2, <2>3 DEF AsksOK
<1>10. ListedOK'
  <2>1. ASSUME NEW w \in Users, ~Absent(w)'
        PROVE  /\ state'[w] = "kMatching" /\ asked'[w] = matchUserList[w].type
               /\ ~Announced(w)' /\ ~Named(w)'
    <3>1. w # u /\ ~Absent(w)
      BY <1>6, <1>7, <2>1
    <3> QED
      BY <1>6, <1>8, <3>1 DEF WaysOK, ListedOK, Awaits
  <2> QED
    BY <1>4, <2>1 DEF ListedOK, Awaits
<1>11. AnswersOK'
  <2>1. ASSUME NEW k \in DOMAIN toCenter, NEW w \in Players(toCenter[k])
        PROVE  /\ state'[w] = "kMatching" /\ asked'[w] = toCenter[k].type
               /\ Absent(w)' /\ ~Announced(w)'
    <3>1. w \in Users /\ Awaits(w, toCenter[k].type) /\ Absent(w) /\ ~Announced(w)
      BY <2>1, AnsweredUsers DEF WaysOK, AnswersOK
    <3>2. w # u
      BY <1>1, <3>1 DEF Awaits
    <3> QED
      BY <1>6, <1>8, <3>1, <3>2 DEF Awaits
  <2>2. \A k \in DOMAIN toCenter : \A w \in Players(toCenter[k]) :
          Awaits(w, toCenter[k].type)' /\ Absent(w)' /\ ~Announced(w)'
    BY <1>1, <2>1 DEF Awaits
  <2> QED
    BY <1>1, <2>2 DEF WaysOK, AnswersOK, Players
<1>12. GamesOK'
  <2>1. game[u] = Nil
    BY <1>1 DEF CenterTyped
  <2> QED
    BY <1>1, <1>8, <2>1 DEF WaysOK, GamesOK
<1>13. NobodyHurries => NobodyHurries'
  BY <1>1, <1>4, <1>6, <1>8 DEF NobodyHurries
<1> QED
  BY <1>5, <1>9, <1>10, <1>11, <1>12, <1>13 DEF WaysOK

\* Players begin or end a game: nobody who is still on its way is among them.
LEMMA WaysPlayed ==
  ASSUME IInv, InOnePlace, CenterTyped, WaysOK, UNCHANGED <<matchVars, asked, toMatch>>,
         NEW P \in SUBSET Users,
         \A w \in Users \ P : state'[w] = state[w] /\ game'[w] = game[w],
         \A w \in Users : Named(w)' <=> Named(w) /\ w \notin P,
         \A w \in P : ~Announced(w) /\ Absent(w),
         \A w \in P : game'[w] # Nil => game'[w].type = asked[w],
         \A w \in P : state'[w] # "kMatching",
         ~MayHurry => \A w \in P : state'[w] = "kOnline" => matchUserList[w] = Nil,
         AnswersOK'
  PROVE  InOnePlace' /\ WaysOK'
<1>1. UNCHANGED <<matchUserList, matchQueue, inHand, pushed, pc, user1, user2>>
  BY DEF matchVars, handlerVars, workerVars
<1>2. InOnePlace'
  BY <1>1, PlaceStays DEF InOnePlace
<1>3. \A w \in Users : /\ Absent(w)' <=> Absent(w)
                       /\ Announced(w)' <=> Announced(w)
  BY <1>1 DEF Absent, Lingering, Announced
<1>4. AsksOK'
  <2>1. ASSUME NEW k \in DOMAIN toMatch
        PROVE  /\ Awaits(toMatch[k].user, toMatch[k].type)'
               /\ Absent(toMatch[k].user)' /\ ~Named(toMatch[k].user)'
    <3>1. PICK w \in Users : w = toMatch[k].user
      BY AskedUsers
    <3>2. Awaits(w, toMatch[k].type) /\ Absent(w) /\ ~Named(w) /\ Announced(w)
      BY <3>1 DEF WaysOK, AsksOK, Announced
    <3>3. Absent(w)' /\ ~Named(w)' /\ Awaits(w, toMatch[k].type)'
      BY <1>3, <3>2 DEF Awaits
    <3> QED
      BY <3>1, <3>3
  <2> QED
    BY <2>1 DEF WaysOK, AsksOK
<1>5. ListedOK'
  BY <1>1, <1>3 DEF WaysOK, ListedOK, Awaits
<1>6. GamesOK'
  BY DEF WaysOK, GamesOK
<1>7. ~MayHurry => NobodyHurries'
  <2> SUFFICES ASSUME ~MayHurry PROVE NobodyHurries'
    OBVIOUS
  <2>1. \A w \in Users : state'[w] = "kOnline" \/ Announced(w)' => matchUserList'[w] = Nil
    BY <1>1, <1>3 DEF WaysOK, NobodyHurries
  <2>2. \A w \in Users : state'[w] = "kMatching" => Announced(w)' \/ ~Absent(w)' \/ Named(w)'
    BY <1>3 DEF WaysOK, NobodyHurries
  <2> QED
    BY <2>1, <2>2 DEF NobodyHurries
<1> QED
  BY <1>2, <1>4, <1>5, <1>6, <1>7 DEF WaysOK

LEMMA WaysAnswered ==
  ASSUME IInv, InOnePlace, CenterTyped, WaysOK, Answer
  PROVE  InOnePlace' /\ WaysOK'
<1>1. /\ UNCHANGED <<matchVars, asked, toMatch>> /\ toCenter # <<>>
      /\ toCenter' = Tail(toCenter)
  BY DEF Answer
<1>2. /\ Head(toCenter) = toCenter[1] /\ 1 \in DOMAIN toCenter
      /\ \A k \in DOMAIN toCenter' : /\ k + 1 \in DOMAIN toCenter
                                     /\ toCenter'[k] = toCenter[k + 1] /\ k + 1 # 1
      /\ \A k \in DOMAIN toCenter :
           k = 1 \/ (k - 1 \in DOMAIN toCenter' /\ toCenter'[k - 1] = toCenter[k])
      /\ \A j, k \in DOMAIN toCenter' : j + 1 = k + 1 => j = k
  BY <1>1, HeadTail DEF CenterTyped
<1>3. PICK a \in Response : a = toCenter[1]
  BY <1>2, AnsweredUsers
<1>4. /\ a.red \in Users /\ a.black \in Users /\ a # Nil /\ Players(a) \subseteq Users
      /\ a.red \in Players(a) /\ a.black \in Players(a)
  BY ResponseFields DEF Players
<1>5. /\ \A w \in Players(a) : Awaits(w, a.type) /\ Absent(w) /\ ~Announced(w)
      /\ \A k \in DOMAIN toCenter : k # 1 => Players(toCenter[k]) \cap Players(a) = {}
  BY <1>2, <1>3 DEF WaysOK, AnswersOK
<1>6. Fits(a)
  BY <1>4, <1>5 DEF Fits, Awaits
<1>7. /\ state' = [state EXCEPT ![a.red] = "kPlaying", ![a.black] = "kPlaying"]
      /\ game' = [game EXCEPT ![a.red] = a, ![a.black] = a]
  BY <1>2, <1>3, <1>6 DEF Answer
<1>8. /\ \A w \in Users \ Players(a) : state'[w] = state[w] /\ game'[w] = game[w]
      /\ \A w \in Players(a) : state'[w] = "kPlaying" /\ game'[w] = a
  BY <1>4, <1>7 DEF CenterTyped, Players
<1>9. \A w \in Users : Named(w)' <=> Named(w) /\ w \notin Players(a)
  <2> SUFFICES ASSUME NEW w \in Users
               PROVE  Named(w)' <=> Named(w) /\ w \notin Players(a)
    OBVIOUS
  <2>1. Named(w)' => Named(w) /\ w \notin Players(a)
    BY <1>2, <1>5 DEF Named, Players
  <2>2. Named(w) /\ w \notin Players(a) => Named(w)'
    BY <1>2, <1>3 DEF Named, Players
  <2> QED
    BY <2>1, <2>2
<1>10. UNCHANGED <<matchUserList, pc, user1, user2>>
  BY <1>1 DEF matchVars, workerVars
<1>11. AnswersOK'
  <2>1. ASSUME NEW k \in DOMAIN toCenter'
        PROVE  /\ toCenter'[k].red # toCenter'[k].black
               /\ \A w \in Players(toCenter'[k]) :
                    /\ w \in Users \ Players(a)
                    /\ Awaits(w, toCenter'[k].type) /\ ~Announced(w) /\ Absent(w)
               /\ \A j \in DOMAIN toCenter' :
                    Players(toCenter'[j]) \cap Players(toCenter'[k]) # {} => j = k
    <3>1. PICK i \in DOMAIN toCenter : i = k + 1 /\ i # 1 /\ toCenter'[k] = toCenter[i]
      BY <1>2
    <3>2. /\ toCenter[i].red # toCenter[i].black
          /\ \A w \in Players(toCenter[i]) :
               Awaits(w, toCenter[i].type) /\ ~Announced(w) /\ Absent(w)
          /\ \A h \in DOMAIN toCenter :
               Players(toCenter[h]) \cap Players(toCenter[i]) # {} => h = i
      BY DEF WaysOK, AnswersOK
    <3>3. Players(toCenter[i]) \subseteq Users /\ Players(toCenter[i]) \cap Players(a) = {}
      BY <1>5, <3>1, AnsweredUsers
    <3>4. \A j \in DOMAIN toCenter' :
            Players(toCenter'[j]) \cap Players(toCenter'[k]) # {} => j = k
      BY <1>2, <3>1, <3>2
    <3> QED
      BY <3>1, <3>2, <3>3, <3>4
  <2>2. \A k \in DOMAIN toCenter' : \A w \in Players(toCenter'[k]) :
          Awaits(w, toCenter[k].type)' /\ ~Announced(w)' /\ Absent(w)'
    BY <1>1, <1>8, <1>10, <2>1 DEF Awaits, Announced, Absent, Lingering
  <2> QED
    BY <2>1, <2>2 DEF AnswersOK, Players
<1> QED
  BY <1>1, <1>4, <1>5, <1>8, <1>9, <1>11, WaysPlayed DEF Awaits

LEMMA WaysGameOver ==
  ASSUME IInv, InOnePlace, CenterTyped, Whole, WaysOK, NEW u \in Users, GameOver(u)
  PROVE  InOnePlace' /\ WaysOK'
<1>1. UNCHANGED <<matchVars, asked, cancels, toMatch, toCenter>>
  BY DEF GameOver
<1>2. PICK g \in Response :
        /\ \A w \in Players(g) : game[w] = g /\ state[w] = "kPlaying"
        /\ ~MayHurry => \A w \in Players(g) : ~Lingering(w)
        /\ \A w \in Users :
             /\ game'[w] = IF w \in Players(g) THEN Nil ELSE game[w]
             /\ state'[w] = IF w \in Players(g) THEN "kOnline" ELSE state[w]
  BY GameOverTyped
<1>3. Players(g) \subseteq Users
  BY ResponseFields
<1>4. \A w \in Players(g) : ~Announced(w) /\ ~Named(w) /\ Absent(w)
  BY <1>2, <1>3, OneWay
<1>5. \A w \in Users : Named(w)' <=> Named(w) /\ w \notin Players(g)
  BY <1>1, <1>4 DEF Named
<1>6. UNCHANGED <<matchUserList, pc, user1, user2>>
  BY <1>1 DEF matchVars, workerVars
<1>7. AnswersOK'
  <2>1. ASSUME NEW k \in DOMAIN toCenter, NEW w \in Players(toCenter[k])
        PROVE  /\ state'[w] = "kMatching" /\ asked[w] = toCenter[k].type
               /\ Absent(w) /\ ~Announced(w)
    <3>1. w \in Users /\ Awaits(w, toCenter[k].type) /\ Absent(w) /\ ~Announced(w)
      BY <2>1, AnsweredUsers DEF WaysOK, AnswersOK
    <3> QED
      BY <1>2, <3>1 DEF Awaits
  <2>2. \A k \in DOMAIN toCenter : \A w \in Players(toCenter[k]) :
          Awaits(w, toCenter[k].type)' /\ Absent(w)' /\ ~Announced(w)'
    BY <1>1, <1>6, <2>1 DEF Awaits, Announced, Absent, Lingering
  <2> QED
    BY <1>1, <2>2 DEF WaysOK, AnswersOK, Players
<1>8. ~MayHurry => \A w \in Players(g) : matchUserList[w] = Nil
  BY <1>2, <1>4 DEF Absent
<1> QED
  BY <1>1, <1>2, <1>3, <1>4, <1>5, <1>7, <1>8, WaysPlayed DEF WaysOK

LEMMA WaysThreads ==
  ASSUME IInv, InOnePlace, CenterTyped, WaysOK, RunLoop \/ \E t \in RoomTypes : RunWorker(t)
  PROVE  InOnePlace' /\ WaysOK'
<1>1. /\ UNCHANGED <<centerVars, toMatch>>
      /\ toCenter' = IF answer' = Nil THEN toCenter ELSE Append(toCenter, answer')
      /\ Push \/ Return \/ \E t \in RoomTypes : Work(t)
  BY DEF RunLoop, RunWorker, Run
<1>2. /\ InOnePlace'
      /\ \/ answer' = Nil /\ Unnoticed
         \/ answer' # Nil /\ Announces(answer')
  BY <1>1, PlaceThreads
<1>3. CASE answer' = Nil /\ Unnoticed
  BY <1>1, <1>2, <1>3, WaysUnnoticed
<1>4. CASE answer' # Nil /\ Announces(answer')
  <2>1. PICK a : a = answer'
    OBVIOUS
  <2> QED
    BY <1>1, <1>2, <1>4, WaysAnnounced
<1> QED
  BY <1>2, <1>3, <1>4

-----------------------------------------------------------------------------
(* The theorems.                                                           *)

LEMMA MatchmakingInitMInv == MatchmakingInit => MInv
<1> SUFFICES ASSUME MatchmakingInit PROVE MInv
  OBVIOUS
<1>1. TypeOK
  BY DEF MatchmakingInit, MatchInit, Link, TypeOK, Pcs
<1>2. IInv
  BY <1>1 DEF MatchmakingInit, MatchInit, IInv, ListedByName, HandIsListed, WorkerKnows,
              NeverPairedWithSelf
<1>3. CenterTyped /\ Whole
  BY DEF MatchmakingInit, CenterTyped, Whole
<1>4. InOnePlace
  BY DEF MatchmakingInit, MatchInit, InOnePlace, Hands
<1>5. WaysOK
  BY DEF MatchmakingInit, MatchInit, WaysOK, AsksOK, ListedOK, AnswersOK, GamesOK,
         NobodyHurries, Absent, Announced
<1> QED
  BY <1>2, <1>3, <1>4, <1>5 DEF MInv

LEMMA MatchmakingNextMInv == MInv /\ [MatchmakingNext]_vars => MInv'
<1> SUFFICES ASSUME MInv, [MatchmakingNext]_vars PROVE MInv'
  OBVIOUS
<1>1. CASE UNCHANGED vars
  <2>1. UNCHANGED <<matchVars, centerVars, toMatch, toCenter>>
    BY <1>1 DEF vars
  <2>2. /\ UNCHANGED <<matchUserList, matchQueue, inHand, pushed, pc, user1, user2>>
        /\ UNCHANGED <<state, asked, game, cancels, toMatch, toCenter>>
    BY <2>1 DEF matchVars, handlerVars, workerVars, centerVars
  <2>3. IInv'
    BY <2>1, NextIInv DEF MInv
  <2>4. CenterTyped' /\ Whole'
    BY <2>2 DEF MInv, CenterTyped, Whole
  <2>5. InOnePlace => InOnePlace'
    BY <2>2, PlaceStays DEF InOnePlace
  <2>6. Unnoticed
    BY <2>2 DEF Unnoticed, Absent, Lingering
  <2> QED
    BY <2>1, <2>2, <2>3, <2>4, <2>5, <2>6, WaysUnnoticed DEF MInv
<1>2. CASE MatchmakingNext
  <2>1. IInv' /\ CenterTyped' /\ Whole'
    BY <1>2, MatchServerStep, CenterTypedStep DEF MInv
  <2>2. ASSUME cancels' = 0
        PROVE  InOnePlace' /\ WaysOK'
    <3>1. ASSUME NEW u \in Users, CancelMatch(u)
          PROVE  FALSE
      BY <2>2, <3>1 DEF CancelMatch, MInv, CenterTyped
    <3>2. cancels = 0
      BY <1>2, <2>2, <3>1
         DEF MatchmakingNext, AskMatch, GameOver, Answer, Deliver, RunLoop, RunWorker, Run,
             centerVars
    <3>3. IInv /\ InOnePlace /\ CenterTyped /\ Whole /\ WaysOK
      BY <3>2 DEF MInv
    <3>4. ASSUME NEW u \in Users, NEW type \in RoomTypes, NEW score \in Scores,
                 AskMatch(u, type, score)
          PROVE  InOnePlace' /\ WaysOK'
      BY <3>3, <3>4, WaysAsked
    <3>5. ASSUME NEW u \in Users, GameOver(u)
          PROVE  InOnePlace' /\ WaysOK'
      BY <3>3, <3>5, WaysGameOver
    <3>6. CASE Answer
      BY <3>3, <3>6, WaysAnswered
    <3>7. CASE Deliver
      BY <3>3, <3>7, WaysDelivered
    <3>8. CASE RunLoop \/ \E t \in RoomTypes : RunWorker(t)
      BY <3>3, <3>8, WaysThreads
    <3> QED
      BY <1>2, <3>1, <3>4, <3>5, <3>6, <3>7, <3>8 DEF MatchmakingNext
  <2> QED
    BY <2>1, <2>2 DEF MInv
<1> QED
  BY <1>1, <1>2

LEMMA MatchmakingInvariance == MatchmakingSpec => []MInv
  BY MatchmakingInitMInv, MatchmakingNextMInv, PTL DEF MatchmakingSpec

\* Every game has its two players, each in that game and no other, whatever is
\* under way and whoever cancels; of the pattern both have asked for, as long
\* as nobody does (onMatchBackendResponse).
THEOREM GamesAreWholeAlways == MatchmakingSpec => []GamesAreWhole
<1>1. MInv => GamesAreWhole
  BY DEF MInv, Whole, WaysOK, GamesOK, GamesAreWhole
<1> QED
  BY <1>1, MatchmakingInvariance, PTL

\* As long as nobody cancels, and no game is over before the worker that made it
\* goes on, the two servers agree on who waits, however their requests and
\* answers cross (onMatchRequest of both, theadRoutine, onMatchBackendResponse).
THEOREM BothKnowWhoWaitsAlways ==
  ASSUME ~MayHurry
  PROVE  MatchmakingSpec => []BothKnowWhoWaits
<1>1. MInv => BothKnowWhoWaits
  <2> SUFFICES ASSUME MInv, cancels = 0
               PROVE  /\ NobodyIsForgotten
                      /\ \A u \in Users : matchUserList[u] # Nil =>
                                            state[u] = "kMatching" \/ Lingering(u)
    BY DEF BothKnowWhoWaits
  <2>1. InOnePlace /\ ListedOK /\ NobodyHurries /\ IInv
    BY DEF MInv, WaysOK
  <2>2. \A u \in Users : matchUserList[u] # Nil => state[u] = "kMatching" \/ Lingering(u)
    BY <2>1 DEF ListedOK, Absent, Awaits
  <2>3. ASSUME NEW u \in Users, ~Absent(u)
        PROVE  Known(u)
    <3>1. PICK r \in Requests : r = matchUserList[u] /\ r.type \in RoomTypes
      BY <2>1, <2>3, RequestFields DEF Absent, IInv, TypeOK
    <3>2. Placed(r)
      BY <2>1, <2>3, <3>1 DEF InOnePlace, Absent
    <3>3. Held(r)
      BY <3>1, <3>2 DEF Placed, Held, Hands
    <3> QED
      BY <2>3, <3>1, <3>3 DEF Absent, Known
  <2> QED
    BY <2>1, <2>2, <2>3 DEF NobodyHurries, NobodyIsForgotten, StillCounts
<1> QED
  BY <1>1, MatchmakingInvariance, PTL
=============================================================================
