----------------------------- MODULE MatchServer -----------------------------
(***************************************************************************)
(* The match server (match_server.cc): three threads.  The event loop      *)
(* serves requests and connections; one worker for each pattern takes the  *)
(* two lowest scores out of its queue and pairs them.                      *)
(*                                                                         *)
(* A request is a shared object.  It is in matchUserList_ while it counts, *)
(* and cancelling only takes it out of there: what is left in a queue is   *)
(* found out by its reference count (shared_ptr::unique) when it comes up. *)
(* Each lock is held for one step, and so is each look at a count.         *)
(*                                                                         *)
(* UniqueNever, ThreeWait and EraseFirst are the definitions that follow   *)
(* them with a plausible mistake; no action uses them.                     *)
(***************************************************************************)
EXTENDS Integers, FiniteSets

CONSTANTS
  Users,      \* usernames
  RoomTypes,  \* QUICKLY_PATTERN, SLOWLY_PATTERN
  Scores,     \* ratings a request may carry
  Copies,     \* bound on the requests of one user in memory at a time: 1..n
  Conns,      \* connections made to the server
  Nil         \* null pointer, absent map entry

\* A UserMatchInfo; n tells two of one user that are alive together apart.
Requests == [user : Users, type : RoomTypes, score : Scores, n : Copies]
Response == [red : Users, black : Users, type : RoomTypes]
Pcs == {"pop", "judge1", "judge2", "send", "erase", "back1", "back2"}

ASSUME MatchAssumption ==
  /\ Scores \subseteq Int /\ Copies \subseteq Nat
  /\ Nil \notin Requests /\ Nil \notin Response /\ Nil \notin Conns

VARIABLES
  matchUserList,  \* username -> the request that counts
  matchQueue,     \* of each pattern: the requests in its priority queue
  inHand,         \* the request onMatchRequest holds until it returns
  pushed,         \* and whether it has put it in the queue
  pc, user1, user2,  \* of each worker
  conn,           \* conn_
  conns,          \* the connections that are established
  up,             \* the process has not crashed
  answer          \* what the last step sent

handlerVars == <<inHand, pushed>>
workerVars == <<pc, user1, user2>>
connVars == <<conn, conns>>
matchVars == <<matchUserList, matchQueue, handlerVars, workerVars, connVars, up, answer>>

TypeOK ==
  /\ matchUserList \in [Users -> Requests \cup {Nil}]
  /\ matchQueue \in [RoomTypes -> SUBSET Requests]
  /\ inHand \in Requests \cup {Nil}
  /\ pushed \in BOOLEAN
  /\ pc \in [RoomTypes -> Pcs]
  /\ user1 \in [RoomTypes -> Requests \cup {Nil}]
  /\ user2 \in [RoomTypes -> Requests \cup {Nil}]
  /\ conn \in Conns \cup {Nil}
  /\ conns \subseteq Conns
  /\ up \in BOOLEAN
  /\ answer \in Response \cup {Nil}
  /\ pushed => inHand # Nil
  /\ \A t \in RoomTypes : /\ pc[t] = "pop" <=> user1[t] = Nil
                          /\ pc[t] = "pop" <=> user2[t] = Nil

MatchInit ==
  /\ matchUserList = [u \in Users |-> Nil]
  /\ matchQueue = [t \in RoomTypes |-> {}]
  /\ inHand = Nil /\ pushed = FALSE
  /\ pc = [t \in RoomTypes |-> "pop"]
  /\ user1 = [t \in RoomTypes |-> Nil]
  /\ user2 = [t \in RoomTypes |-> Nil]
  /\ up = TRUE
  /\ answer = Nil

-----------------------------------------------------------------------------
(* The event loop.                                                         *)

\* The loop is free: the last handler has returned.
Idle == up /\ inHand = Nil

\* A second connection is refused, but closing it clears conn_ all the same.
OnConnected(c) ==
  /\ Idle /\ c \notin conns
  /\ conns' = conns \cup {c}
  /\ conn' = IF conn = Nil THEN c ELSE conn
  /\ answer' = Nil
  /\ UNCHANGED <<matchUserList, matchQueue, handlerVars, workerVars, up>>

OnClosed(c) ==
  /\ Idle /\ c \in conns
  /\ conns' = conns \ {c}
  /\ conn' = Nil
  /\ answer' = Nil
  /\ UNCHANGED <<matchUserList, matchQueue, handlerVars, workerVars, up>>

\* On the way to a worker or in its hands; in memory at all.
Held(r) == \/ inHand = r
           \/ \E t \in RoomTypes : r \in matchQueue[t] \cup {user1[t], user2[t]}
Alive(r) == Held(r) \/ matchUserList[r.user] = r

FreeCopies(u) == {n \in Copies : \A r \in Requests : r.user = u /\ r.n = n => ~Alive(r)}

\* onMatchRequest under mut_: a user that is listed already is ignored.
OnMatchRequest(u, type, score) ==
  /\ Idle
  /\ answer' = Nil
  /\ IF matchUserList[u] = Nil
       THEN \E n \in FreeCopies(u) :
              LET r == [user |-> u, type |-> type, score |-> score, n |-> n]
              IN  /\ \A m \in FreeCopies(u) : n <= m
                  /\ matchUserList' = [matchUserList EXCEPT ![u] = r]
                  /\ inHand' = r
       ELSE UNCHANGED <<matchUserList, inHand>>
  /\ UNCHANGED <<matchQueue, pushed, workerVars, connVars, up>>

\* SafeMatchQueue::push.
Push ==
  /\ up /\ inHand # Nil /\ ~pushed
  /\ matchQueue' = [matchQueue EXCEPT ![inHand.type] = @ \cup {inHand}]
  /\ pushed' = TRUE
  /\ answer' = Nil
  /\ UNCHANGED <<matchUserList, inHand, workerVars, connVars, up>>

\* onMatchRequest returns and its local user is released.
Return ==
  /\ up /\ pushed
  /\ inHand' = Nil /\ pushed' = FALSE
  /\ answer' = Nil
  /\ UNCHANGED <<matchUserList, matchQueue, workerVars, connVars, up>>

OnCancelMatchRequest(u) ==
  /\ Idle
  /\ matchUserList' = [matchUserList EXCEPT ![u] = Nil]
  /\ answer' = Nil
  /\ UNCHANGED <<matchQueue, handlerVars, workerVars, connVars, up>>

-----------------------------------------------------------------------------
(* A worker (theadRoutine).                                                *)

\* shared_ptr::unique, for a request the worker has popped.
UniqueNever(r) == FALSE
Unique(r) == matchUserList[r.user] # r /\ inHand # r

\* It is to be paired here.
Counts(t, r) == ~Unique(r) /\ r.type = t

Lowest(s) == {r \in s : \A q \in s : r.score <= q.score}

\* What SafeMatchQueue::pop waits for.
ThreeWait(t) == Cardinality(matchQueue[t]) > 2
TwoWait(t) == Cardinality(matchQueue[t]) >= 2

Pop(t) ==
  /\ up /\ pc[t] = "pop"
  /\ TwoWait(t)
  /\ \E r \in Lowest(matchQueue[t]) : \E q \in Lowest(matchQueue[t] \ {r}) :
       /\ user1' = [user1 EXCEPT ![t] = r]
       /\ user2' = [user2 EXCEPT ![t] = q]
       /\ matchQueue' = [matchQueue EXCEPT ![t] = @ \ {r, q}]
  /\ pc' = [pc EXCEPT ![t] = "judge1"]
  /\ answer' = Nil
  /\ UNCHANGED <<matchUserList, handlerVars, connVars, up>>

\* The two conditions of the if, one at a time.
Judge(t, at, user, next) ==
  /\ up /\ pc[t] = at
  /\ pc' = [pc EXCEPT ![t] = IF Counts(t, user[t]) THEN next ELSE "back1"]
  /\ answer' = Nil
  /\ UNCHANGED <<matchUserList, matchQueue, handlerVars, user1, user2, connVars, up>>

\* C++ integer division, and the rule for who plays red.
DivTrunc(a, b) == IF a < 0 THEN -((-a) \div b) ELSE a \div b
FirstIsRed(r, q) == (r.score - DivTrunc(q.score, 10)) % 2 = 0

Send(t) ==
  LET first == FirstIsRed(user1[t], user2[t])
  IN  /\ up /\ pc[t] = "send"
      /\ IF conn # Nil
           THEN /\ answer' = [red   |-> IF first THEN user1[t].user ELSE user2[t].user,
                              black |-> IF first THEN user2[t].user ELSE user1[t].user,
                              type  |-> t]
                /\ pc' = [pc EXCEPT ![t] = "erase"]
                /\ UNCHANGED up
           ELSE answer' = Nil /\ up' = FALSE /\ UNCHANGED pc   \* conn_ is null
      /\ UNCHANGED <<matchUserList, matchQueue, handlerVars, user1, user2, connVars>>

\* user1.reset() and user2.reset().
Reset(t) ==
  /\ user1' = [user1 EXCEPT ![t] = Nil]
  /\ user2' = [user2 EXCEPT ![t] = Nil]
  /\ pc' = [pc EXCEPT ![t] = "pop"]

\* By name, whatever request the name stands for by now.
EraseFirst(t) ==
  /\ up /\ pc[t] = "erase"
  /\ matchUserList' = [matchUserList EXCEPT ![user1[t].user] = Nil]
  /\ Reset(t)
  /\ answer' = Nil
  /\ UNCHANGED <<matchQueue, handlerVars, connVars, up>>

Erase(t) ==
  /\ up /\ pc[t] = "erase"
  /\ matchUserList' = [matchUserList EXCEPT ![user1[t].user] = Nil, ![user2[t].user] = Nil]
  /\ Reset(t)
  /\ answer' = Nil
  /\ UNCHANGED <<matchQueue, handlerVars, connVars, up>>

\* Back into the queue with whichever still counts.
PushBack(t, r) ==
  matchQueue' = [matchQueue EXCEPT ![t] = IF Counts(t, r) THEN @ \cup {r} ELSE @]

Back1(t) ==
  /\ up /\ pc[t] = "back1"
  /\ PushBack(t, user1[t])
  /\ pc' = [pc EXCEPT ![t] = "back2"]
  /\ answer' = Nil
  /\ UNCHANGED <<matchUserList, handlerVars, user1, user2, connVars, up>>

Back2(t) ==
  /\ up /\ pc[t] = "back2"
  /\ PushBack(t, user2[t])
  /\ Reset(t)
  /\ answer' = Nil
  /\ UNCHANGED <<matchUserList, handlerVars, connVars, up>>

Work(t) ==
  \/ Pop(t) \/ Judge(t, "judge1", user1, "judge2") \/ Judge(t, "judge2", user2, "send")
  \/ Send(t) \/ Erase(t) \/ Back1(t) \/ Back2(t)

Threads == Push \/ Return \/ \E t \in RoomTypes : Work(t)

-----------------------------------------------------------------------------
(* The server on its own: any request may come at any time.                *)

Init == MatchInit /\ conn = Nil /\ conns = {}

Next ==
  \/ Threads
  \/ \E c \in Conns : OnConnected(c) \/ OnClosed(c)
  \/ \E u \in Users, t \in RoomTypes, s \in Scores : OnMatchRequest(u, t, s)
  \/ \E u \in Users : OnCancelMatchRequest(u)

Spec == Init /\ [][Next]_matchVars

\* The threads are scheduled.
Fairness ==
  /\ WF_matchVars(Push) /\ WF_matchVars(Return)
  /\ \A t \in RoomTypes : WF_matchVars(Work(t))

FairSpec == Spec /\ Fairness

-----------------------------------------------------------------------------
(* Properties.                                                             *)

\* A user that cancels and asks again has two requests in the queue at once.
\* Nobody is paired with itself all the same: one of the two does not count
\* (theadRoutine, the test of both reference counts).
NeverPairedWithSelf == answer # Nil => answer.red # answer.black

\* A worker gets somewhere: once nobody cancels any more, whenever two users
\* wait for a game of its pattern it pairs some two users.  Requests that no
\* longer count do not hold it up, however many there are
\* (SafeMatchQueue::pop, theadRoutine).  As long as others keep asking and
\* cancelling, two that wait may be put back time and again.
Waits(u, t) == matchUserList[u] # Nil /\ matchUserList[u].type = t

WorkerGoesOn ==
  <>[][\A u \in Users : ~OnCancelMatchRequest(u)]_matchVars
    => \A t \in RoomTypes, u, w \in Users :
         u # w => (Waits(u, t) /\ Waits(w, t)
                     ~> \/ ~Waits(u, t) \/ ~Waits(w, t) \/ ~up
                        \/ answer # Nil /\ answer.type = t)
=============================================================================
