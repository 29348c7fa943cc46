----------------------------- MODULE FrontProofs -----------------------------
(***************************************************************************)
(* Theorems about the connection server.                                   *)
(*                                                                         *)
(* Its pool of ids, Front, for any browsers, any number of ids, any word   *)
(* that is wide enough to keep the ids apart, and any number of messages   *)
(* under way.  Until the connection to the center breaks, the queue of ids *)
(* and the map of clients are two halves of one thing (PoolInv); a message *)
(* under way has the id its browser still holds, or the Disconnected that  *)
(* gave the id back is behind it (MessagesInv).                            *)
(*                                                                         *)
(* Its streams, Wire, for any browsers, any number of messages and any cut *)
(* into reads.  A buffer and the stream behind it carry whole messages     *)
(* (WireKept).  What a side has read, with what is still on its way, is    *)
(* what the other side has said, in its order (UpRead, DownRead); and what *)
(* may be said with the classes of Schema is read back (WholeUnderstood).  *)
(***************************************************************************)
EXTENDS Front, Wire, FiniteSetTheorems, SequenceTheorems, TLAPS

Typed ==
  /\ sock \in [Socks -> {"new", "open", "gone"}]
  /\ context \in [Socks -> Ids \cup {Nil}]
  /\ availIds \in Seq(Ids)
  /\ clientConns \in [Ids -> Socks \cup {Nil}]
  /\ backendConn \in BOOLEAN
  /\ toBackend \in Seq(Message) /\ fromBackend \in Seq(Message)
  /\ losses \in Nat
  /\ got \in Reply \cup {Nil}
  /\ \A s \in Open : context[s] \in Ids
  /\ ioPc # Nil => ioPc \in Open

\* An id waits in the queue or has a client, never both, and no id is lost.
PoolInv ==
  /\ mainPc = "idle"
  /\ IsFiniteSet(Open)
  /\ ~backendConn => availIds = <<>> /\ Open = {}
  /\ backendConn => Len(availIds) + Cardinality(Open) = MaxConns
  /\ \A s \in Open : clientConns[context[s]] = s
  /\ \A i \in Ids : clientConns[i] # Nil
                      => clientConns[i] \in Open /\ context[clientConns[i]] = i
  /\ \A k \in DOMAIN availIds : clientConns[availIds[k]] = Nil
  /\ \A j, k \in DOMAIN availIds : availIds[j] = availIds[k] => j = k
  /\ backendConn => \A i \in Ids : clientConns[i] = Nil
                                     => \E k \in DOMAIN availIds : availIds[k] = i

\* The browser a message is from has connected, and has the id in the message
\* if it is still there.
HasItsId(m) ==
  /\ sock[m.from] # "new"
  /\ m.from \in Open => m.id = Signed(context[m.from])

\* It has left, and a Disconnected at k or after it says so.
ByeFollows(k) ==
  \E n \in k..Len(toBackend) : /\ toBackend[n].bye
                               /\ toBackend[n].id = toBackend[k].id
                               /\ toBackend[n].from = toBackend[k].from

MessagesInv ==
  /\ \A k \in DOMAIN toBackend : HasItsId(toBackend[k])
  /\ \A k \in DOMAIN toBackend : toBackend[k].from \in Open \/ ByeFollows(k)
  /\ \A k \in DOMAIN fromBackend : HasItsId(fromBackend[k])

IInv ==
  /\ Typed
  /\ losses = 0 => PoolInv /\ MessagesInv
  /\ DisconnectedFirst
  /\ RepliesArrive

-----------------------------------------------------------------------------
(* Sequences.                                                              *)

LEMMA TailFacts ==
  ASSUME NEW S, NEW q \in Seq(S), q # <<>>
  PROVE  /\ Tail(q) \in Seq(S) /\ Len(Tail(q)) = Len(q) - 1 /\ Len(q) \in Nat \ {0}
         /\ DOMAIN q = 1..Len(q) /\ DOMAIN Tail(q) = 1..(Len(q) - 1)
         /\ Head(q) = q[1] /\ q[1] \in S
         /\ \A k \in DOMAIN Tail(q) : k + 1 \in DOMAIN q /\ Tail(q)[k] = q[k + 1]
  OBVIOUS

LEMMA AppendFacts ==
  ASSUME NEW S, NEW q \in Seq(S), NEW e \in S
  PROVE  /\ Append(q, e) \in Seq(S) /\ Len(Append(q, e)) = Len(q) + 1 /\ Len(q) \in Nat
         /\ DOMAIN q = 1..Len(q) /\ DOMAIN Append(q, e) = 1..(Len(q) + 1)
         /\ Append(q, e)[Len(q) + 1] = e
         /\ \A k \in DOMAIN q : Append(q, e)[k] = q[k]
  OBVIOUS

LEMMA MessageFrom ==
  ASSUME NEW q \in Seq(Message), NEW k \in DOMAIN q
  PROVE  q[k] \in Message /\ q[k].from \in Socks /\ q[k].id \in Int
<1>1. q[k] \in Message
  OBVIOUS
<1>2. \A i \in Ids : Signed(i) \in Int
  BY FrontAssumption DEF Signed, Ids
<1> QED
  BY <1>1, <1>2 DEF Message

\* Two ids are told apart by the words they travel in.
LEMMA SignedApart ==
  ASSUME NEW i \in Ids, NEW j \in Ids, Signed(i) = Signed(j)
  PROVE  i = j
  BY FrontAssumption DEF Signed, Ids

LEMMA OpenIsSock == \A s \in Open : s \in Socks /\ s # Nil
  BY FrontAssumption DEF Open

-----------------------------------------------------------------------------
(* Steps that leave the ids or the messages alone.                         *)

LEMMA PoolKept ==
  ASSUME PoolInv, UNCHANGED <<sock, context, pool, backendConn, mainPc>>
  PROVE  PoolInv'
<1>1. Open' = Open
  BY DEF Open
<1> QED
  BY <1>1 DEF PoolInv, pool

LEMMA TypedKept ==
  ASSUME Typed, UNCHANGED <<sock, context, pool, ioPc, channels>>,
         backendConn' \in BOOLEAN, losses' \in Nat, got' \in Reply \cup {Nil}
  PROVE  Typed'
<1>1. Open' = Open
  BY DEF Open
<1> QED
  BY <1>1 DEF Typed, pool, channels

LEMMA MessagesKept ==
  ASSUME MessagesInv, UNCHANGED <<sock, context, channels>>
  PROVE  MessagesInv'
<1>1. Open' = Open
  BY DEF Open
<1> QED
  BY <1>1 DEF MessagesInv, HasItsId, ByeFollows, channels

LEMMA OrderKept ==
  ASSUME DisconnectedFirst, toBackend' = toBackend, losses' = losses
  PROVE  DisconnectedFirst'
  BY DEF DisconnectedFirst

\* What DisconnectedFirst asks of the next state.
LEMMA OrderNext ==
  ASSUME \A j, k \in DOMAIN toBackend' :
           /\ j < k
           /\ toBackend'[j].id = toBackend'[k].id
           /\ toBackend'[j].from # toBackend'[k].from
           => \E m \in j..(k - 1) : /\ toBackend'[m].bye
                                    /\ toBackend'[m].id = toBackend'[j].id
                                    /\ toBackend'[m].from = toBackend'[j].from
  PROVE  DisconnectedFirst'
  BY DEF DisconnectedFirst

LEMMA QuietStep ==
  ASSUME IInv, UNCHANGED <<sock, context, pool, backendConn, mainPc, channels, losses>>,
         got' = Nil, ioPc' # Nil => ioPc' \in Open
  PROVE  IInv'
<1>1. Open' = Open
  BY DEF Open
<1>2. Typed'
  BY <1>1 DEF IInv, Typed, pool, channels
<1> QED
  BY <1>2, PoolKept, MessagesKept, OrderKept DEF IInv, channels, RepliesArrive

LEMMA CrashStep ==
  ASSUME IInv, Crash, got' = Nil, losses' = losses
  PROVE  IInv'
  BY QuietStep DEF Crash, ioVars, IInv, Typed

-----------------------------------------------------------------------------
(* The loop of the browsers.                                               *)

LEMMA RefusedStep ==
  ASSUME IInv, NEW s \in Socks, Connect(s), availIds = <<>>
  PROVE  IInv'
<1>1. /\ sock[s] = "new" /\ sock' = [sock EXCEPT ![s] = "gone"]
      /\ UNCHANGED <<context, pool, ioPc, backendConn, mainPc, channels, losses>>
      /\ got' = Nil
  BY DEF Connect
<1>2. Open' = Open
  BY <1>1 DEF Open, IInv, Typed
<1>3. Typed'
  BY <1>1, <1>2 DEF IInv, Typed, pool, channels
<1>4. PoolInv => PoolInv'
  BY <1>1, <1>2 DEF PoolInv, pool
<1>5. ASSUME NEW m, HasItsId(m)
      PROVE  HasItsId(m)'
  BY <1>1, <1>2, <1>5 DEF HasItsId, IInv, Typed
<1>6. MessagesInv => MessagesInv'
  BY <1>1, <1>2, <1>5 DEF MessagesInv, ByeFollows, channels
<1> QED
  BY <1>1, <1>3, <1>4, <1>6, OrderKept DEF IInv, channels, RepliesArrive

LEMMA AdmittedStep ==
  ASSUME IInv, NEW s \in Socks, Connect(s), availIds # <<>>
  PROVE  IInv'
<1> DEFINE h == Head(availIds)
<1>1. /\ sock[s] = "new" /\ sock' = [sock EXCEPT ![s] = "open"]
      /\ context' = [context EXCEPT ![s] = h]
      /\ clientConns' = [clientConns EXCEPT ![h] = s]
      /\ availIds' = Tail(availIds)
      /\ UNCHANGED <<ioPc, backendConn, mainPc, channels, losses>>
      /\ ioPc = Nil /\ got' = Nil
  BY DEF Connect, IoIdle
<1>2. /\ h = availIds[1] /\ h \in Ids /\ availIds' \in Seq(Ids)
      /\ DOMAIN availIds = 1..Len(availIds) /\ Len(availIds) \in Nat \ {0}
      /\ Len(availIds') = Len(availIds) - 1 /\ DOMAIN availIds' = 1..(Len(availIds) - 1)
      /\ \A k \in DOMAIN availIds' : k + 1 \in DOMAIN availIds /\ availIds'[k] = availIds[k + 1]
  BY <1>1, TailFacts DEF IInv, Typed
<1> HIDE DEF h
<1>3. Open' = Open \cup {s} /\ s \notin Open
  BY <1>1 DEF Open, IInv, Typed
<1>4. Typed'
  BY <1>1, <1>2, <1>3 DEF IInv, Typed, channels
<1>5. ASSUME PoolInv PROVE PoolInv'
  <2>1. backendConn
    BY <1>5 DEF PoolInv, IInv, Typed
  <2>2. IsFiniteSet(Open') /\ Cardinality(Open') = Cardinality(Open) + 1 /\ Cardinality(Open) \in Nat
    BY <1>3, <1>5, FS_AddElement, FS_CardinalityType DEF PoolInv
  <2>3. clientConns[h] = Nil
    BY <1>2, <1>5 DEF PoolInv
  <2>4. Len(availIds') + Cardinality(Open') = MaxConns
    BY <1>2, <1>5, <2>1, <2>2 DEF PoolInv
  <2>5. \A w \in Open' : clientConns'[context'[w]] = w
    <3>1. \A w \in Open : context[w] # h /\ context[w] \in Ids
      BY <1>5, <2>3, OpenIsSock DEF PoolInv, IInv, Typed
    <3> QED
      BY <1>1, <1>2, <1>3, <1>5, <3>1, OpenIsSock DEF PoolInv, IInv, Typed
  <2>6. \A i \in Ids : clientConns'[i] # Nil
                          => clientConns'[i] \in Open' /\ context'[clientConns'[i]] = i
    BY <1>1, <1>2, <1>3, <1>5, OpenIsSock DEF PoolInv, IInv, Typed
  <2>7. /\ \A k \in DOMAIN availIds' : clientConns'[availIds'[k]] = Nil
        /\ \A j, k \in DOMAIN availIds' : availIds'[j] = availIds'[k] => j = k
    <3>1. ASSUME NEW k \in DOMAIN availIds'
          PROVE  availIds'[k] # h /\ availIds'[k] \in Ids /\ clientConns[availIds'[k]] = Nil
      BY <1>2, <1>5, <3>1 DEF PoolInv, IInv, Typed
    <3>2. \A j, k \in DOMAIN availIds' : availIds'[j] = availIds'[k] => j = k
      BY <1>2, <1>5 DEF PoolInv
    <3> QED
      BY <1>1, <3>1, <3>2 DEF IInv, Typed
  <2>8. ASSUME NEW i \in Ids, clientConns'[i] = Nil
        PROVE  \E k \in DOMAIN availIds' : availIds'[k] = i
    <3>1. i # h /\ clientConns[i] = Nil
      BY <1>1, <1>2, <2>8, FrontAssumption DEF IInv, Typed
    <3>2. PICK k \in DOMAIN availIds : availIds[k] = i
      BY <1>5, <2>1, <3>1 DEF PoolInv
    <3>3. k - 1 \in DOMAIN availIds' /\ availIds'[k - 1] = i
      BY <1>2, <3>1, <3>2
    <3> QED
      BY <3>3
  <2> QED
    BY <1>1, <1>5, <2>1, <2>2, <2>4, <2>5, <2>6, <2>7, <2>8 DEF PoolInv
<1>6. ASSUME NEW m, m.from \in Socks, HasItsId(m)
      PROVE  HasItsId(m)' /\ (m.from \in Open' <=> m.from \in Open)
  BY <1>1, <1>3, <1>6 DEF HasItsId, IInv, Typed
<1>7. MessagesInv => MessagesInv'
  <2>1. \A k \in DOMAIN toBackend : toBackend[k].from \in Socks
    BY MessageFrom DEF IInv, Typed
  <2>2. \A k \in DOMAIN fromBackend : fromBackend[k].from \in Socks
    BY MessageFrom DEF IInv, Typed
  <2> QED
    BY <1>1, <1>3, <1>6, <2>1, <2>2 DEF MessagesInv, ByeFollows, channels
<1> QED
  BY <1>1, <1>4, <1>5, <1>7, OrderKept DEF IInv, channels, RepliesArrive

LEMMA ConnectStep ==
  ASSUME IInv, NEW s \in Socks, Connect(s)
  PROVE  IInv'
  BY RefusedStep, AdmittedStep

\* What a browser sends goes under the id it holds, behind everything that
\* went under that id before.
LEMMA SendKeepsOrder ==
  ASSUME Typed, losses = 0, PoolInv, MessagesInv, DisconnectedFirst,
         NEW s \in Open, NEW bye \in BOOLEAN, losses' = losses,
         toBackend' = Append(toBackend, [id |-> Signed(context[s]), from |-> s, bye |-> bye])
  PROVE  /\ toBackend' \in Seq(Message)
         /\ DisconnectedFirst'
<1> DEFINE e == [id |-> Signed(context[s]), from |-> s, bye |-> bye]
<1>1. e \in Message /\ e.id = Signed(context[s]) /\ e.from = s
  BY OpenIsSock DEF Typed, Message
<1> HIDE DEF e
<1>2. /\ toBackend' \in Seq(Message) /\ Len(toBackend) \in Nat
      /\ DOMAIN toBackend = 1..Len(toBackend) /\ DOMAIN toBackend' = 1..(Len(toBackend) + 1)
      /\ toBackend'[Len(toBackend) + 1] = e
      /\ \A k \in DOMAIN toBackend : toBackend'[k] = toBackend[k]
  BY <1>1, AppendFacts DEF Typed, e
<1>3. DisconnectedFirst'
  <2> SUFFICES \A j, k \in DOMAIN toBackend' :
                 /\ j < k
                 /\ toBackend'[j].id = toBackend'[k].id
                 /\ toBackend'[j].from # toBackend'[k].from
                 => \E m \in j..(k - 1) : /\ toBackend'[m].bye
                                          /\ toBackend'[m].id = toBackend'[j].id
                                          /\ toBackend'[m].from = toBackend'[j].from
    BY OrderNext
  <2> SUFFICES ASSUME NEW j \in DOMAIN toBackend', NEW k \in DOMAIN toBackend', j < k,
                      toBackend'[j].id = toBackend'[k].id,
                      toBackend'[j].from # toBackend'[k].from
               PROVE  \E m \in j..(k - 1) : /\ toBackend'[m].bye
                                            /\ toBackend'[m].id = toBackend'[j].id
                                            /\ toBackend'[m].from = toBackend'[j].from
    OBVIOUS
  <2>1. j \in DOMAIN toBackend /\ toBackend'[j] = toBackend[j]
    BY <1>2
  <2>2. CASE k \in DOMAIN toBackend
    <3>1. toBackend'[k] = toBackend[k]
      BY <1>2, <2>2
    <3>2. PICK m \in j..(k - 1) : /\ toBackend[m].bye
                                 /\ toBackend[m].id = toBackend[j].id
                                 /\ toBackend[m].from = toBackend[j].from
      BY <2>1, <2>2, <3>1 DEF DisconnectedFirst
    <3>3. m \in DOMAIN toBackend
      BY <1>2, <2>1, <2>2
    <3> QED
      BY <1>2, <2>1, <3>2, <3>3
  <2>3. CASE k \notin DOMAIN toBackend
    <3>1. k = Len(toBackend) + 1 /\ toBackend'[k] = e
      BY <1>2, <2>3
    <3>2. toBackend[j].from # s /\ toBackend[j].id = Signed(context[s])
      BY <1>1, <2>1, <3>1
    <3>3. toBackend[j].from \notin Open
      <4>1. SUFFICES ASSUME toBackend[j].from \in Open PROVE FALSE
        OBVIOUS
      <4>2. Signed(context[toBackend[j].from]) = Signed(context[s])
        BY <2>1, <3>2, <4>1 DEF MessagesInv, HasItsId
      <4>3. context[toBackend[j].from] = context[s]
        BY <4>1, <4>2, SignedApart DEF Typed
      <4> QED
        BY <3>2, <4>1, <4>3 DEF PoolInv
    <3>4. PICK m \in j..Len(toBackend) : /\ toBackend[m].bye
                                        /\ toBackend[m].id = toBackend[j].id
                                        /\ toBackend[m].from = toBackend[j].from
      BY <2>1, <3>3 DEF MessagesInv, ByeFollows
    <3>5. m \in DOMAIN toBackend /\ m \in j..(k - 1)
      BY <1>2, <2>1, <3>1, <3>4
    <3> QED
      BY <1>2, <2>1, <3>4, <3>5
  <2> QED
    BY <2>2, <2>3
<1> QED
  BY <1>2, <1>3

LEMMA ClientMessageStep ==
  ASSUME IInv, NEW s \in Socks, ClientMessage(s)
  PROVE  IInv'
<1> DEFINE e == [id |-> Signed(context[s]), from |-> s, bye |-> FALSE]
<1>1. CASE ~backendConn
  BY <1>1, CrashStep DEF ClientMessage
<1>2. CASE backendConn
  <2>1. /\ UNCHANGED <<sock, context, pool, ioPc, backendConn, mainPc, fromBackend, losses>>
        /\ toBackend' = Append(toBackend, e) /\ got' = Nil /\ s \in Open
    BY <1>2 DEF ClientMessage, ioVars, Open
  <2>2. Open' = Open
    BY <2>1 DEF Open
  <2>3. e \in Message /\ e.id = Signed(context[s]) /\ e.from = s
    BY <2>1 DEF IInv, Typed, Message
  <2> HIDE DEF e
  <2>4. /\ toBackend' \in Seq(Message) /\ Len(toBackend) \in Nat
        /\ Len(toBackend') = Len(toBackend) + 1
        /\ DOMAIN toBackend = 1..Len(toBackend) /\ DOMAIN toBackend' = 1..(Len(toBackend) + 1)
        /\ toBackend'[Len(toBackend) + 1] = e
        /\ \A k \in DOMAIN toBackend : toBackend'[k] = toBackend[k]
    BY <2>1, <2>3, AppendFacts DEF IInv, Typed
  <2>5. Typed'
    BY <2>1, <2>2, <2>4 DEF IInv, Typed, pool
  <2>6. ASSUME losses = 0 PROVE MessagesInv'
    <3>1. MessagesInv
      BY <2>6 DEF IInv
    <3>2. ASSUME NEW m, HasItsId(m) PROVE HasItsId(m)'
      BY <2>1, <2>2, <3>2 DEF HasItsId
    <3>3. sock'[e.from] # "new" /\ (e.from \in Open' => e.id = Signed(context'[e.from]))
      BY <2>1, <2>2, <2>3 DEF HasItsId, Open
    <3>4. ASSUME NEW k \in DOMAIN toBackend, ByeFollows(k)
          PROVE  ByeFollows(k)'
      BY <2>4, <3>4 DEF ByeFollows
    <3>5. (\A k \in DOMAIN toBackend : HasItsId(toBackend[k]))'
      BY <2>4, <3>1, <3>2, <3>3 DEF MessagesInv, HasItsId
    <3>6. (\A k \in DOMAIN toBackend : toBackend[k].from \in Open \/ ByeFollows(k))'
      BY <2>1, <2>2, <2>3, <2>4, <3>1, <3>4 DEF MessagesInv
    <3> QED
      BY <2>1, <3>1, <3>2, <3>5, <3>6 DEF MessagesInv, HasItsId
  <2>7. DisconnectedFirst'
    <3>1. CASE losses = 0
      BY <2>1, <3>1, SendKeepsOrder DEF IInv, e
    <3>2. CASE losses # 0
      BY <2>1, <3>2 DEF DisconnectedFirst
    <3> QED
      BY <3>1, <3>2
  <2> QED
    BY <2>1, <2>5, <2>6, <2>7, PoolKept DEF IInv, RepliesArrive
<1> QED
  BY <1>1, <1>2

LEMMA CloseStep ==
  ASSUME IInv, NEW s \in Socks, Close(s)
  PROVE  IInv'
<1>1. /\ s \in Open /\ ioPc = Nil /\ got' = Nil
      /\ UNCHANGED <<pool, backendConn, mainPc, channels, losses>>
  BY DEF Close, IoIdle, Open
<1>2. CASE ~backendConn /\ Gone(s) /\ ioPc' = ioPc
  <2>1. losses # 0
    BY <1>1, <1>2 DEF IInv, PoolInv
  <2>2. Open' = Open \ {s} /\ context' = [context EXCEPT ![s] = Nil]
    BY <1>1, <1>2 DEF Gone, Open, IInv, Typed
  <2>3. sock' \in [Socks -> {"new", "open", "gone"}]
    BY <1>2 DEF Gone, IInv, Typed
  <2>4. Typed'
    BY <1>1, <1>2, <2>2, <2>3, OpenIsSock DEF IInv, Typed, pool, channels
  <2> QED
    BY <1>1, <2>1, <2>4, OrderKept DEF IInv, channels, RepliesArrive
<1>3. CASE /\ UNCHANGED <<sock, context>>
           /\ ioPc' = s \/ ioPc' = ioPc
  BY <1>1, <1>3, QuietStep
<1> QED
  BY <1>2, <1>3 DEF Close

LEMMA CloseDoneStep ==
  ASSUME IInv, CloseDone
  PROVE  IInv'
<1> DEFINE s == ioPc
           h == context[s]
           e == [id |-> Signed(h), from |-> s, bye |-> TRUE]
<1>1. /\ s \in Open /\ s \in Socks /\ s # Nil /\ h \in Ids /\ h # Nil
      /\ sock' = [sock EXCEPT ![s] = "gone"] /\ context' = [context EXCEPT ![s] = Nil]
      /\ availIds' = Append(availIds, h)
      /\ clientConns' = [clientConns EXCEPT ![h] = Nil]
      /\ ioPc' = Nil /\ got' = Nil
      /\ UNCHANGED <<fromBackend, backendConn, mainPc, losses>>
      /\ backendConn => toBackend' = Append(toBackend, e)
      /\ ~backendConn => toBackend' = toBackend
  <2>1. s \in Open /\ s # Nil
    BY DEF CloseDone, IInv, Typed
  <2>2. s \in Socks /\ h \in Ids /\ h # Nil
    BY <2>1, FrontAssumption DEF IInv, Typed, Open, Ids
  <2>3. backendConn => toBackend' = Append(toBackend, e)
    BY DEF CloseDone, Bye
  <2>4. ~backendConn => toBackend' = toBackend
    BY DEF CloseDone
  <2> QED
    BY <2>1, <2>2, <2>3, <2>4 DEF CloseDone, Gone
<1>2. e \in Message /\ e.id = Signed(h) /\ e.from = s /\ e.bye
  BY <1>1 DEF Message
<1> HIDE DEF s, h, e
<1>3. Open' = Open \ {s}
  BY <1>1 DEF Open, IInv, Typed
<1>4. /\ availIds' \in Seq(Ids) /\ Len(availIds) \in Nat
      /\ Len(availIds') = Len(availIds) + 1
      /\ DOMAIN availIds = 1..Len(availIds) /\ DOMAIN availIds' = 1..(Len(availIds) + 1)
      /\ availIds'[Len(availIds) + 1] = h
      /\ \A k \in DOMAIN availIds : availIds'[k] = availIds[k]
  BY <1>1, AppendFacts DEF IInv, Typed
<1>5. ASSUME backendConn
      PROVE  /\ toBackend' \in Seq(Message) /\ Len(toBackend) \in Nat
             /\ Len(toBackend') = Len(toBackend) + 1
             /\ DOMAIN toBackend = 1..Len(toBackend)
             /\ DOMAIN toBackend' = 1..(Len(toBackend) + 1)
             /\ toBackend'[Len(toBackend) + 1] = e
             /\ \A k \in DOMAIN toBackend : toBackend'[k] = toBackend[k]
  <2>1. toBackend' = Append(toBackend, e)
    BY <1>1, <1>5
  <2> QED
    BY <1>2, <2>1, AppendFacts DEF IInv, Typed
<1>6. Typed'
  <2>1. toBackend' \in Seq(Message)
    BY <1>1, <1>5 DEF IInv, Typed
  <2> QED
    BY <1>1, <1>3, <1>4, <2>1 DEF IInv, Typed
<1>7. ASSUME losses = 0
      PROVE  backendConn /\ PoolInv /\ MessagesInv
  BY <1>1, <1>7 DEF IInv, PoolInv
<1>8. ASSUME losses = 0 PROVE PoolInv'
  <2>1. IsFiniteSet(Open') /\ Cardinality(Open') = Cardinality(Open) - 1 /\ Cardinality(Open) \in Nat
    BY <1>1, <1>3, <1>7, <1>8, FS_RemoveElement, FS_CardinalityType DEF PoolInv
  <2>2. Len(availIds') + Cardinality(Open') = MaxConns
    BY <1>4, <1>7, <1>8, <2>1 DEF PoolInv
  <2>3. clientConns[h] = s
    BY <1>1, <1>7, <1>8 DEF PoolInv, h
  <2>4. \A w \in Open' : clientConns'[context'[w]] = w
    <3>1. \A w \in Open' : context[w] # h /\ context[w] \in Ids /\ context'[w] = context[w]
      BY <1>1, <1>3, <1>7, <1>8, <2>3, OpenIsSock DEF PoolInv, IInv, Typed
    <3> QED
      BY <1>1, <1>3, <1>7, <1>8, <3>1 DEF PoolInv, IInv, Typed
  <2>5. \A i \in Ids : clientConns'[i] # Nil
                          => clientConns'[i] \in Open' /\ context'[clientConns'[i]] = i
    BY <1>1, <1>3, <1>7, <1>8, <2>3, OpenIsSock DEF PoolInv, IInv, Typed, h
  <2>6. \A k \in DOMAIN availIds : availIds[k] # h /\ availIds[k] \in Ids
    BY <1>1, <1>7, <1>8, <2>3 DEF PoolInv, IInv, Typed
  <2>7. /\ \A k \in DOMAIN availIds' : clientConns'[availIds'[k]] = Nil
        /\ \A j, k \in DOMAIN availIds' : availIds'[j] = availIds'[k] => j = k
    <3>1. \A k \in DOMAIN availIds' : k \in DOMAIN availIds \/ k = Len(availIds) + 1
      BY <1>4
    <3>2. clientConns'[h] = Nil /\ \A i \in Ids \ {h} : clientConns'[i] = clientConns[i]
      BY <1>1 DEF IInv, Typed
    <3> QED
      BY <1>4, <1>7, <1>8, <2>6, <3>1, <3>2 DEF PoolInv
  <2>8. ASSUME NEW i \in Ids, clientConns'[i] = Nil
        PROVE  \E k \in DOMAIN availIds' : availIds'[k] = i
    <3>1. CASE i = h
      BY <1>4, <3>1
    <3>2. CASE i # h
      <4>1. PICK k \in DOMAIN availIds : availIds[k] = i
        BY <1>1, <1>7, <1>8, <2>8, <3>2 DEF PoolInv, IInv, Typed
      <4>2. k \in DOMAIN availIds' /\ availIds'[k] = i
        BY <1>4, <4>1
      <4> QED
        BY <4>2
    <3> QED
      BY <3>1, <3>2
  <2> QED
    BY <1>1, <1>7, <1>8, <2>1, <2>2, <2>4, <2>5, <2>7, <2>8 DEF PoolInv
<1>9. ASSUME losses = 0 PROVE MessagesInv'
  <2>1. \A m : m.from \in Socks /\ HasItsId(m) => HasItsId(m)'
    BY <1>1, <1>3 DEF HasItsId, IInv, Typed
  <2>2. sock'[e.from] # "new" /\ e.from \notin Open'
    BY <1>1, <1>2, <1>3 DEF IInv, Typed
  <2>3. (\A k \in DOMAIN toBackend : HasItsId(toBackend[k]))'
    <3>1. \A k \in DOMAIN toBackend : toBackend[k].from \in Socks /\ HasItsId(toBackend[k])
      BY <1>7, <1>9, MessageFrom DEF MessagesInv, IInv, Typed
    <3> QED
      BY <1>5, <1>7, <1>9, <2>1, <2>2, <3>1 DEF HasItsId
  <2>4. (\A k \in DOMAIN fromBackend : HasItsId(fromBackend[k]))'
    <3>1. \A k \in DOMAIN fromBackend : fromBackend[k].from \in Socks /\ HasItsId(fromBackend[k])
      BY <1>7, <1>9, MessageFrom DEF MessagesInv, IInv, Typed
    <3> QED
      BY <1>1, <2>1, <3>1 DEF HasItsId
  <2>5. ASSUME NEW k \in DOMAIN toBackend'
        PROVE  toBackend'[k].from \in Open' \/ ByeFollows(k)'
    <3>1. CASE k = Len(toBackend) + 1
      BY <1>2, <1>5, <1>7, <1>9, <3>1 DEF ByeFollows
    <3>2. CASE k \in DOMAIN toBackend /\ toBackend[k].from = s
      <4>1. toBackend[k].id = Signed(h)
        BY <1>1, <1>7, <1>9, <3>2 DEF MessagesInv, HasItsId, h
      <4> QED
        BY <1>2, <1>5, <1>7, <1>9, <3>2, <4>1 DEF ByeFollows
    <3>3. CASE k \in DOMAIN toBackend /\ toBackend[k].from # s
      <4>1. CASE toBackend[k].from \in Open
        BY <1>3, <1>5, <1>7, <1>9, <3>3, <4>1
      <4>2. CASE ByeFollows(k)
        BY <1>5, <1>7, <1>9, <3>3, <4>2 DEF ByeFollows
      <4> QED
        BY <1>7, <1>9, <3>3, <4>1, <4>2 DEF MessagesInv
    <3> QED
      BY <1>5, <1>7, <1>9, <3>1, <3>2, <3>3
  <2> QED
    BY <2>3, <2>4, <2>5 DEF MessagesInv
<1>10. DisconnectedFirst'
  <2>1. CASE losses = 0
    BY <1>1, <1>7, <2>1, SendKeepsOrder DEF IInv, e, h
  <2>2. CASE losses # 0
    BY <1>1, <2>2 DEF DisconnectedFirst
  <2> QED
    BY <2>1, <2>2
<1> QED
  BY <1>1, <1>6, <1>8, <1>9, <1>10 DEF IInv, RepliesArrive

-----------------------------------------------------------------------------
(* The main loop.                                                          *)

LEMMA BackendUpStep ==
  ASSUME IInv, BackendUp
  PROVE  IInv'
<1>1. CASE availIds # <<>>
  BY <1>1, CrashStep DEF BackendUp
<1>2. CASE availIds = <<>>
  <2>1. /\ ~backendConn /\ backendConn' = TRUE /\ availIds' = Fill
        /\ UNCHANGED <<clientConns, sock, context, ioPc, mainPc, channels, losses>>
        /\ got' = Nil
    BY <1>2 DEF BackendUp, ioVars
  <2>2. Open' = Open
    BY <2>1 DEF Open
  <2>3. /\ MaxConns \in Nat /\ Fill \in Seq(Ids) /\ Len(Fill) = MaxConns
        /\ DOMAIN Fill = Ids /\ \A k \in Ids : Fill[k] = k
    BY FrontAssumption DEF Fill, Ids
  <2> HIDE DEF Fill
  <2>4. Typed'
    BY <2>1, <2>2, <2>3 DEF IInv, Typed, channels
  <2>5. ASSUME losses = 0 PROVE PoolInv'
    <3>1. PoolInv /\ Open = {}
      BY <2>1, <2>5 DEF IInv, PoolInv
    <3>2. IsFiniteSet(Open') /\ Cardinality(Open') = 0
      BY <2>2, <3>1, FS_EmptySet
    <3>3. \A i \in Ids : clientConns[i] = Nil
      BY <3>1 DEF PoolInv
    <3>4. Len(availIds') + Cardinality(Open') = MaxConns
      BY <2>1, <2>3, <3>2
    <3> QED
      BY <2>1, <2>2, <2>3, <3>1, <3>2, <3>3, <3>4 DEF PoolInv
  <2> QED
    BY <2>1, <2>4, <2>5, MessagesKept, OrderKept DEF IInv, channels, RepliesArrive
<1> QED
  BY <1>1, <1>2

LEMMA BackendDownStep ==
  ASSUME IInv, BackendDown
  PROVE  IInv'
<1>1. /\ UNCHANGED <<sock, context, pool, ioPc>> /\ got' = Nil
      /\ backendConn' = FALSE /\ losses' = losses + 1
      /\ toBackend' = <<>> /\ fromBackend' = <<>>
  BY DEF BackendDown, ioVars
<1>2. losses' \in Nat /\ losses' # 0
  BY <1>1 DEF IInv, Typed
<1>3. Open' = Open
  BY <1>1 DEF Open
<1>4. Typed'
  <2>1. toBackend' \in Seq(Message) /\ fromBackend' \in Seq(Message)
    BY <1>1
  <2>2. backendConn' \in BOOLEAN
    BY <1>1
  <2> QED
    BY <1>1, <1>2, <1>3, <2>1, <2>2 DEF IInv, Typed, pool
<1> QED
  BY <1>1, <1>2, <1>4 DEF IInv, DisconnectedFirst, RepliesArrive

LEMMA ClearStep ==
  ASSUME IInv, Clear
  PROVE  IInv'
<1>1. /\ UNCHANGED <<sock, context, ioPc, backendConn, channels, losses>> /\ got' = Nil
      /\ availIds' = <<>> /\ clientConns' = [i \in Ids |-> Nil]
      /\ mainPc = "clearing"
  BY DEF Clear, EmptyPool
<1>2. losses # 0
  BY <1>1 DEF IInv, PoolInv
<1>3. Open' = Open
  BY <1>1 DEF Open
<1>4. Typed'
  <2>1. availIds' \in Seq(Ids) /\ clientConns' \in [Ids -> Socks \cup {Nil}]
    BY <1>1
  <2> QED
    BY <1>1, <1>3, <2>1 DEF IInv, Typed, channels
<1> QED
  BY <1>1, <1>2, <1>4, OrderKept DEF IInv, channels, RepliesArrive

LEMMA BackendMessageStep ==
  ASSUME IInv, BackendMessage
  PROVE  IInv'
<1> DEFINE e == fromBackend[1]
<1>1. /\ UNCHANGED <<sock, context, pool, ioPc, backendConn, mainPc, toBackend, losses>>
      /\ fromBackend # <<>> /\ fromBackend' = Tail(fromBackend)
      /\ got' = [for |-> Head(fromBackend).from, by |-> Receiver(Head(fromBackend).id)]
  BY DEF BackendMessage, ioVars
<1>2. Open' = Open
  BY <1>1 DEF Open
<1>3. /\ fromBackend' \in Seq(Message) /\ Head(fromBackend) = e
      /\ 1 \in DOMAIN fromBackend
      /\ \A k \in DOMAIN fromBackend' :
           k + 1 \in DOMAIN fromBackend /\ fromBackend'[k] = fromBackend[k + 1]
  BY <1>1, TailFacts DEF IInv, Typed
<1>4. e.from \in Socks /\ e.id \in Int
  BY <1>3, MessageFrom DEF IInv, Typed
<1>5. losses = 0 => HasItsId(e)
  BY <1>3 DEF IInv, MessagesInv
<1> HIDE DEF e
<1>6. got' = [for |-> e.from, by |-> Receiver(e.id)] /\ Receiver(e.id) \in Socks \cup {Nil}
  BY <1>1, <1>3, <1>4 DEF Receiver, IInv, Typed
<1>7. Typed'
  <2>1. got' \in Reply
    BY <1>4, <1>6 DEF Reply
  <2> QED
    BY <1>1, <1>2, <1>3, <2>1 DEF IInv, Typed, pool
<1>8. ASSUME losses = 0 PROVE MessagesInv'
  <2>1. \A k \in DOMAIN fromBackend : HasItsId(fromBackend[k])
    BY <1>8 DEF IInv, MessagesInv
  <2>2. (\A k \in DOMAIN fromBackend : HasItsId(fromBackend[k]))'
    BY <1>1, <1>2, <1>3, <2>1 DEF HasItsId
  <2> QED
    BY <1>1, <1>2, <1>8, <2>2 DEF IInv, MessagesInv, HasItsId, ByeFollows
<1>9. RepliesArrive'
  <2> SUFFICES ASSUME losses = 0, sock[e.from] = "open"
               PROVE  Receiver(e.id) = IF context[e.from] < Word THEN e.from ELSE Nil
    BY <1>1, <1>6 DEF RepliesArrive
  <2>1. e.from \in Open /\ e.id = Signed(context[e.from]) /\ context[e.from] \in Ids
    BY <1>4, <1>5 DEF Open, HasItsId, IInv, Typed
  <2>2. clientConns[context[e.from]] = e.from
    BY <2>1 DEF IInv, PoolInv
  <2>3. CASE context[e.from] < Word
    BY <2>1, <2>2, <2>3, FrontAssumption DEF Receiver, Signed, Ids
  <2>4. CASE ~(context[e.from] < Word)
    <3>1. e.id < 0
      BY <2>1, <2>4, FrontAssumption DEF Signed, Ids
    <3> QED
      BY <1>4, <2>4, <3>1 DEF Receiver
  <2> QED
    BY <2>3, <2>4
<1> QED
  BY <1>1, <1>7, <1>8, <1>9, PoolKept, OrderKept DEF IInv

LEMMA ServeStep ==
  ASSUME IInv, Serve
  PROVE  IInv'
<1>1. /\ UNCHANGED <<sock, context, pool, ioPc, backendConn, mainPc, losses>>
      /\ got' = Nil /\ toBackend # <<>> /\ toBackend' = Tail(toBackend)
      /\ \/ fromBackend' = fromBackend
         \/ fromBackend' = Append(fromBackend, Head(toBackend))
  BY DEF Serve, ioVars
<1>2. Open' = Open
  BY <1>1 DEF Open
<1>3. /\ toBackend' \in Seq(Message) /\ Head(toBackend) = toBackend[1]
      /\ toBackend[1] \in Message /\ 1 \in DOMAIN toBackend
      /\ Len(toBackend') = Len(toBackend) - 1 /\ Len(toBackend) \in Nat \ {0}
      /\ DOMAIN toBackend = 1..Len(toBackend) /\ DOMAIN toBackend' = 1..(Len(toBackend) - 1)
      /\ \A k \in DOMAIN toBackend' :
           k + 1 \in DOMAIN toBackend /\ toBackend'[k] = toBackend[k + 1]
  BY <1>1, TailFacts DEF IInv, Typed
<1>4. /\ fromBackend' \in Seq(Message)
      /\ \A k \in DOMAIN fromBackend' :
           \/ k \in DOMAIN fromBackend /\ fromBackend'[k] = fromBackend[k]
           \/ fromBackend'[k] = toBackend[1]
  <2>1. CASE fromBackend' = fromBackend
    BY <2>1 DEF IInv, Typed
  <2>2. CASE fromBackend' = Append(fromBackend, Head(toBackend))
    BY <1>3, <2>2, AppendFacts DEF IInv, Typed
  <2> QED
    BY <1>1, <2>1, <2>2
<1>5. Typed'
  BY <1>1, <1>2, <1>3, <1>4 DEF IInv, Typed, pool
<1>6. ASSUME losses = 0 PROVE MessagesInv'
  <2>1. MessagesInv
    BY <1>6 DEF IInv
  <2>2. (\A k \in DOMAIN toBackend : HasItsId(toBackend[k]))'
    BY <1>1, <1>2, <1>3, <2>1 DEF MessagesInv, HasItsId
  <2>3. (\A k \in DOMAIN fromBackend : HasItsId(fromBackend[k]))'
    BY <1>1, <1>2, <1>3, <1>4, <2>1 DEF MessagesInv, HasItsId
  <2>4. ASSUME NEW k \in DOMAIN toBackend'
        PROVE  toBackend'[k].from \in Open' \/ ByeFollows(k)'
    <3>1. k + 1 \in DOMAIN toBackend /\ toBackend'[k] = toBackend[k + 1]
      BY <1>3
    <3>2. CASE ByeFollows(k + 1)
      <4>1. PICK n \in (k + 1)..Len(toBackend) : /\ toBackend[n].bye
                                                /\ toBackend[n].id = toBackend[k + 1].id
                                                /\ toBackend[n].from = toBackend[k + 1].from
        BY <3>2 DEF ByeFollows
      <4>2. /\ n - 1 \in k..Len(toBackend') /\ n - 1 \in DOMAIN toBackend'
            /\ toBackend'[n - 1] = toBackend[n]
        BY <1>3, <3>1, <4>1
      <4> QED
        BY <3>1, <4>1, <4>2 DEF ByeFollows
    <3> QED
      BY <1>2, <2>1, <3>1, <3>2 DEF MessagesInv
  <2> QED
    BY <2>2, <2>3, <2>4 DEF MessagesInv
<1>7. DisconnectedFirst'
  <2>1. CASE losses # 0
    BY <1>1, <2>1 DEF DisconnectedFirst
  <2>2. CASE losses = 0
    <3>1. ASSUME NEW j \in DOMAIN toBackend', NEW k \in DOMAIN toBackend', j < k,
                 toBackend'[j].id = toBackend'[k].id,
                 toBackend'[j].from # toBackend'[k].from
          PROVE  \E m \in j..(k - 1) : /\ toBackend'[m].bye
                                       /\ toBackend'[m].id = toBackend'[j].id
                                       /\ toBackend'[m].from = toBackend'[j].from
      <4>1. /\ j + 1 \in DOMAIN toBackend /\ k + 1 \in DOMAIN toBackend /\ j + 1 < k + 1
            /\ toBackend'[j] = toBackend[j + 1] /\ toBackend'[k] = toBackend[k + 1]
        BY <1>3, <3>1
      <4>2. PICK m \in (j + 1)..((k + 1) - 1) : /\ toBackend[m].bye
                                               /\ toBackend[m].id = toBackend[j + 1].id
                                               /\ toBackend[m].from = toBackend[j + 1].from
        BY <2>2, <3>1, <4>1 DEF IInv, DisconnectedFirst
      <4>3. /\ m - 1 \in j..(k - 1) /\ m - 1 \in DOMAIN toBackend'
            /\ toBackend'[m - 1] = toBackend[m]
        <5>1. j \in Nat /\ k \in Nat /\ j < k /\ m \in Nat /\ j + 1 <= m /\ m <= k
          BY <1>3, <3>1, <4>2
        <5>2. m - 1 \in j..(k - 1)
          BY <5>1
        <5>3. m - 1 \in DOMAIN toBackend'
          BY <1>3, <3>1, <5>1
        <5>4. toBackend'[m - 1] = toBackend[m]
          BY <1>3, <5>1, <5>3
        <5> QED
          BY <5>2, <5>3, <5>4
      <4> QED
        BY <4>1, <4>2, <4>3
    <3> QED
      BY <3>1, OrderNext
  <2> QED
    BY <2>1, <2>2
<1> QED
  BY <1>1, <1>5, <1>6, <1>7, PoolKept DEF IInv, RepliesArrive

-----------------------------------------------------------------------------
(* The theorems.                                                           *)

LEMMA InitIInv == Init => IInv
<1> SUFFICES ASSUME Init PROVE IInv
  OBVIOUS
<1>1. Open = {}
  BY DEF Init, Open
<1>2. Typed
  <2>1. /\ availIds \in Seq(Ids) /\ clientConns \in [Ids -> Socks \cup {Nil}]
        /\ toBackend \in Seq(Message) /\ fromBackend \in Seq(Message)
    BY DEF Init, NoClients
  <2>2. /\ sock \in [Socks -> {"new", "open", "gone"}]
        /\ context \in [Socks -> Ids \cup {Nil}]
    BY DEF Init
  <2> QED
    BY <1>1, <2>1, <2>2 DEF Init, Typed
<1>3. PoolInv
  BY <1>1, FS_EmptySet DEF Init, NoClients, PoolInv
<1>4. MessagesInv
  BY DEF Init, MessagesInv
<1> QED
  BY <1>2, <1>3, <1>4 DEF Init, IInv, DisconnectedFirst, RepliesArrive

LEMMA NextIInv == IInv /\ [Next]_vars => IInv'
<1> SUFFICES ASSUME IInv, [Next]_vars PROVE IInv'
  OBVIOUS
<1>1. CASE UNCHANGED vars
  <2>1. UNCHANGED <<sock, context, pool, ioPc, backendConn, mainPc, channels, losses, got>>
    BY <1>1 DEF vars, ioVars
  <2>2. Typed'
    BY <2>1, TypedKept DEF IInv, Typed
  <2> QED
    BY <2>1, <2>2, PoolKept, MessagesKept, OrderKept DEF IInv, channels, RepliesArrive
<1>2. ASSUME NEW s \in Socks, Connect(s) \/ ClientMessage(s) \/ Close(s)
      PROVE  IInv'
  BY <1>2, ConnectStep, ClientMessageStep, CloseStep
<1>3. CASE CloseDone
  BY <1>3, CloseDoneStep
<1>4. CASE BackendUp \/ BackendDown \/ Clear
  BY <1>4, BackendUpStep, BackendDownStep, ClearStep
<1>5. CASE BackendMessage \/ Serve
  BY <1>5, BackendMessageStep, ServeStep
<1> QED
  BY <1>1, <1>2, <1>3, <1>4, <1>5 DEF Next

LEMMA FrontInvariance == Spec => []IInv
  BY InitIInv, NextIInv, PTL DEF Spec

\* For any number of ids and browsers no sequence of arrivals and departures
\* loses an id or hands it out twice before the backend connection breaks
\* (onClientConnection, onBackendConnection).
THEOREM PoolIsWholeAlways == Spec => []PoolIsWhole
<1>1. IInv => PoolIsWhole
  <2> SUFFICES ASSUME Typed, PoolInv, backendConn PROVE PoolIsWhole
    BY DEF IInv, PoolIsWhole
  <2>1. \A k \in DOMAIN availIds : availIds[k] \in Ids
    BY DEF Typed
  <2>2. ToSet(availIds) \cap {context[s] : s \in Open} = {}
    BY <2>1, OpenIsSock DEF PoolInv, ToSet
  <2>3. ASSUME NEW i \in Ids
        PROVE  i \in ToSet(availIds) \cup {context[s] : s \in Open}
    BY DEF PoolInv, ToSet
  <2>4. ToSet(availIds) \cup {context[s] : s \in Open} = Ids
    BY <2>1, <2>3 DEF Typed, ToSet
  <2> QED
    BY <2>2, <2>4 DEF PoolInv, PoolIsWhole, Open
<1> QED
  BY <1>1, FrontInvariance, PTL

\* For any number of messages under way a Disconnected comes before whatever
\* the next owner of the id sends (onClientConnection, sendBackendMessage).
THEOREM DisconnectedFirstAlways == Spec => []DisconnectedFirst
<1>1. IInv => DisconnectedFirst
  BY DEF IInv
<1> QED
  BY <1>1, FrontInvariance, PTL

\* For any number of ids that the word keeps apart a reply reaches the browser
\* it is for and nobody else, or nobody when its id is negative on the way
\* (sendBackendMessage, onBackendMessage, sendToClient).
THEOREM RepliesArriveAlways == Spec => []RepliesArrive
<1>1. IInv => RepliesArrive
  BY DEF IInv
<1> QED
  BY <1>1, FrontInvariance, PTL

(* Every set of numbers has a least element, if it has any. *)
LEMMA LeastElement ==
  ASSUME NEW T \in SUBSET Nat, T # {}
  PROVE  \E n \in T : \A m \in T : n <= m
PROOF
<1> DEFINE I == {0..n : n \in T}
<1>1. I \subseteq FiniteSubsetsOf(Nat)
  <2> SUFFICES ASSUME NEW n \in T PROVE 0..n \in FiniteSubsetsOf(Nat)
    OBVIOUS
  <2>1. IsFiniteSet(0..n)
    BY FS_Interval
  <2> QED
    BY <2>1 DEF FiniteSubsetsOf
<1>2. I # {}
  OBVIOUS
<1>3. IsWellFoundedOn(StrictSubsetOrdering(Nat), FiniteSubsetsOf(Nat))
  BY FS_StrictSubsetOrderingWellFounded
<1> HIDE DEF I
<1>4. PICK X \in I : \A Y \in I : <<Y, X>> \notin StrictSubsetOrdering(Nat)
  BY <1>1, <1>2, <1>3, WFMin
<1>5. PICK n \in T : X = 0..n
  BY DEF I
<1>6. ASSUME NEW m \in T, m < n PROVE FALSE
  <2>1. 0..m \in I
    BY DEF I
  <2>2. 0..m \subseteq 0..n /\ 0..m # 0..n /\ 0..n \subseteq Nat
    <3>1. n \in 0..n /\ n \notin 0..m
      BY <1>6
    <3> QED
      BY <3>1, <1>6
  <2>3. <<0..m, 0..n>> \in StrictSubsetOrdering(Nat)
    <3>1. PICK x, y : x = 0..m /\ y = 0..n
      OBVIOUS
    <3>2. x \in SUBSET Nat /\ y \in SUBSET Nat /\ x \subseteq y /\ x # y
      BY <2>2, <3>1
    <3>3. <<x, y>> \in StrictSubsetOrdering(Nat)
      BY <3>2 DEF StrictSubsetOrdering
    <3> QED
      BY <3>1, <3>3
  <2> QED
    BY <2>1, <2>3, <1>4, <1>5
<1> QED
  BY <1>6

(* What holds for 0, and for n + 1 whenever it holds for n, holds for all. *)
LEMMA Induction ==
  ASSUME NEW S, 0 \in S, \A n \in Nat : n \in S => n + 1 \in S
  PROVE  \A n \in Nat : n \in S
PROOF
<1> SUFFICES ASSUME Nat \ S # {} PROVE FALSE
  OBVIOUS
<1>1. PICK n \in Nat \ S : \A m \in Nat \ S : n <= m
  BY LeastElement
<1>2. n # 0
  OBVIOUS
<1>3. n - 1 \in Nat /\ n - 1 \in S
  BY <1>1, <1>2
<1> QED
  BY <1>3

-----------------------------------------------------------------------------
(* The function by which Picked is computed, up to the n-th element. *)
Picking(s, S, n, f) ==
  f = [k \in 0..n |-> IF k = 0 THEN <<>>
                      ELSE IF s[k] \in S THEN Append(f[k - 1], s[k]) ELSE f[k - 1]]

\* What it comes to, element by element.
Picks(s, S, n, f) ==
  /\ f[0] = <<>>
  /\ \A k \in 1..n : f[k] = IF s[k] \in S THEN Append(f[k - 1], s[k]) ELSE f[k - 1]

(* Element by element, the function is what its definition says.           *)
LEMMA PickingIs ==
  ASSUME NEW s, NEW S, NEW n \in Nat, NEW f, Picking(s, S, n, f)
  PROVE  Picks(s, S, n, f)
PROOF
<1> DEFINE g(k) == IF k = 0 THEN <<>> ELSE IF s[k] \in S THEN Append(f[k - 1], s[k]) ELSE f[k - 1]
<1>1. f = [k \in 0..n |-> g(k)]
  BY DEF Picking
<1> HIDE DEF g
<1>2. \A k \in 0..n : f[k] = g(k)
  BY <1>1
<1> QED
  BY <1>2 DEF g, Picks

(* There is such a function, for sequences of any length.                  *)
LEMMA PickingExists ==
  ASSUME NEW s, NEW S, NEW n \in Nat
  PROVE  \E f : Picking(s, S, n, f)
PROOF
<1> DEFINE T == {m \in Nat : \E f : Picking(s, S, m, f)}
<1>1. 0 \in T
  <2>1. Picking(s, S, 0, [k \in 0..0 |-> <<>>])
    BY DEF Picking
  <2> QED
    BY <2>1
<1>2. ASSUME NEW m \in Nat, m \in T
      PROVE  m + 1 \in T
  <2>1. PICK f : Picking(s, S, m, f)
    BY <1>2
  <2> DEFINE last == IF s[m + 1] \in S THEN Append(f[m], s[m + 1]) ELSE f[m]
             g == [k \in 0..(m + 1) |-> IF k = m + 1 THEN last ELSE f[k]]
  <2>0. Picks(s, S, m, f)
    BY <2>1, PickingIs
  <2>2. /\ f[0] = <<>>
        /\ \A k \in 1..m : f[k] = IF s[k] \in S THEN Append(f[k - 1], s[k]) ELSE f[k - 1]
    BY <2>0 DEF Picks
  <2>3. /\ \A k \in 0..m : g[k] = f[k]
        /\ g[m + 1] = last
    OBVIOUS
  <2>4. /\ g[0] = <<>>
        /\ \A k \in 1..(m + 1) : g[k] = IF s[k] \in S THEN Append(g[k - 1], s[k]) ELSE g[k - 1]
    <3>1. g[0] = <<>>
      BY <2>2, <2>3
    <3>2. ASSUME NEW k \in 1..m
          PROVE  g[k] = IF s[k] \in S THEN Append(g[k - 1], s[k]) ELSE g[k - 1]
      <4>1. k - 1 \in 0..m /\ k \in 0..m
        OBVIOUS
      <4>2. g[k] = f[k] /\ g[k - 1] = f[k - 1]
        BY <4>1, <2>3
      <4> QED
        BY <4>2, <2>2
    <3>3. g[m + 1] = IF s[m + 1] \in S THEN Append(g[m], s[m + 1]) ELSE g[m]
      BY <2>3
    <3> HIDE DEF g, last
    <3>4. \A k \in 1..(m + 1) : k = m + 1 \/ k \in 1..m
      OBVIOUS
    <3> QED
      BY <3>1, <3>2, <3>3, <3>4
  <2>5. g = [k \in 0..(m + 1) |-> g[k]]
    OBVIOUS
  <2> HIDE DEF g
  <2>6. Picking(s, S, m + 1, g)
    BY <2>4, <2>5 DEF Picking
  <2> QED
    BY <2>6
<1> HIDE DEF T
<1>3. n \in T
  BY <1>1, <1>2, Induction
<1> QED
  BY <1>3 DEF T

(* So Picked is its last value.                                            *)
LEMMA PickedBy ==
  ASSUME NEW s, NEW S, Len(s) \in Nat
  PROVE  \E f : Picks(s, S, Len(s), f) /\ Picked(s, S) = f[Len(s)]
PROOF
<1>1. PICK g : Picking(s, S, Len(s), g)
  BY PickingExists
<1> DEFINE F == CHOOSE f : Picking(s, S, Len(s), f)
<1>2. Picking(s, S, Len(s), F)
  BY <1>1
<1>3. Picked(s, S) = F[Len(s)]
  BY DEF Picked, Picking
<1> HIDE DEF F
<1>4. Picks(s, S, Len(s), F)
  BY <1>2, PickingIs
<1> QED
  BY <1>3, <1>4

(* What holds for the empty sequence, and for a longer one whenever it     *)
(* holds for all but the last element, holds for all sequences.            *)
LEMMA SequenceInduction ==
  ASSUME NEW A, NEW T, <<>> \in T, \A s \in Seq(A), e \in A : s \in T => Append(s, e) \in T
  PROVE  \A s \in Seq(A) : s \in T
PROOF
<1> DEFINE N == {n \in Nat : \A s \in Seq(A) : Len(s) = n => s \in T}
<1>1. 0 \in N
  BY EmptySeq
<1>2. ASSUME NEW n \in Nat, n \in N
      PROVE  n + 1 \in N
  <2> SUFFICES ASSUME NEW s \in Seq(A), Len(s) = n + 1
               PROVE  s \in T
    OBVIOUS
  <2>1. s # <<>>
    OBVIOUS
  <2>2. PICK r \in Seq(A), e \in A : s = Append(r, e)
    BY <2>1, SequenceEmptyOrAppend
  <2>3. Len(r) = n
    BY <2>2
  <2> QED
    BY <1>2, <2>2, <2>3
<1> HIDE DEF N
<1>3. \A n \in Nat : n \in N
  BY <1>1, <1>2, Induction
<1> QED
  BY <1>3, LenProperties DEF N

(* The functions for two sequences agree as long as these do. *)
LEMMA PickingAgrees ==
  ASSUME NEW s, NEW S, NEW i \in Nat, NEW f, Picks(s, S, i, f),
         NEW t, NEW W, NEW j \in Nat, NEW g, Picks(t, W, j, g),
         NEW n \in Nat, n <= i, n <= j,
         \A k \in 1..n : s[k] = t[k] /\ (s[k] \in S <=> t[k] \in W)
  PROVE  f[n] = g[n]
PROOF
<1> DEFINE T == {m \in Nat : m <= n => f[m] = g[m]}
<1>1. /\ f[0] = <<>>
      /\ \A k \in 1..i : f[k] = IF s[k] \in S THEN Append(f[k - 1], s[k]) ELSE f[k - 1]
  BY DEF Picks
<1>2. /\ g[0] = <<>>
      /\ \A k \in 1..j : g[k] = IF t[k] \in W THEN Append(g[k - 1], t[k]) ELSE g[k - 1]
  BY DEF Picks
<1>3. 0 \in T
  BY <1>1, <1>2
<1>4. ASSUME NEW m \in Nat, m \in T
      PROVE  m + 1 \in T
  <2> SUFFICES ASSUME m + 1 <= n PROVE f[m + 1] = g[m + 1]
    OBVIOUS
  <2>1. m + 1 \in 1..i /\ m + 1 \in 1..j /\ m + 1 \in 1..n /\ (m + 1) - 1 = m
    OBVIOUS
  <2>2. f[m] = g[m]
    BY <1>4
  <2>3. f[m + 1] = IF s[m + 1] \in S THEN Append(f[m], s[m + 1]) ELSE f[m]
    BY <1>1, <2>1
  <2>4. g[m + 1] = IF t[m + 1] \in W THEN Append(g[m], t[m + 1]) ELSE g[m]
    BY <1>2, <2>1
  <2> QED
    BY <2>1, <2>2, <2>3, <2>4
<1> HIDE DEF T
<1>5. n \in T
  BY <1>3, <1>4, Induction
<1> QED
  BY <1>5 DEF T

(* Picked, element by element. *)
LEMMA PickedEmpty == ASSUME NEW S PROVE Picked(<<>>, S) = <<>>
PROOF
<1>1. Len(<<>>) = 0
  OBVIOUS
<1>2. PICK f : Picks(<<>>, S, 0, f) /\ Picked(<<>>, S) = f[0]
  BY <1>1, PickedBy
<1> QED
  BY <1>2 DEF Picks

(* An element more is picked or not.                                       *)
LEMMA PickedAppend ==
  ASSUME NEW A, NEW s \in Seq(A), NEW x \in A, NEW S
  PROVE  Picked(Append(s, x), S) = IF x \in S THEN Append(Picked(s, S), x) ELSE Picked(s, S)
PROOF
<1>1. PICK n \in Nat : n = Len(s)
  OBVIOUS
<1>2. PICK t : t = Append(s, x)
  OBVIOUS
<1>3. Len(t) = n + 1 /\ t[n + 1] = x /\ \A k \in 1..n : t[k] = s[k]
  BY <1>1, <1>2, AppendProperties
<1>4. PICK f : Picks(s, S, n, f) /\ Picked(s, S) = f[n]
  BY <1>1, PickedBy
<1>5. PICK g : Picks(t, S, n + 1, g) /\ Picked(t, S) = g[n + 1]
  BY <1>3, PickedBy
<1>6. f[n] = g[n]
  BY <1>3, <1>4, <1>5, PickingAgrees
<1>7. g[n + 1] = IF t[n + 1] \in S THEN Append(g[(n + 1) - 1], t[n + 1]) ELSE g[(n + 1) - 1]
  <2>1. n + 1 \in 1..(n + 1)
    OBVIOUS
  <2> QED
    BY <1>5, <2>1 DEF Picks
<1>8. (n + 1) - 1 = n
  OBVIOUS
<1> QED
  BY <1>2, <1>3, <1>4, <1>5, <1>6, <1>7, <1>8

(* Only whether its elements are in the set matters. *)
LEMMA PickedSame ==
  ASSUME NEW A, NEW s \in Seq(A), NEW S, NEW W, \A k \in 1..Len(s) : s[k] \in S <=> s[k] \in W
  PROVE  Picked(s, S) = Picked(s, W)
PROOF
<1>1. PICK n \in Nat : n = Len(s)
  OBVIOUS
<1>2. PICK f : Picks(s, S, n, f) /\ Picked(s, S) = f[n]
  BY <1>1, PickedBy
<1>3. PICK g : Picks(s, W, n, g) /\ Picked(s, W) = g[n]
  BY <1>1, PickedBy
<1>4. \A k \in 1..n : s[k] = s[k] /\ (s[k] \in S <=> s[k] \in W)
  BY <1>1
<1>5. f[n] = g[n]
  BY <1>2, <1>3, <1>4, PickingAgrees
<1> QED
  BY <1>2, <1>3, <1>5

(* What is picked of a sequence is a sequence of the same elements.        *)
LEMMA PickedType ==
  ASSUME NEW A, NEW S
  PROVE  \A s \in Seq(A) : Picked(s, S) \in Seq(A)
PROOF
<1> DEFINE T == {s \in Seq(A) : Picked(s, S) \in Seq(A)}
<1>1. <<>> \in T
  <2>1. <<>> \in Seq(A) /\ Picked(<<>>, S) = <<>>
    BY PickedEmpty
  <2> QED
    BY <2>1
<1>2. ASSUME NEW s \in Seq(A), NEW e \in A, s \in T
      PROVE  Append(s, e) \in T
  <2>1. PICK p \in Seq(A) : p = Picked(s, S)
    BY <1>2
  <2>2. Picked(Append(s, e), S) = IF e \in S THEN Append(p, e) ELSE p
    BY <2>1, PickedAppend
  <2>3. Append(p, e) \in Seq(A) /\ Append(s, e) \in Seq(A)
    OBVIOUS
  <2> QED
    BY <2>2, <2>3
<1> HIDE DEF T
<1>3. \A s \in Seq(A) : s \in T
  BY <1>1, <1>2, SequenceInduction
<1> QED
  BY <1>3 DEF T

(* What is picked of two sequences in a row. *)
LEMMA PickedConcat ==
  ASSUME NEW A, NEW s \in Seq(A), NEW S
  PROVE  \A t \in Seq(A) : Picked(s \o t, S) = Picked(s, S) \o Picked(t, S)
PROOF
<1> DEFINE T == {t \in Seq(A) : Picked(s \o t, S) = Picked(s, S) \o Picked(t, S)}
<1>1. <<>> \in T
  <2>1. Picked(s, S) \in Seq(A)
    BY PickedType
  <2> QED
    BY <2>1, PickedEmpty, ConcatEmptySeq
<1>2. ASSUME NEW t \in Seq(A), NEW e \in A, t \in T
      PROVE  Append(t, e) \in T
  <2>1. PICK u, v : u = Picked(s, S) /\ v = Picked(t, S)
    OBVIOUS
  <2>2. u \in Seq(A) /\ v \in Seq(A)
    BY <2>1, PickedType
  <2>3. s \o Append(t, e) = Append(s \o t, e)
    OBVIOUS
  <2>4. PICK c : c = s \o t /\ c \in Seq(A)
    <3>1. s \o t \in Seq(A)
      BY ConcatProperties
    <3> QED
      BY <3>1
  <2>5. Picked(s \o Append(t, e), S) = IF e \in S THEN Append(u \o v, e) ELSE u \o v
    <3>1. Picked(c, S) = u \o v
      BY <1>2, <2>1, <2>4
    <3>2. Picked(Append(c, e), S) = IF e \in S THEN Append(Picked(c, S), e) ELSE Picked(c, S)
      <4>1. c \in Seq(A)
        BY <2>4
      <4> QED
        BY <4>1, PickedAppend
    <3> QED
      BY <2>3, <2>4, <3>1, <3>2
  <2>6. Picked(Append(t, e), S) = IF e \in S THEN Append(v, e) ELSE v
    BY <2>1, PickedAppend
  <2>7. u \o Append(v, e) = Append(u \o v, e)
    BY <2>2
  <2>8. Append(t, e) \in Seq(A)
    OBVIOUS
  <2> QED
    BY <2>1, <2>5, <2>6, <2>7, <2>8
<1> HIDE DEF T
<1>3. \A t \in Seq(A) : t \in T
  BY <1>1, <1>2, SequenceInduction
<1> QED
  BY <1>3 DEF T

(* Where all are in the set, nothing is left out.                          *)
LEMMA PickedAll ==
  ASSUME NEW A, NEW S
  PROVE  \A s \in Seq(A) : (\A k \in 1..Len(s) : s[k] \in S) => Picked(s, S) = s
PROOF
<1> DEFINE T == {s \in Seq(A) : (\A k \in 1..Len(s) : s[k] \in S) => Picked(s, S) = s}
<1>1. <<>> \in T
  BY PickedEmpty
<1>2. ASSUME NEW s \in Seq(A), NEW e \in A, s \in T
      PROVE  Append(s, e) \in T
  <2> SUFFICES ASSUME \A k \in 1..Len(Append(s, e)) : Append(s, e)[k] \in S
               PROVE  Picked(Append(s, e), S) = Append(s, e)
    <3>1. Append(s, e) \in Seq(A)
      OBVIOUS
    <3> QED
      BY <3>1
  <2>1. e \in S /\ \A k \in 1..Len(s) : s[k] \in S
    <3>1. PICK n \in Nat : n = Len(s)
      OBVIOUS
    <3>2. PICK t : t = Append(s, e)
      OBVIOUS
    <3>3. Len(t) = n + 1 /\ t[n + 1] = e /\ \A k \in 1..n : t[k] = s[k]
      BY <3>1, <3>2, AppendProperties
    <3>4. \A k \in 1..(n + 1) : t[k] \in S
      BY <3>2, <3>3
    <3>5. t[n + 1] \in S /\ \A k \in 1..n : t[k] \in S
      BY <3>4
    <3> QED
      BY <3>1, <3>3, <3>5
  <2>2. Picked(s, S) = s
    BY <1>2, <2>1
  <2> QED
    BY <2>1, <2>2, PickedAppend
<1> HIDE DEF T
<1>3. \A s \in Seq(A) : s \in T
  BY <1>1, <1>2, SequenceInduction
<1> QED
  BY <1>3 DEF T

(* Where none is in the set, nothing is picked.                            *)
LEMMA PickedNone ==
  ASSUME NEW A, NEW S, NEW s \in Seq(A), \A k \in 1..Len(s) : s[k] \notin S
  PROVE  Picked(s, S) = <<>>
PROOF
<1> DEFINE T == {r \in Seq(A) : Picked(r, {}) = <<>>}
<1>1. <<>> \in T
  BY PickedEmpty
<1>2. ASSUME NEW r \in Seq(A), NEW e \in A, r \in T
      PROVE  Append(r, e) \in T
  BY <1>2, PickedAppend
<1> HIDE DEF T
<1>3. s \in T
  BY <1>1, <1>2, SequenceInduction
<1>4. Picked(s, S) = Picked(s, {})
  BY PickedSame
<1> QED
  BY <1>3, <1>4 DEF T

(* Picked, beginning with the first element.                               *)
LEMMA PickedFirst ==
  ASSUME NEW A, NEW S, NEW s \in Seq(A), s # <<>>
  PROVE  Picked(s, S) = IF Head(s) \in S THEN <<Head(s)>> \o Picked(Tail(s), S)
                                         ELSE Picked(Tail(s), S)
PROOF
<1>1. PICK x, t : x = Head(s) /\ t = Tail(s)
  OBVIOUS
<1>2. x \in A /\ t \in Seq(A) /\ <<x>> \in Seq(A) /\ s = <<x>> \o t
  BY <1>1
<1>3. Picked(<<x>>, S) = IF x \in S THEN <<x>> ELSE <<>>
  <2>1. <<x>> = Append(<<>>, x) /\ <<>> \in Seq(A)
    OBVIOUS
  <2>2. Picked(Append(<<>>, x), S) = IF x \in S THEN Append(Picked(<<>>, S), x) ELSE Picked(<<>>, S)
    BY <1>2, <2>1, PickedAppend
  <2>3. Picked(<<>>, S) = <<>>
    BY PickedEmpty
  <2> QED
    BY <2>1, <2>2, <2>3
<1>4. Picked(s, S) = Picked(<<x>>, S) \o Picked(t, S)
  <2>1. PICK u \in Seq(A) : u = <<x>>
    BY <1>2
  <2>2. Picked(u \o t, S) = Picked(u, S) \o Picked(t, S)
    BY <1>2, PickedConcat
  <2> QED
    BY <1>2, <2>1, <2>2
<1>5. Picked(t, S) \in Seq(A)
  BY <1>2, PickedType
<1>6. <<>> \o Picked(t, S) = Picked(t, S)
  BY <1>5
<1> QED
  BY <1>1, <1>3, <1>4, <1>6

-----------------------------------------------------------------------------
(* Streams of pieces: s carries the messages M, the first of them without  *)
(* the t pieces of it that have been taken off already.                    *)
Carries(s, t, M) ==
  /\ Len(s) + t = 2 * Len(M)
  /\ \A k \in 1..Len(M) : /\ s[2 * k - t] = M[k]
                          /\ 2 * k - t > 1 => s[2 * k - t - 1] = M[k]

Messages(s, t) == [k \in 1..((Len(s) + t) \div 2) |-> s[2 * k - t]]

(* The messages that pieces carry can be read off them.                    *)
LEMMA CarriesMessages ==
  ASSUME NEW A, NEW s \in Seq(A), NEW t \in {0, 1}, NEW M \in Seq(A), Carries(s, t, M)
  PROVE  Messages(s, t) = M
PROOF
<1>1. PICK n \in Nat : n = Len(M)
  OBVIOUS
<1>2. (Len(s) + t) \div 2 = n
  <2>1. PICK m \in Nat : m = Len(s)
    OBVIOUS
  <2>2. m + t = 2 * n
    BY <1>1, <2>1 DEF Carries
  <2>3. (2 * n) \div 2 = n
    OBVIOUS
  <2> QED
    BY <2>1, <2>2, <2>3
<1>3. M = [k \in 1..n |-> M[k]]
  BY <1>1
<1>4. \A k \in 1..n : s[2 * k - t] = M[k]
  BY <1>1 DEF Carries
<1> QED
  BY <1>2, <1>3, <1>4 DEF Messages

(* Two pieces more carry a message more.                                   *)
LEMMA CarriesPieces ==
  ASSUME NEW A, NEW s \in Seq(A), NEW t \in {0, 1}, NEW M \in Seq(A), Carries(s, t, M), NEW x \in A
  PROVE  Carries(s \o Pieces(x), t, Append(M, x))
PROOF
<1>1. PICK n \in Nat : n = Len(M)
  OBVIOUS
<1>2. PICK r : r = s \o <<x, x>>
  OBVIOUS
<1>3. PICK N : N = Append(M, x)
  OBVIOUS
<1>4. Len(s) = 2 * n - t /\ Len(s) \in Nat
  BY <1>1 DEF Carries
<1>5. /\ Len(r) = Len(s) + 2
      /\ r[Len(s) + 1] = x
      /\ r[Len(s) + 2] = x
      /\ \A k \in 1..Len(s) : r[k] = s[k]
  BY <1>2
<1>6. Len(N) = n + 1 /\ N[n + 1] = x /\ \A k \in 1..n : N[k] = M[k]
  BY <1>1, <1>3
<1>7. \A k \in 1..n : /\ s[2 * k - t] = M[k]
                      /\ 2 * k - t > 1 => s[2 * k - t - 1] = M[k]
  BY <1>1 DEF Carries
<1>8. ASSUME NEW k \in 1..(n + 1)
      PROVE  /\ r[2 * k - t] = N[k]
             /\ 2 * k - t > 1 => r[2 * k - t - 1] = N[k]
  <2>1. CASE k = n + 1
    <3>1. 2 * k - t = Len(s) + 2 /\ 2 * k - t - 1 = Len(s) + 1
      BY <1>4, <2>1
    <3> QED
      BY <1>5, <1>6, <2>1, <3>1
  <2>2. CASE k \in 1..n
    <3>1. 2 * k - t \in 1..Len(s)
      BY <1>4, <2>2
    <3>2. 2 * k - t > 1 => 2 * k - t - 1 \in 1..Len(s)
      BY <1>4, <2>2
    <3> QED
      BY <1>5, <1>6, <1>7, <2>2, <3>1, <3>2
  <2> QED
    BY <2>1, <2>2
<1>9. Len(r) + t = 2 * (n + 1)
  BY <1>4, <1>5
<1>10. Carries(r, t, N)
  BY <1>6, <1>8, <1>9 DEF Carries
<1> QED
  BY <1>2, <1>3, <1>10 DEF Pieces

(* Without its first w messages it carries the rest. *)
LEMMA CarriesCut ==
  ASSUME NEW A, NEW s \in Seq(A), NEW t \in {0, 1}, NEW M \in Seq(A), Carries(s, t, M),
         NEW w \in Nat, w <= Len(M), w > 0 \/ t = 0
  PROVE  /\ SubSeq(s, 2 * w - t + 1, Len(s)) \in Seq(A)
         /\ SubSeq(M, w + 1, Len(M)) \in Seq(A)
         /\ Carries(SubSeq(s, 2 * w - t + 1, Len(s)), 0, SubSeq(M, w + 1, Len(M)))
PROOF
<1>1. PICK n \in Nat : n = Len(M)
  OBVIOUS
<1>2. Len(s) = 2 * n - t /\ Len(s) \in Nat
  BY <1>1 DEF Carries
<1>3. PICK r : r = SubSeq(s, 2 * w - t + 1, Len(s))
  OBVIOUS
<1>4. PICK N : N = SubSeq(M, w + 1, n)
  OBVIOUS
<1>5. /\ r \in Seq(A)
      /\ Len(r) = 2 * (n - w)
      /\ \A k \in 1..(2 * (n - w)) : r[k] = s[2 * w - t + k]
  <2>1. \A k \in (2 * w - t + 1)..Len(s) : s[k] \in A
    BY <1>2
  <2> QED
    BY <1>1, <1>2, <1>3, <2>1, SubSeqProperties
<1>6. /\ N \in Seq(A)
      /\ Len(N) = n - w
      /\ \A k \in 1..(n - w) : N[k] = M[w + k]
  <2>1. \A k \in (w + 1)..n : M[k] \in A
    BY <1>1
  <2> QED
    BY <1>1, <1>4, <2>1, SubSeqProperties
<1>7. ASSUME NEW k \in 1..(n - w)
      PROVE  r[2 * k] = N[k] /\ (2 * k > 1 => r[2 * k - 1] = N[k])
  <2>1. w + k \in 1..n /\ 2 * k \in 1..(2 * (n - w)) /\ 2 * k - 1 \in 1..(2 * (n - w))
    BY <1>1
  <2>2. s[2 * (w + k) - t] = M[w + k] /\ s[2 * (w + k) - t - 1] = M[w + k]
    <3>1. 2 * (w + k) - t > 1
      OBVIOUS
    <3> QED
      BY <1>1, <2>1, <3>1 DEF Carries
  <2>3. 2 * w - t + 2 * k = 2 * (w + k) - t /\ 2 * w - t + (2 * k - 1) = 2 * (w + k) - t - 1
    OBVIOUS
  <2>4. r[2 * k] = s[2 * (w + k) - t] /\ r[2 * k - 1] = s[2 * (w + k) - t - 1]
    BY <1>5, <2>1, <2>3
  <2> QED
    BY <1>6, <2>2, <2>4
<1>8. Carries(r, 0, N)
  BY <1>5, <1>6, <1>7 DEF Carries
<1> QED
  BY <1>1, <1>3, <1>4, <1>5, <1>6, <1>8

(* A part of a sequence, and two in a row, element by element. *)
LEMMA Cut ==
  ASSUME NEW A, NEW s \in Seq(A), NEW i \in Nat, NEW j \in Nat, i <= j, j <= Len(s)
  PROVE  /\ SubSeq(s, i + 1, j) \in Seq(A)
         /\ Len(SubSeq(s, i + 1, j)) = j - i
         /\ \A k \in 1..(j - i) : SubSeq(s, i + 1, j)[k] = s[i + k]
PROOF
<1>1. \A k \in (i + 1)..j : s[k] \in A
  <2> SUFFICES ASSUME NEW k \in (i + 1)..j PROVE s[k] \in A
    OBVIOUS
  <2>1. k \in 1..Len(s)
    OBVIOUS
  <2> QED
    BY <2>1
<1>2. i + 1 \in Int /\ j \in Int
  OBVIOUS
<1>3. PICK c : c = SubSeq(s, i + 1, j)
  OBVIOUS
<1>4. /\ c \in Seq(A)
      /\ Len(c) = IF i + 1 <= j THEN j - (i + 1) + 1 ELSE 0
      /\ \A k \in 1..(j - (i + 1) + 1) : c[k] = s[i + 1 + k - 1]
  BY <1>1, <1>2, <1>3, SubSeqProperties
<1>5. Len(c) = j - i
  BY <1>4
<1>6. ASSUME NEW k \in 1..(j - i) PROVE c[k] = s[i + k]
  <2>1. k \in 1..(j - (i + 1) + 1) /\ i + 1 + k - 1 = i + k
    OBVIOUS
  <2>2. c[k] = s[i + 1 + k - 1]
    BY <1>4, <2>1
  <2> QED
    BY <2>1, <2>2
<1> QED
  BY <1>3, <1>4, <1>5, <1>6

(* Two sequences, one behind the other.                                    *)
LEMMA Joined ==
  ASSUME NEW A, NEW s \in Seq(A), NEW t \in Seq(A)
  PROVE  /\ s \o t \in Seq(A)
         /\ Len(s \o t) = Len(s) + Len(t)
         /\ \A k \in 1..Len(s) : (s \o t)[k] = s[k]
         /\ \A k \in 1..Len(t) : (s \o t)[Len(s) + k] = t[k]
PROOF
<1>0. PICK c : c = s \o t
  OBVIOUS
<1>1. PICK l \in Nat, m \in Nat : l = Len(s) /\ m = Len(t)
  OBVIOUS
<1>2. /\ c \in Seq(A)
      /\ Len(c) = l + m
      /\ \A i \in 1..(l + m) : c[i] = IF i <= l THEN s[i] ELSE t[i - l]
  BY <1>0, <1>1, ConcatProperties
<1>3. ASSUME NEW k \in 1..l PROVE c[k] = s[k]
  <2>1. k \in 1..(l + m) /\ k <= l
    OBVIOUS
  <2> QED
    BY <1>2, <2>1
<1>4. ASSUME NEW k \in 1..m PROVE c[l + k] = t[k]
  <2>1. l + k \in 1..(l + m) /\ ~(l + k <= l) /\ (l + k) - l = k
    OBVIOUS
  <2> QED
    BY <1>2, <2>1
<1> QED
  BY <1>0, <1>1, <1>2, <1>3, <1>4

(* A read: the first n of what is on its way joins what has been received. *)
ReadOf(b, s, n) == b \o SubSeq(s, 1, n)
LeftOf(s, n) == SubSeq(s, n + 1, Len(s))
Reads(A, b, s, n) ==
  /\ ReadOf(b, s, n) \in Seq(A)
  /\ LeftOf(s, n) \in Seq(A)
  /\ Len(ReadOf(b, s, n)) = Len(b) + n
  /\ Len(LeftOf(s, n)) = Len(s) - n
  /\ b \o s \in Seq(A)
  /\ Len(b \o s) = Len(b) + Len(s)
  /\ \A k \in 1..Len(ReadOf(b, s, n)) : ReadOf(b, s, n)[k] = (b \o s)[k]
  /\ \A j \in 0..Len(ReadOf(b, s, n)) :
       SubSeq(ReadOf(b, s, n), j + 1, Len(ReadOf(b, s, n))) \o LeftOf(s, n)
         = SubSeq(b \o s, j + 1, Len(b \o s))

(* A read moves pieces from the stream to the buffer and changes none.     *)
LEMMA Reading ==
  ASSUME NEW A, NEW b \in Seq(A), NEW s \in Seq(A), NEW n \in 1..Len(s)
  PROVE  Reads(A, b, s, n)
PROOF
<1>1. PICK l \in Nat, m \in Nat : l = Len(b) /\ m = Len(s)
  OBVIOUS
<1>2. PICK p, r, a, w : /\ p = SubSeq(s, 1, n)
                       /\ r = LeftOf(s, n)
                       /\ a = ReadOf(b, s, n)
                       /\ w = b \o s
  OBVIOUS
<1>3. n \in Nat /\ n <= m
  BY <1>1
<1>4. p \in Seq(A) /\ Len(p) = n /\ \A k \in 1..n : p[k] = s[k]
  <2>1. /\ SubSeq(s, 0 + 1, n) \in Seq(A)
        /\ Len(SubSeq(s, 0 + 1, n)) = n - 0
        /\ \A k \in 1..(n - 0) : SubSeq(s, 0 + 1, n)[k] = s[0 + k]
    BY <1>1, <1>3, Cut
  <2>2. 0 + 1 = 1 /\ n - 0 = n /\ \A k \in 1..n : 0 + k = k
    BY <1>3
  <2> QED
    BY <1>2, <2>1, <2>2
<1>5. r \in Seq(A) /\ Len(r) = m - n /\ \A k \in 1..(m - n) : r[k] = s[n + k]
  <2>1. r = SubSeq(s, n + 1, m) /\ m <= Len(s)
    BY <1>1, <1>2 DEF LeftOf
  <2>2. /\ SubSeq(s, n + 1, m) \in Seq(A)
        /\ Len(SubSeq(s, n + 1, m)) = m - n
        /\ \A k \in 1..(m - n) : SubSeq(s, n + 1, m)[k] = s[n + k]
    BY <1>3, <2>1, Cut
  <2> QED
    BY <2>1, <2>2
<1>6. /\ a \in Seq(A)
      /\ Len(a) = l + n
      /\ \A k \in 1..l : a[k] = b[k]
      /\ \A k \in 1..n : a[l + k] = p[k]
  <2>1. a = b \o p
    BY <1>2 DEF ReadOf
  <2>2. /\ b \o p \in Seq(A)
        /\ Len(b \o p) = Len(b) + Len(p)
        /\ \A k \in 1..Len(b) : (b \o p)[k] = b[k]
        /\ \A k \in 1..Len(p) : (b \o p)[Len(b) + k] = p[k]
    <3>1. p \in Seq(A)
      BY <1>4
    <3> QED
      BY <3>1, Joined
  <2> QED
    BY <1>1, <1>4, <2>1, <2>2
<1>7. /\ w \in Seq(A)
      /\ Len(w) = l + m
      /\ \A k \in 1..l : w[k] = b[k]
      /\ \A k \in 1..m : w[l + k] = s[k]
  BY <1>1, <1>2, Joined
<1>8. ASSUME NEW k \in 1..(l + n) PROVE a[k] = w[k]
  <2>1. CASE k <= l
    <3>1. k \in 1..l
      BY <2>1
    <3> QED
      BY <1>6, <1>7, <3>1
  <2>2. CASE k > l
    <3>1. PICK i \in 1..n : k = l + i
      <4>1. k - l \in 1..n /\ k = l + (k - l)
        BY <1>3, <2>2
      <4> QED
        BY <4>1
    <3>2. i \in 1..m
      BY <1>3
    <3> QED
      BY <1>4, <1>6, <1>7, <3>1, <3>2
  <2> QED
    BY <2>1, <2>2
<1>9. ASSUME NEW k \in 1..(m - n) PROVE r[k] = w[l + n + k]
  <2>1. n + k \in 1..m /\ l + n + k = l + (n + k)
    BY <1>3
  <2> QED
    BY <1>5, <1>7, <2>1
<1>10. ASSUME NEW j \in 0..(l + n)
       PROVE  SubSeq(a, j + 1, l + n) \o r = SubSeq(w, j + 1, l + m)
  <2>1. PICK c, d, e, x : /\ c = SubSeq(a, j + 1, l + n)
                         /\ d = SubSeq(w, j + 1, l + m)
                         /\ e = c \o r
                         /\ x = l + n - j
    OBVIOUS
  <2>2. x \in Nat /\ j \in Nat /\ l + n \in Nat /\ l + m \in Nat /\ j <= l + n /\ j <= l + m
    BY <1>3, <2>1
  <2>3. c \in Seq(A) /\ Len(c) = x /\ \A k \in 1..x : c[k] = a[j + k]
    BY <1>6, <2>1, <2>2, Cut
  <2>4. d \in Seq(A) /\ Len(d) = l + m - j /\ \A k \in 1..(l + m - j) : d[k] = w[j + k]
    BY <1>7, <2>1, <2>2, Cut
  <2>5. /\ e \in Seq(A)
        /\ Len(e) = x + (m - n)
        /\ \A k \in 1..x : e[k] = c[k]
        /\ \A k \in 1..(m - n) : e[x + k] = r[k]
    <3>1. /\ c \o r \in Seq(A)
          /\ Len(c \o r) = Len(c) + Len(r)
          /\ \A k \in 1..Len(c) : (c \o r)[k] = c[k]
          /\ \A k \in 1..Len(r) : (c \o r)[Len(c) + k] = r[k]
      <4>1. c \in Seq(A) /\ r \in Seq(A)
        BY <1>5, <2>3
      <4> QED
        BY <4>1, Joined
    <3> QED
      BY <1>5, <2>1, <2>3, <3>1
  <2>6. l + m - j = x + (m - n)
    BY <1>3, <2>1
  <2>7. ASSUME NEW k \in 1..(l + m - j) PROVE e[k] = d[k]
    <3>1. CASE k <= x
      <4>1. k \in 1..x /\ j + k \in 1..(l + n)
        BY <1>3, <2>1, <3>1
      <4> QED
        BY <1>8, <2>3, <2>4, <2>5, <4>1
    <3>2. CASE k > x
      <4>1. PICK i \in 1..(m - n) : k = x + i
        <5>1. k - x \in 1..(m - n) /\ k = x + (k - x)
          BY <1>3, <2>2, <2>6, <3>2
        <5> QED
          BY <5>1
      <4>2. j + k = l + n + i
        BY <1>3, <2>1, <4>1
      <4> QED
        BY <1>9, <2>4, <2>5, <4>1, <4>2
    <3> QED
      BY <2>2, <3>1, <3>2
  <2>8. e = d
    BY <2>4, <2>5, <2>6, <2>7, SeqEqual
  <2> QED
    BY <2>1, <2>8
<1> QED
  BY <1>1, <1>2, <1>5, <1>6, <1>7, <1>8, <1>10 DEF Reads

(* What is whole of what has arrived are the first of the messages. *)
LEMMA WholeOfRead ==
  ASSUME NEW A, NEW b \in Seq(A), NEW s \in Seq(A), NEW n \in 1..Len(s),
         NEW M \in Seq(A), Carries(b \o s, 0, M)
  PROVE  /\ Whole(ReadOf(b, s, n)) \in Seq(A)
         /\ Len(Whole(ReadOf(b, s, n))) <= Len(M)
         /\ \A k \in 1..Len(Whole(ReadOf(b, s, n))) : Whole(ReadOf(b, s, n))[k] = M[k]
         /\ 2 * Len(Whole(ReadOf(b, s, n))) <= Len(ReadOf(b, s, n))
PROOF
<1>1. PICK a, x : a = ReadOf(b, s, n) /\ x = b \o s
  OBVIOUS
<1>2. PICK m \in Nat, l \in Nat : m = Len(M) /\ l = Len(b) + n
  OBVIOUS
<1>3. /\ a \in Seq(A)
      /\ Len(a) = Len(b) + n
      /\ Len(x) = Len(b) + Len(s)
      /\ \A k \in 1..Len(a) : a[k] = x[k]
  <2>1. Reads(A, b, s, n)
    BY Reading
  <2> QED
    BY <1>1, <2>1 DEF Reads
<1>4. l <= Len(x) /\ Len(a) = l /\ \A k \in 1..l : a[k] = x[k]
  <2>1. PICK i \in Nat, j \in Nat : i = Len(b) /\ j = Len(s)
    OBVIOUS
  <2>2. n \in 1..j
    BY <2>1
  <2>3. l = i + n /\ Len(x) = i + j
    BY <1>2, <1>3, <2>1
  <2>4. Len(a) = l
    BY <1>2, <1>3
  <2>5. l <= i + j
    BY <2>2, <2>3
  <2> QED
    BY <1>3, <2>3, <2>4, <2>5
<1>5. PICK h \in Nat : h = l \div 2 /\ 2 * h <= l
  BY <1>2
<1>6. Len(x) = 2 * m /\ \A k \in 1..m : x[2 * k] = M[k]
  <2>1. Len(x) + 0 = 2 * m /\ \A k \in 1..m : x[2 * k - 0] = M[k]
    BY <1>1, <1>2 DEF Carries
  <2>2. Len(x) \in Nat
    BY <1>2, <1>3
  <2> QED
    BY <2>1, <2>2
<1>7. h <= m
  BY <1>4, <1>5, <1>6
<1>8. \A k \in 1..h : a[2 * k] = M[k] /\ M[k] \in A
  <2> SUFFICES ASSUME NEW k \in 1..h PROVE a[2 * k] = M[k] /\ M[k] \in A
    OBVIOUS
  <2>1. 2 * k \in 1..l /\ k \in 1..m
    BY <1>5, <1>7
  <2> QED
    BY <1>2, <1>4, <1>6, <2>1
<1>9. PICK w : w = Whole(a)
  OBVIOUS
<1>10. w = [k \in 1..h |-> a[2 * k]]
  BY <1>4, <1>5, <1>9 DEF Whole
<1>11. w \in Seq(A)
  <2>1. \A k \in 1..h : a[2 * k] \in A
    BY <1>8
  <2> QED
    BY <1>10, <2>1, IsASeq
<1>12. Len(w) = h /\ \A k \in 1..h : w[k] = M[k]
  BY <1>8, <1>10, <1>11
<1> QED
  BY <1>1, <1>2, <1>4, <1>5, <1>7, <1>9, <1>11, <1>12

(* What a reader that retrieves w messages leaves. *)
LEMMA Retrieving ==
  ASSUME NEW A, NEW b \in Seq(A), NEW s \in Seq(A), NEW n \in 1..Len(s),
         NEW M \in Seq(A), Carries(b \o s, 0, M),
         NEW w \in Nat, w <= Len(Whole(ReadOf(b, s, n)))
  PROVE  /\ Rest(ReadOf(b, s, n), w) \in Seq(A)
         /\ LeftOf(s, n) \in Seq(A)
         /\ SubSeq(M, w + 1, Len(M)) \in Seq(A)
         /\ Carries(Rest(ReadOf(b, s, n), w) \o LeftOf(s, n), 0, SubSeq(M, w + 1, Len(M)))
PROOF
<1>1. PICK a, r, x : a = ReadOf(b, s, n) /\ r = LeftOf(s, n) /\ x = b \o s
  OBVIOUS
<1>2. /\ a \in Seq(A)
      /\ r \in Seq(A)
      /\ x \in Seq(A)
      /\ \A j \in 0..Len(a) : SubSeq(a, j + 1, Len(a)) \o r = SubSeq(x, j + 1, Len(x))
  <2>1. Reads(A, b, s, n)
    BY Reading
  <2> QED
    BY <1>1, <2>1 DEF Reads
<1>3. PICK l \in Nat : l = Len(a)
  BY <1>2
<1>4. w <= Len(M) /\ 2 * w <= l
  <2>1. PICK W \in Seq(A) : W = Whole(a) /\ Len(W) <= Len(M) /\ 2 * Len(W) <= l
    BY <1>1, <1>3, WholeOfRead
  <2>2. w <= Len(W) /\ Len(W) \in Nat
    BY <1>1, <2>1
  <2> QED
    BY <1>3, <2>1, <2>2
<1>5. SubSeq(a, 2 * w + 1, l) \o r = SubSeq(x, 2 * w + 1, Len(x))
  <2>1. 2 * w \in 0..l
    BY <1>4
  <2> QED
    BY <1>2, <1>3, <2>1
<1>6. SubSeq(a, 2 * w + 1, l) \in Seq(A)
  <2>1. 2 * w \in Nat /\ 2 * w <= l /\ l <= Len(a)
    BY <1>3, <1>4
  <2>2. a \in Seq(A)
    BY <1>2
  <2> QED
    BY <2>1, <2>2, Cut
<1>7. /\ SubSeq(M, w + 1, Len(M)) \in Seq(A)
      /\ Carries(SubSeq(x, 2 * w - 0 + 1, Len(x)), 0, SubSeq(M, w + 1, Len(M)))
  <2>1. x \in Seq(A) /\ Carries(x, 0, M)
    BY <1>1, <1>2
  <2>2. w <= Len(M) /\ 0 \in {0, 1}
    BY <1>4
  <2> QED
    BY <2>1, <2>2, CarriesCut
<1>8. 2 * w - 0 + 1 = 2 * w + 1
  OBVIOUS
<1>9. Rest(a, w) = SubSeq(a, 2 * w + 1, l)
  BY <1>3 DEF Rest
<1> QED
  BY <1>1, <1>2, <1>5, <1>6, <1>7, <1>8, <1>9

-----------------------------------------------------------------------------
(* What has been received and what is on its way, as one stream. *)
MessagesOf(b, s, t) == Messages(b \o s, t)
Stream(A, b, s, t) ==
  MessagesOf(b, s, t) \in Seq(A) /\ Carries(b \o s, t, MessagesOf(b, s, t))

\* A message more at its end.
Appended(A, b, s, t, x) ==
  /\ s \o Pieces(x) \in Seq(A)
  /\ Stream(A, b, s \o Pieces(x), t)
  /\ MessagesOf(b, s \o Pieces(x), t) = Append(MessagesOf(b, s, t), x)

(* What is put on a stream is the last of its messages.                    *)
LEMMA AppendedStream ==
  ASSUME NEW A, NEW b \in Seq(A), NEW s \in Seq(A), NEW t \in {0, 1}, Stream(A, b, s, t), NEW x \in A
  PROVE  Appended(A, b, s, t, x)
PROOF
<1>1. PICK p : p = Pieces(x)
  OBVIOUS
<1>2. p \in Seq(A)
  <2>1. <<x, x>> \in Seq(A)
    OBVIOUS
  <2> QED
    BY <1>1, <2>1 DEF Pieces
<1>3. PICK M : M = MessagesOf(b, s, t)
  OBVIOUS
<1>4. M \in Seq(A) /\ Carries(b \o s, t, M)
  BY <1>3 DEF Stream
<1>5. b \o s \in Seq(A)
  OBVIOUS
<1>6. Carries((b \o s) \o Pieces(x), t, Append(M, x))
  BY <1>4, <1>5, CarriesPieces
<1>7. b \o (s \o p) = (b \o s) \o p
  BY <1>2, ConcatAssociative
<1>8. b \o (s \o p) \in Seq(A) /\ s \o p \in Seq(A)
  BY <1>2
<1>9. Append(M, x) \in Seq(A)
  BY <1>4
<1>10. Messages(b \o (s \o p), t) = Append(M, x)
  <2>1. PICK y : y = b \o (s \o p)
    OBVIOUS
  <2>2. y \in Seq(A) /\ Carries(y, t, Append(M, x))
    BY <1>1, <1>6, <1>7, <1>8, <2>1
  <2>3. Messages(y, t) = Append(M, x)
    BY <1>9, <2>2, CarriesMessages
  <2> QED
    BY <2>1, <2>3
<1>11. MessagesOf(b, s \o p, t) = Append(M, x)
  BY <1>10 DEF MessagesOf
<1>12. Stream(A, b, s \o p, t)
  BY <1>1, <1>6, <1>7, <1>9, <1>11 DEF Stream
<1> QED
  BY <1>1, <1>3, <1>8, <1>11, <1>12 DEF Appended

\* w messages less at its beginning.
Retrieved(A, b, s, n, w) ==
  LET a == ReadOf(b, s, n)
      M == MessagesOf(b, s, 0)
  IN  /\ Rest(a, w) \in Seq(A)
      /\ LeftOf(s, n) \in Seq(A)
      /\ Stream(A, Rest(a, w), LeftOf(s, n), 0)
      /\ SubSeq(Whole(a), 1, w) \in Seq(A)
      /\ M = SubSeq(Whole(a), 1, w) \o MessagesOf(Rest(a, w), LeftOf(s, n), 0)

(* What a codec retrieves is the first of the stream's messages.           *)
LEMMA RetrievedStream ==
  ASSUME NEW A, NEW b \in Seq(A), NEW s \in Seq(A), NEW n \in 1..Len(s), Stream(A, b, s, 0),
         NEW w \in Nat, w <= Len(Whole(ReadOf(b, s, n)))
  PROVE  Retrieved(A, b, s, n, w)
PROOF
<1>1. PICK M : M = MessagesOf(b, s, 0)
  OBVIOUS
<1>2. M \in Seq(A) /\ Carries(b \o s, 0, M)
  BY <1>1 DEF Stream
<1>3. PICK a, c, r, d : /\ a = ReadOf(b, s, n)
                       /\ c = Rest(a, w)
                       /\ r = LeftOf(s, n)
                       /\ d = SubSeq(M, w + 1, Len(M))
  OBVIOUS
<1>4. c \in Seq(A) /\ r \in Seq(A) /\ d \in Seq(A) /\ Carries(c \o r, 0, d)
  BY <1>2, <1>3, Retrieving
<1>5. MessagesOf(c, r, 0) = d
  <2>1. PICK y : y = c \o r
    OBVIOUS
  <2>2. y \in Seq(A)
    BY <1>4, <2>1
  <2>3. Messages(y, 0) = d
    BY <1>4, <2>1, <2>2, CarriesMessages
  <2> QED
    BY <2>1, <2>3 DEF MessagesOf
<1>6. Stream(A, c, r, 0)
  BY <1>4, <1>5 DEF Stream
<1>7. PICK W : W = Whole(a)
  OBVIOUS
<1>8. PICK v \in Nat, m \in Nat : v = Len(W) /\ m = Len(M)
  <2>1. W \in Seq(A)
    BY <1>2, <1>3, <1>7, WholeOfRead
  <2> QED
    BY <1>2, <2>1
<1>9. W \in Seq(A) /\ v <= m /\ w <= v /\ \A k \in 1..v : W[k] = M[k]
  <2>1. /\ Whole(ReadOf(b, s, n)) \in Seq(A)
        /\ Len(Whole(ReadOf(b, s, n))) <= Len(M)
        /\ \A k \in 1..Len(Whole(ReadOf(b, s, n))) : Whole(ReadOf(b, s, n))[k] = M[k]
    BY <1>2, WholeOfRead
  <2>2. W = Whole(ReadOf(b, s, n))
    BY <1>3, <1>7
  <2> QED
    BY <1>8, <2>1, <2>2
<1>10. PICK f : f = SubSeq(W, 1, w)
  OBVIOUS
<1>11. f \in Seq(A) /\ Len(f) = w /\ \A k \in 1..w : f[k] = M[k]
  <2>1. /\ SubSeq(W, 0 + 1, w) \in Seq(A)
        /\ Len(SubSeq(W, 0 + 1, w)) = w - 0
        /\ \A k \in 1..(w - 0) : SubSeq(W, 0 + 1, w)[k] = W[0 + k]
    BY <1>8, <1>9, Cut
  <2>2. 0 + 1 = 1 /\ w - 0 = w /\ \A k \in 1..w : 0 + k = k /\ k \in 1..v
    BY <1>9
  <2> QED
    BY <1>9, <1>10, <2>1, <2>2
<1>12. Len(d) = m - w /\ \A k \in 1..(m - w) : d[k] = M[w + k]
  <2>1. w <= m /\ m <= Len(M) /\ M \in Seq(A)
    BY <1>2, <1>8, <1>9
  <2> QED
    BY <1>3, <1>8, <2>1, Cut
<1>13. PICK e : e = f \o d
  OBVIOUS
<1>14. /\ e \in Seq(A)
       /\ Len(e) = Len(f) + Len(d)
       /\ \A k \in 1..Len(f) : e[k] = f[k]
       /\ \A k \in 1..Len(d) : e[Len(f) + k] = d[k]
  <2>1. f \in Seq(A) /\ d \in Seq(A)
    BY <1>4, <1>11
  <2> QED
    BY <1>13, <2>1, Joined
<1>15. Len(e) = m /\ \A k \in 1..w : e[k] = f[k] /\ \A j \in 1..(m - w) : e[w + j] = d[j]
  BY <1>8, <1>9, <1>11, <1>12, <1>14
<1>16. ASSUME NEW k \in 1..m PROVE e[k] = M[k]
  <2>1. CASE k <= w
    <3>1. k \in 1..w
      BY <2>1
    <3> QED
      BY <1>11, <1>14, <3>1
  <2>2. CASE k > w
    <3>1. PICK j \in 1..(m - w) : k = w + j
      <4>1. k - w \in 1..(m - w) /\ k = w + (k - w)
        BY <1>9, <2>2
      <4> QED
        BY <4>1
    <3>2. e[w + j] = d[j]
      BY <1>11, <1>12, <1>14
    <3> QED
      BY <1>12, <3>1, <3>2
  <2> QED
    BY <2>1, <2>2
<1>17. e = M
  BY <1>2, <1>8, <1>14, <1>15, <1>16, SeqEqual
<1> QED
  BY <1>1, <1>3, <1>4, <1>5, <1>6, <1>7, <1>10, <1>11, <1>13, <1>17 DEF Retrieved

\* A read of frames: the one that is complete is taken off, or a piece of it.
FrameTaken(A, b, s, t, n) ==
  LET a == ReadOf(b, s, n)
      M == MessagesOf(b, s, t)
      left == SubSeq(a, 2 - t + 1, Len(a))
  IN  /\ Len(a) \in Nat
      /\ LeftOf(s, n) \in Seq(A)
      /\ Len(a) < 2 - t => /\ t = 0
                          /\ Len(a) = 1
                          /\ LeftOf(s, n) # <<>>
                          /\ MessagesOf(<<>>, LeftOf(s, n), 1) = M
                          /\ Stream(A, <<>>, LeftOf(s, n), 1)
      /\ Len(a) >= 2 - t => /\ M # <<>>
                           /\ a[2 - t] = Head(M)
                           /\ left \in Seq(A)
                           /\ MessagesOf(left, LeftOf(s, n), 0) = Tail(M)
                           /\ Stream(A, left, LeftOf(s, n), 0)

(* A read of the websocket server takes the first frame, or a part of it.  *)
LEMMA FrameCut ==
  ASSUME NEW A, NEW b \in Seq(A), NEW s \in Seq(A), NEW t \in {0, 1}, NEW n \in 1..Len(s),
         Stream(A, b, s, t)
  PROVE  FrameTaken(A, b, s, t, n)
PROOF
<1>1. PICK a, r, x, M : /\ a = ReadOf(b, s, n)
                       /\ r = LeftOf(s, n)
                       /\ x = b \o s
                       /\ M = MessagesOf(b, s, t)
  OBVIOUS
<1>2. M \in Seq(A) /\ Carries(x, t, M)
  BY <1>1 DEF Stream
<1>3. PICK m \in Nat : m = Len(M)
  BY <1>2
<1>4. /\ a \in Seq(A)
      /\ r \in Seq(A)
      /\ x \in Seq(A)
      /\ Len(a) = Len(b) + n
      /\ Len(x) = Len(b) + Len(s)
      /\ \A k \in 1..Len(a) : a[k] = x[k]
      /\ \A j \in 0..Len(a) : SubSeq(a, j + 1, Len(a)) \o r = SubSeq(x, j + 1, Len(x))
  <2>1. Reads(A, b, s, n)
    BY Reading
  <2> QED
    BY <1>1, <2>1 DEF Reads
<1>5. PICK l \in Nat, z \in Nat : l = Len(a) /\ z = Len(x)
  BY <1>4
<1>6. /\ z + t = 2 * m
      /\ \A k \in 1..m : x[2 * k - t] = M[k] /\ (2 * k - t > 1 => x[2 * k - t - 1] = M[k])
  BY <1>2, <1>3, <1>5 DEF Carries
<1>7. l >= 1 /\ l <= z /\ m >= 1
  <2>1. Len(b) \in Nat /\ Len(s) \in Nat /\ n >= 1 /\ n <= Len(s) /\ n \in Nat
    OBVIOUS
  <2>2. l = Len(b) + n /\ z = Len(b) + Len(s)
    BY <1>4, <1>5
  <2>3. z + t = 2 * m
    BY <1>6
  <2> QED
    BY <2>1, <2>2, <2>3
<1>8. ASSUME l < 2 - t
      PROVE  /\ t = 0
             /\ l = 1
             /\ r # <<>>
             /\ MessagesOf(<<>>, r, 1) = M
             /\ Stream(A, <<>>, r, 1)
  <2>1. t = 0 /\ l = 1
    BY <1>7, <1>8
  <2>2. <<>> \o r = r
    BY <1>4
  <2>3. r = SubSeq(x, 1 + 1, z)
    <3>1. 1 \in 0..Len(a) /\ Len(a) = 1
      BY <1>5, <2>1
    <3>2. SubSeq(a, 1 + 1, 1) \o r = SubSeq(x, 1 + 1, Len(x))
      BY <1>4, <3>1
    <3>3. SubSeq(a, 1 + 1, 1) = <<>>
      OBVIOUS
    <3> QED
      BY <1>5, <2>2, <3>2, <3>3
  <2>4. Len(r) = z - 1 /\ \A k \in 1..(z - 1) : r[k] = x[1 + k]
    <3>1. x \in Seq(A) /\ 1 <= z /\ z <= Len(x) /\ 1 \in Nat
      BY <1>4, <1>5, <1>7
    <3> QED
      BY <2>3, <3>1, Cut
  <2>5. ASSUME NEW k \in 1..m
        PROVE  r[2 * k - 1] = M[k] /\ (2 * k - 1 > 1 => r[2 * k - 1 - 1] = M[k])
    <3>1. x[2 * k] = M[k] /\ x[2 * k - 1] = M[k]
      <4>1. 2 * k - 0 = 2 * k /\ 2 * k - 0 > 1 /\ 2 * k - 0 - 1 = 2 * k - 1
        OBVIOUS
      <4> QED
        BY <1>6, <2>1, <4>1
    <3>2. 2 * k - 1 \in 1..(z - 1) /\ 1 + (2 * k - 1) = 2 * k
      BY <1>6, <2>1
    <3>3. 2 * k - 1 > 1 => 2 * k - 1 - 1 \in 1..(z - 1) /\ 1 + (2 * k - 1 - 1) = 2 * k - 1
      BY <1>6, <2>1
    <3> QED
      BY <2>4, <3>1, <3>2, <3>3
  <2>6. Carries(r, 1, M)
    <3>1. Len(r) + 1 = 2 * m
      BY <1>6, <2>1, <2>4
    <3> QED
      BY <1>3, <2>5, <3>1 DEF Carries
  <2>7. Messages(r, 1) = M
    <3>1. r \in Seq(A)
      BY <1>4
    <3> QED
      BY <1>2, <2>6, <3>1, CarriesMessages
  <2>8. r # <<>>
    <3>1. Len(r) >= 1
      BY <1>6, <1>7, <2>1, <2>4
    <3> QED
      BY <3>1
  <2>9. MessagesOf(<<>>, r, 1) = M
    BY <2>2, <2>7 DEF MessagesOf
  <2>10. Stream(A, <<>>, r, 1)
    BY <1>2, <2>2, <2>6, <2>9 DEF Stream
  <2> QED
    BY <2>1, <2>8, <2>9, <2>10
<1>9. ASSUME l >= 2 - t, NEW c, c = SubSeq(a, 2 - t + 1, l)
      PROVE  /\ M # <<>>
             /\ a[2 - t] = Head(M)
             /\ c \in Seq(A)
             /\ MessagesOf(c, r, 0) = Tail(M)
             /\ Stream(A, c, r, 0)
  <2>1. M # <<>> /\ Head(M) = M[1]
    BY <1>2, <1>3, <1>7
  <2>2. a[2 - t] = M[1]
    <3>1. 2 - t \in 1..l /\ 2 * 1 - t = 2 - t
      BY <1>9
    <3>2. x[2 * 1 - t] = M[1]
      BY <1>6, <1>7
    <3> QED
      BY <1>4, <1>5, <3>1, <3>2
  <2>3. c \o r = SubSeq(x, 2 - t + 1, z)
    <3>1. 2 - t \in 0..l
      BY <1>9
    <3> QED
      BY <1>4, <1>5, <1>9, <3>1
  <2>4. c \in Seq(A)
    <3>1. 2 - t \in Nat /\ 2 - t <= l /\ l <= Len(a) /\ a \in Seq(A)
      BY <1>4, <1>5, <1>9
    <3> QED
      BY <1>9, <3>1, Cut
  <2>5. /\ SubSeq(M, 1 + 1, Len(M)) \in Seq(A)
        /\ Carries(SubSeq(x, 2 * 1 - t + 1, Len(x)), 0, SubSeq(M, 1 + 1, Len(M)))
    <3>1. x \in Seq(A) /\ 1 \in Nat /\ 1 <= Len(M) /\ 1 > 0
      BY <1>3, <1>4, <1>7
    <3> QED
      BY <1>2, <3>1, CarriesCut
  <2>6. Tail(M) = SubSeq(M, 1 + 1, Len(M))
    <3>1. Tail(M) = SubSeq(M, 2, Len(M))
      BY <1>2, <2>1, TailIsSubSeq
    <3> QED
      BY <3>1
  <2>7. 2 * 1 - t + 1 = 2 - t + 1
    OBVIOUS
  <2>8. Tail(M) \in Seq(A) /\ Carries(c \o r, 0, Tail(M))
    BY <1>5, <2>3, <2>5, <2>6, <2>7
  <2>9. MessagesOf(c, r, 0) = Tail(M)
    <3>1. PICK y : y = c \o r
      OBVIOUS
    <3>2. y \in Seq(A)
      BY <1>4, <2>4, <3>1
    <3>3. Messages(y, 0) = Tail(M)
      BY <2>8, <3>1, <3>2, CarriesMessages
    <3> QED
      BY <3>1, <3>3 DEF MessagesOf
  <2>10. Stream(A, c, r, 0)
    BY <2>8, <2>9 DEF Stream
  <2> QED
    BY <2>1, <2>2, <2>4, <2>9, <2>10
<1> QED
  BY <1>1, <1>4, <1>5, <1>8, <1>9 DEF FrameTaken

-----------------------------------------------------------------------------
(* What Numbered makes of a list of fields. *)
LEMMA NumberedIs ==
  ASSUME NEW fields, \A j \in DOMAIN fields : \A k \in DOMAIN fields : fields[j][1] = fields[k][1] => j = k
  PROVE  /\ Numbered(fields) = [name \in {fields[k][1] : k \in DOMAIN fields} |-> Numbered(fields)[name]]
         /\ \A k \in DOMAIN fields : Numbered(fields)[fields[k][1]] = Field(k, fields[k][2])
PROOF
<1>1. PICK g : g = Numbered(fields)
  OBVIOUS
<1>2. g = [name \in {fields[k][1] : k \in DOMAIN fields} |->
             LET k == CHOOSE j \in DOMAIN fields : fields[j][1] = name IN Field(k, fields[k][2])]
  BY <1>1 DEF Numbered
<1>3. ASSUME NEW k \in DOMAIN fields
      PROVE  g[fields[k][1]] = Field(k, fields[k][2])
  <2>1. (CHOOSE j \in DOMAIN fields : fields[j][1] = fields[k][1]) = k
    OBVIOUS
  <2>2. g[fields[k][1]] = LET i == CHOOSE j \in DOMAIN fields : fields[j][1] = fields[k][1]
                          IN  Field(i, fields[i][2])
    BY <1>2
  <2> QED
    BY <2>1, <2>2
<1>4. g = [name \in {fields[k][1] : k \in DOMAIN fields} |-> g[name]]
  BY <1>2
<1> QED
  BY <1>1, <1>3, <1>4

(* Without a field there is nothing to number.                             *)
LEMMA NumberedNothing == Numbered(<<>>) = Empty
PROOF
  BY DEF Numbered, Empty

(* The numbers the compilers give the fields of cchess.proto are those of  *)
(* the classes generated for the page: class by class, the same fields     *)
(* under the same numbers (cchess_proto.js, cchess.proto).                 *)
LEMMA SameClasses ==
  \A c \in DOMAIN PageSide.classes : /\ c \in DOMAIN ProtoSide.classes
                                     /\ ProtoSide.classes[c] = PageSide.classes[c]
PROOF
<1>1. ProtoSide.classes["UserInfo"] = UserInfo
  <2>1. PICK F : F = <<<<"username", "string">>, <<"score", "int32">>, <<"total", "int32">>,
                        <<"nwin", "int32">>, <<"nloss", "int32">>>>
    OBVIOUS
  <2>2. /\ DOMAIN F = 1..5
        /\ F[1] = <<"username", "string">>
        /\ F[2] = <<"score", "int32">>
        /\ F[3] = <<"total", "int32">>
        /\ F[4] = <<"nwin", "int32">>
        /\ F[5] = <<"nloss", "int32">>
    BY <2>1
  <2>3. /\ \A j \in DOMAIN F : \A k \in DOMAIN F : F[j][1] = F[k][1] => j = k
        /\ {F[k][1] : k \in DOMAIN F} = {"username", "score", "total", "nwin", "nloss"}
    BY <2>2
  <2>4. PICK g : /\ g = Numbered(F)
                 /\ g = [name \in {F[k][1] : k \in DOMAIN F} |-> g[name]]
                 /\ \A k \in DOMAIN F : g[F[k][1]] = Field(k, F[k][2])
    BY <2>3, NumberedIs
  <2>5. g = UserInfo
    BY <2>2, <2>3, <2>4 DEF UserInfo
  <2> QED
    BY <2>1, <2>4, <2>5 DEF ProtoSide
<1>2. ProtoSide.classes["GameTimeInfo"] = GameTimeInfo
  <2>1. PICK F : F = <<<<"gameSpendTime", "int32">>, <<"stepSpendTime", "int32">>>>
    OBVIOUS
  <2>2. /\ DOMAIN F = 1..2
        /\ F[1] = <<"gameSpendTime", "int32">>
        /\ F[2] = <<"stepSpendTime", "int32">>
    BY <2>1
  <2>3. /\ \A j \in DOMAIN F : \A k \in DOMAIN F : F[j][1] = F[k][1] => j = k
        /\ {F[k][1] : k \in DOMAIN F} = {"gameSpendTime", "stepSpendTime"}
    BY <2>2
  <2>4. PICK g : /\ g = Numbered(F)
                 /\ g = [name \in {F[k][1] : k \in DOMAIN F} |-> g[name]]
                 /\ \A k \in DOMAIN F : g[F[k][1]] = Field(k, F[k][2])
    BY <2>3, NumberedIs
  <2>5. g = GameTimeInfo
    BY <2>2, <2>3, <2>4 DEF GameTimeInfo
  <2> QED
    BY <2>1, <2>4, <2>5 DEF ProtoSide
<1>3. ProtoSide.classes["LoginRequest"] = LoginRequest
  <2>1. PICK F : F = <<<<"username", "string">>, <<"passwd", "string">>>>
    OBVIOUS
  <2>2. /\ DOMAIN F = 1..2
        /\ F[1] = <<"username", "string">>
        /\ F[2] = <<"passwd", "string">>
    BY <2>1
  <2>3. /\ \A j \in DOMAIN F : \A k \in DOMAIN F : F[j][1] = F[k][1] => j = k
        /\ {F[k][1] : k \in DOMAIN F} = {"username", "passwd"}
    BY <2>2
  <2>4. PICK g : /\ g = Numbered(F)
                 /\ g = [name \in {F[k][1] : k \in DOMAIN F} |-> g[name]]
                 /\ \A k \in DOMAIN F : g[F[k][1]] = Field(k, F[k][2])
    BY <2>3, NumberedIs
  <2>5. g = LoginRequest
    BY <2>2, <2>3, <2>4 DEF LoginRequest
  <2> QED
    BY <2>1, <2>4, <2>5 DEF ProtoSide
<1>4. ProtoSide.classes["LoginSuccessResponse"] = LoginSuccessResponse
  <2>1. PICK F : F = <<<<"userInfo", "UserInfo">>>>
    OBVIOUS
  <2>2. /\ DOMAIN F = 1..1
        /\ F[1] = <<"userInfo", "UserInfo">>
    BY <2>1
  <2>3. /\ \A j \in DOMAIN F : \A k \in DOMAIN F : F[j][1] = F[k][1] => j = k
        /\ {F[k][1] : k \in DOMAIN F} = {"userInfo"}
    BY <2>2
  <2>4. PICK g : /\ g = Numbered(F)
                 /\ g = [name \in {F[k][1] : k \in DOMAIN F} |-> g[name]]
                 /\ \A k \in DOMAIN F : g[F[k][1]] = Field(k, F[k][2])
    BY <2>3, NumberedIs
  <2>5. g = LoginSuccessResponse
    BY <2>2, <2>3, <2>4 DEF LoginSuccessResponse
  <2> QED
    BY <2>1, <2>4, <2>5 DEF ProtoSide
<1>5. ProtoSide.classes["LoginFailedResponse"] = LoginFailedResponse
  <2>1. PICK F : F = <<<<"reason", "FailedReason">>>>
    OBVIOUS
  <2>2. /\ DOMAIN F = 1..1
        /\ F[1] = <<"reason", "FailedReason">>
    BY <2>1
  <2>3. /\ \A j \in DOMAIN F : \A k \in DOMAIN F : F[j][1] = F[k][1] => j = k
        /\ {F[k][1] : k \in DOMAIN F} = {"reason"}
    BY <2>2
  <2>4. PICK g : /\ g = Numbered(F)
                 /\ g = [name \in {F[k][1] : k \in DOMAIN F} |-> g[name]]
                 /\ \A k \in DOMAIN F : g[F[k][1]] = Field(k, F[k][2])
    BY <2>3, NumberedIs
  <2>5. g = LoginFailedResponse
    BY <2>2, <2>3, <2>4 DEF LoginFailedResponse
  <2> QED
    BY <2>1, <2>4, <2>5 DEF ProtoSide
<1>6. ProtoSide.classes["MatchRequest"] = MatchRequest
  <2>1. PICK F : F = <<<<"type", "RoomType">>>>
    OBVIOUS
  <2>2. /\ DOMAIN F = 1..1
        /\ F[1] = <<"type", "RoomType">>
    BY <2>1
  <2>3. /\ \A j \in DOMAIN F : \A k \in DOMAIN F : F[j][1] = F[k][1] => j = k
        /\ {F[k][1] : k \in DOMAIN F} = {"type"}
    BY <2>2
  <2>4. PICK g : /\ g = Numbered(F)
                 /\ g = [name \in {F[k][1] : k \in DOMAIN F} |-> g[name]]
                 /\ \A k \in DOMAIN F : g[F[k][1]] = Field(k, F[k][2])
    BY <2>3, NumberedIs
  <2>5. g = MatchRequest
    BY <2>2, <2>3, <2>4 DEF MatchRequest
  <2> QED
    BY <2>1, <2>4, <2>5 DEF ProtoSide
<1>7. ProtoSide.classes["CancelMatchRequest"] = CancelMatchRequest
  BY NumberedNothing DEF ProtoSide, CancelMatchRequest
<1>8. ProtoSide.classes["MatchResponse"] = MatchResponse
  <2>1. PICK F : F = <<<<"oppUser", "UserInfo">>, <<"selfType", "PlayerType">>,
                        <<"type", "RoomType">>>>
    OBVIOUS
  <2>2. /\ DOMAIN F = 1..3
        /\ F[1] = <<"oppUser", "UserInfo">>
        /\ F[2] = <<"selfType", "PlayerType">>
        /\ F[3] = <<"type", "RoomType">>
    BY <2>1
  <2>3. /\ \A j \in DOMAIN F : \A k \in DOMAIN F : F[j][1] = F[k][1] => j = k
        /\ {F[k][1] : k \in DOMAIN F} = {"oppUser", "selfType", "type"}
    BY <2>2
  <2>4. PICK g : /\ g = Numbered(F)
                 /\ g = [name \in {F[k][1] : k \in DOMAIN F} |-> g[name]]
                 /\ \A k \in DOMAIN F : g[F[k][1]] = Field(k, F[k][2])
    BY <2>3, NumberedIs
  <2>5. g = MatchResponse
    BY <2>2, <2>3, <2>4 DEF MatchResponse
  <2> QED
    BY <2>1, <2>4, <2>5 DEF ProtoSide
<1>9. ProtoSide.classes["MoveStep"] = MoveStep
  <2>1. PICK F : F = <<<<"over", "bool">>, <<"mv", "int32">>, <<"fen", "string">>>>
    OBVIOUS
  <2>2. /\ DOMAIN F = 1..3
        /\ F[1] = <<"over", "bool">>
        /\ F[2] = <<"mv", "int32">>
        /\ F[3] = <<"fen", "string">>
    BY <2>1
  <2>3. /\ \A j \in DOMAIN F : \A k \in DOMAIN F : F[j][1] = F[k][1] => j = k
        /\ {F[k][1] : k \in DOMAIN F} = {"over", "mv", "fen"}
    BY <2>2
  <2>4. PICK g : /\ g = Numbered(F)
                 /\ g = [name \in {F[k][1] : k \in DOMAIN F} |-> g[name]]
                 /\ \A k \in DOMAIN F : g[F[k][1]] = Field(k, F[k][2])
    BY <2>3, NumberedIs
  <2>5. g = MoveStep
    BY <2>2, <2>3, <2>4 DEF MoveStep
  <2> QED
    BY <2>1, <2>4, <2>5 DEF ProtoSide
<1>10. ProtoSide.classes["Giveup"] = Giveup
  BY NumberedNothing DEF ProtoSide, Giveup
<1>11. ProtoSide.classes["ForgiveRequest"] = ForgiveRequest
  BY NumberedNothing DEF ProtoSide, ForgiveRequest
<1>12. ProtoSide.classes["ForgiveResponse"] = ForgiveResponse
  <2>1. PICK F : F = <<<<"agree", "bool">>, <<"fen", "string">>, <<"mv", "int32">>>>
    OBVIOUS
  <2>2. /\ DOMAIN F = 1..3
        /\ F[1] = <<"agree", "bool">>
        /\ F[2] = <<"fen", "string">>
        /\ F[3] = <<"mv", "int32">>
    BY <2>1
  <2>3. /\ \A j \in DOMAIN F : \A k \in DOMAIN F : F[j][1] = F[k][1] => j = k
        /\ {F[k][1] : k \in DOMAIN F} = {"agree", "fen", "mv"}
    BY <2>2
  <2>4. PICK g : /\ g = Numbered(F)
                 /\ g = [name \in {F[k][1] : k \in DOMAIN F} |-> g[name]]
                 /\ \A k \in DOMAIN F : g[F[k][1]] = Field(k, F[k][2])
    BY <2>3, NumberedIs
  <2>5. g = ForgiveResponse
    BY <2>2, <2>3, <2>4 DEF ForgiveResponse
  <2> QED
    BY <2>1, <2>4, <2>5 DEF ProtoSide
<1>13. ProtoSide.classes["DrawRequest"] = DrawRequest
  BY NumberedNothing DEF ProtoSide, DrawRequest
<1>14. ProtoSide.classes["DrawResponse"] = DrawResponse
  <2>1. PICK F : F = <<<<"agree", "bool">>>>
    OBVIOUS
  <2>2. /\ DOMAIN F = 1..1
        /\ F[1] = <<"agree", "bool">>
    BY <2>1
  <2>3. /\ \A j \in DOMAIN F : \A k \in DOMAIN F : F[j][1] = F[k][1] => j = k
        /\ {F[k][1] : k \in DOMAIN F} = {"agree"}
    BY <2>2
  <2>4. PICK g : /\ g = Numbered(F)
                 /\ g = [name \in {F[k][1] : k \in DOMAIN F} |-> g[name]]
                 /\ \A k \in DOMAIN F : g[F[k][1]] = Field(k, F[k][2])
    BY <2>3, NumberedIs
  <2>5. g = DrawResponse
    BY <2>2, <2>3, <2>4 DEF DrawResponse
  <2> QED
    BY <2>1, <2>4, <2>5 DEF ProtoSide
<1>15. ProtoSide.classes["OppDisconnected"] = OppDisconnected
  BY NumberedNothing DEF ProtoSide, OppDisconnected
<1>16. ProtoSide.classes["OppReconnected"] = OppReconnected
  BY NumberedNothing DEF ProtoSide, OppReconnected
<1>17. ProtoSide.classes["GameSituation"] = GameSituation
  <2>1. PICK F : F = <<<<"self", "UserInfo">>, <<"opp", "UserInfo">>, <<"red", "bool">>,
                        <<"turnToMe", "bool">>, <<"roomType", "RoomType">>,
                        <<"selfTime", "GameTimeInfo">>, <<"oppTime", "GameTimeInfo">>,
                        <<"lastMv", "int32">>, <<"fen", "string">>>>
    OBVIOUS
  <2>2. /\ DOMAIN F = 1..9
        /\ F[1] = <<"self", "UserInfo">>
        /\ F[2] = <<"opp", "UserInfo">>
        /\ F[3] = <<"red", "bool">>
        /\ F[4] = <<"turnToMe", "bool">>
        /\ F[5] = <<"roomType", "RoomType">>
        /\ F[6] = <<"selfTime", "GameTimeInfo">>
        /\ F[7] = <<"oppTime", "GameTimeInfo">>
        /\ F[8] = <<"lastMv", "int32">>
        /\ F[9] = <<"fen", "string">>
    BY <2>1
  <2>3. /\ \A j \in DOMAIN F : \A k \in DOMAIN F : F[j][1] = F[k][1] => j = k
        /\ {F[k][1] : k \in DOMAIN F} = {"self", "opp", "red", "turnToMe", "roomType", "selfTime",
               "oppTime", "lastMv", "fen"}
    BY <2>2
  <2>4. PICK g : /\ g = Numbered(F)
                 /\ g = [name \in {F[k][1] : k \in DOMAIN F} |-> g[name]]
                 /\ \A k \in DOMAIN F : g[F[k][1]] = Field(k, F[k][2])
    BY <2>3, NumberedIs
  <2>5. g = GameSituation
    BY <2>2, <2>3, <2>4 DEF GameSituation
  <2> QED
    BY <2>1, <2>4, <2>5 DEF ProtoSide
<1>18. ProtoSide.classes["Disconnected"] = Empty
  BY NumberedNothing DEF ProtoSide
<1>19. ProtoSide.classes["GameOver"] = GameOver
  <2>1. PICK F : F = <<<<"type", "OverType">>, <<"changeScore", "int32">>,
                        <<"selfSpendGameTime", "int32">>, <<"oppSpendGameTime", "int32">>>>
    OBVIOUS
  <2>2. /\ DOMAIN F = 1..4
        /\ F[1] = <<"type", "OverType">>
        /\ F[2] = <<"changeScore", "int32">>
        /\ F[3] = <<"selfSpendGameTime", "int32">>
        /\ F[4] = <<"oppSpendGameTime", "int32">>
    BY <2>1
  <2>3. /\ \A j \in DOMAIN F : \A k \in DOMAIN F : F[j][1] = F[k][1] => j = k
        /\ {F[k][1] : k \in DOMAIN F} = {"type", "changeScore", "selfSpendGameTime",
               "oppSpendGameTime"}
    BY <2>2
  <2>4. PICK g : /\ g = Numbered(F)
                 /\ g = [name \in {F[k][1] : k \in DOMAIN F} |-> g[name]]
                 /\ \A k \in DOMAIN F : g[F[k][1]] = Field(k, F[k][2])
    BY <2>3, NumberedIs
  <2>5. g = GameOver
    BY <2>2, <2>3, <2>4 DEF GameOver
  <2> QED
    BY <2>1, <2>4, <2>5 DEF ProtoSide
<1> QED
  BY <1>1, <1>2, <1>3, <1>4, <1>5, <1>6, <1>7, <1>8, <1>9, <1>10, <1>11, <1>12, <1>13, <1>14, <1>15, <1>16, <1>17, <1>19 DEF PageSide, ProtoSide

(* No two fields of a class have the same number.                          *)
Kinds == {"string", "bool", "int32", "UserInfo", "GameTimeInfo", "FailedReason", "PlayerType",
          "RoomType", "OverType"}
Wellformed(fs) ==
  /\ \A f \in DOMAIN fs : fs[f].kind \in Kinds
  /\ \A f \in DOMAIN fs : \A g \in DOMAIN fs : fs[f].num = fs[g].num => f = g

(* No class of the schema gives two fields one number.                     *)
LEMMA ClassesWellformed == \A c \in DOMAIN PageSide.classes : Wellformed(PageSide.classes[c])
PROOF
<1>1. Wellformed(UserInfo)
  BY DEF Wellformed, Kinds, Field, UserInfo, Empty
<1>2. Wellformed(GameTimeInfo)
  BY DEF Wellformed, Kinds, Field, GameTimeInfo, Empty
<1>3. Wellformed(LoginRequest)
  BY DEF Wellformed, Kinds, Field, LoginRequest, Empty
<1>4. Wellformed(LoginSuccessResponse)
  BY DEF Wellformed, Kinds, Field, LoginSuccessResponse, Empty
<1>5. Wellformed(LoginFailedResponse)
  BY DEF Wellformed, Kinds, Field, LoginFailedResponse, Empty
<1>6. Wellformed(MatchRequest)
  BY DEF Wellformed, Kinds, Field, MatchRequest, Empty
<1>7. Wellformed(CancelMatchRequest)
  BY DEF Wellformed, Kinds, Field, CancelMatchRequest, Empty
<1>8. Wellformed(MatchResponse)
  BY DEF Wellformed, Kinds, Field, MatchResponse, Empty
<1>9. Wellformed(MoveStep)
  BY DEF Wellformed, Kinds, Field, MoveStep, Empty
<1>10. Wellformed(Giveup)
  BY DEF Wellformed, Kinds, Field, Giveup, Empty
<1>11. Wellformed(ForgiveRequest)
  BY DEF Wellformed, Kinds, Field, ForgiveRequest, Empty
<1>12. Wellformed(ForgiveResponse)
  BY DEF Wellformed, Kinds, Field, ForgiveResponse, Empty
<1>13. Wellformed(DrawRequest)
  BY DEF Wellformed, Kinds, Field, DrawRequest, Empty
<1>14. Wellformed(DrawResponse)
  BY DEF Wellformed, Kinds, Field, DrawResponse, Empty
<1>15. Wellformed(OppDisconnected)
  BY DEF Wellformed, Kinds, Field, OppDisconnected, Empty
<1>16. Wellformed(OppReconnected)
  BY DEF Wellformed, Kinds, Field, OppReconnected, Empty
<1>17. Wellformed(GameSituation)
  BY DEF Wellformed, Kinds, Field, GameSituation, Empty
<1>18. Wellformed(GameOver)
  BY DEF Wellformed, Kinds, Field, GameOver, Empty
<1> QED
  BY <1>1, <1>2, <1>3, <1>4, <1>5, <1>6, <1>7, <1>8, <1>9, <1>10, <1>11, <1>12, <1>13, <1>14, <1>15, <1>16, <1>17, <1>18 DEF PageSide

\* What two sides have in common, and a class on both.
Agree(s, o, c) ==
  /\ s.enums = o.enums
  /\ \A kind \in DOMAIN s.enums : DOMAIN s.enums[kind] \subseteq Int
  /\ \A kind \in Kinds : IsClass(s, kind) <=> IsClass(o, kind)
  /\ o.classes[c] = s.classes[c]
  /\ Wellformed(s.classes[c])

(* A scalar means on the other side what it meant on the first. *)
LEMMA ScalarUnderstood ==
  ASSUME NEW s, NEW o, NEW c, Agree(s, o, c), NEW d, Holds(s, c, d), NEW f \in DOMAIN d
  PROVE  LET kind == s.classes[c][f].kind IN Meaning(o, kind, Scalar(s, kind, d[f])) = d[f]
PROOF
<1>0. PICK kind, v : kind = s.classes[c][f].kind /\ v = d[f]
  OBVIOUS
<1>1. CASE IsEnum(s, kind)
  <2>1. PICK names : names = s.enums[kind]
    OBVIOUS
  <2>2. PICK j : j = CHOOSE k \in DOMAIN names : names[k] = v
    OBVIOUS
  <2>3. \E k \in DOMAIN names : names[k] = v
    BY <1>0, <1>1, <2>1 DEF Holds
  <2>4. j \in DOMAIN names /\ names[j] = v
    BY <2>2, <2>3
  <2>5. (j - 1) + 1 = j
    BY <1>1, <2>1, <2>4 DEF Agree, IsEnum
  <2>6. Scalar(s, kind, v) = j - 1
    BY <1>1, <2>1, <2>2 DEF Scalar, Ordinal
  <2>7. Meaning(o, kind, j - 1) = names[j]
    BY <1>1, <2>1, <2>5 DEF Meaning, IsEnum, Agree
  <2> QED
    BY <1>0, <2>4, <2>6, <2>7
<1>2. CASE ~IsEnum(s, kind)
  BY <1>0, <1>2 DEF Meaning, Scalar, IsEnum, Agree
<1> QED
  BY <1>1, <1>2

KeptOf(s, c, d) ==
  {f \in DOMAIN s.classes[c] \cap DOMAIN d :
     IsClass(s, s.classes[c][f].kind)
     \/ Scalar(s, s.classes[c][f].kind, d[f]) # Default(s.classes[c][f].kind)}

(* The whole of a message without messages in it comes back. *)
LEMMA FlatUnderstood ==
  ASSUME NEW s, NEW o, NEW c, Agree(s, o, c),
         \A f \in DOMAIN s.classes[c] : ~IsClass(s, s.classes[c][f].kind),
         NEW d, d = [f \in DOMAIN s.classes[c] |-> d[f]], Holds(s, c, d)
  PROVE  ReadFlat(o, c, WriteFlat(s, c, d)) = d
PROOF
<1> DEFINE fs == s.classes[c]
           kept == KeptOf(s, c, d)
<1>2. kept = {f \in DOMAIN fs : Scalar(s, fs[f].kind, d[f]) # Default(fs[f].kind)}
  BY DEF KeptOf
<1>3. PICK x : x = WriteFlat(s, c, d)
  OBVIOUS
<1>4. x = [n \in {fs[f].num : f \in kept} |->
             LET f == CHOOSE f \in kept : fs[f].num = n
             IN  IF IsClass(s, fs[f].kind) THEN d[f] ELSE Scalar(s, fs[f].kind, d[f])]
  BY <1>3, Zenon DEF WriteFlat, Written, KeptOf
<1>5. ASSUME NEW f \in kept PROVE x[fs[f].num] = Scalar(s, fs[f].kind, d[f])
  <2>1. (CHOOSE g \in kept : fs[g].num = fs[f].num) = f
    BY <1>2 DEF Agree, Wellformed
  <2>2. x[fs[f].num] = LET h == CHOOSE g \in kept : fs[g].num = fs[f].num
                       IN  IF IsClass(s, fs[h].kind) THEN d[h] ELSE Scalar(s, fs[h].kind, d[h])
    BY <1>4
  <2> QED
    BY <1>2, <2>1, <2>2
<1>6. \A f \in DOMAIN fs : fs[f].num \in DOMAIN x <=> f \in kept
  BY <1>2, <1>4 DEF Agree, Wellformed
<1>7. PICK r : r = ReadFlat(o, c, x)
  OBVIOUS
<1>8. r = [f \in {f \in DOMAIN fs : ~IsClass(o, fs[f].kind) \/ fs[f].num \in DOMAIN x} |->
             IF IsClass(o, fs[f].kind) THEN x[fs[f].num]
             ELSE Meaning(o, fs[f].kind, IF fs[f].num \in DOMAIN x THEN x[fs[f].num]
                                         ELSE Default(fs[f].kind))]
  BY <1>7 DEF ReadFlat, ReadBack, Agree
<1>9. \A f \in DOMAIN fs : ~IsClass(o, fs[f].kind)
  BY DEF Agree, Wellformed
<1>10. ASSUME NEW f \in DOMAIN fs PROVE r[f] = d[f]
  <2>1. r[f] = Meaning(o, fs[f].kind, Scalar(s, fs[f].kind, d[f]))
    BY <1>2, <1>5, <1>6, <1>8, <1>9
  <2>3. Meaning(o, fs[f].kind, Scalar(s, fs[f].kind, d[f])) = d[f]
    BY ScalarUnderstood
  <2> QED
    BY <2>1, <2>3
<1>11. r = [f \in DOMAIN fs |-> r[f]]
  BY <1>8, <1>9
<1>12. r = d
  BY <1>10, <1>11
<1> QED
  BY <1>3, <1>7, <1>12

(* Every field that was set comes back. *)
LEMMA FieldsUnderstood ==
  ASSUME NEW s, NEW o, NEW c, Agree(s, o, c),
         NEW d, Holds(s, c, d),
         \A f \in DOMAIN d : IsClass(s, s.classes[c][f].kind) =>
           LET kind == s.classes[c][f].kind IN ReadFlat(o, kind, WriteFlat(s, kind, d[f])) = d[f]
  PROVE  \A f \in DOMAIN d : /\ f \in DOMAIN Read(o, c, Write(s, c, d))
                             /\ Read(o, c, Write(s, c, d))[f] = d[f]
PROOF
<1> DEFINE fs == s.classes[c]
           kept == KeptOf(s, c, d)
<1>2. kept = {f \in DOMAIN fs \cap DOMAIN d : IsClass(s, fs[f].kind)
                                            \/ Scalar(s, fs[f].kind, d[f]) # Default(fs[f].kind)}
  BY DEF KeptOf
<1>3. PICK x : x = Write(s, c, d)
  OBVIOUS
<1>4. x = [n \in {fs[f].num : f \in kept} |->
             LET f == CHOOSE f \in kept : fs[f].num = n
             IN  IF IsClass(s, fs[f].kind) THEN WriteFlat(s, fs[f].kind, d[f])
                 ELSE Scalar(s, fs[f].kind, d[f])]
  BY <1>3, Zenon DEF Write, Written, KeptOf
<1>5. ASSUME NEW f \in kept
      PROVE  x[fs[f].num] = IF IsClass(s, fs[f].kind) THEN WriteFlat(s, fs[f].kind, d[f])
                            ELSE Scalar(s, fs[f].kind, d[f])
  <2>1. (CHOOSE g \in kept : fs[g].num = fs[f].num) = f
    BY <1>2 DEF Agree, Wellformed
  <2>2. x[fs[f].num] = LET h == CHOOSE g \in kept : fs[g].num = fs[f].num
                       IN  IF IsClass(s, fs[h].kind) THEN WriteFlat(s, fs[h].kind, d[h])
                           ELSE Scalar(s, fs[h].kind, d[h])
    BY <1>4
  <2> QED
    BY <2>1, <2>2
<1>6. \A f \in DOMAIN fs : fs[f].num \in DOMAIN x <=> f \in kept
  BY <1>2, <1>4 DEF Agree, Wellformed
<1>7. PICK r : r = Read(o, c, x)
  OBVIOUS
<1>8. r = [f \in {f \in DOMAIN fs : ~IsClass(o, fs[f].kind) \/ fs[f].num \in DOMAIN x} |->
             IF IsClass(o, fs[f].kind) THEN ReadFlat(o, fs[f].kind, x[fs[f].num])
             ELSE Meaning(o, fs[f].kind, IF fs[f].num \in DOMAIN x THEN x[fs[f].num]
                                         ELSE Default(fs[f].kind))]
  BY <1>7 DEF Read, ReadBack, Agree
<1>9. \A f \in DOMAIN fs : IsClass(o, fs[f].kind) <=> IsClass(s, fs[f].kind)
  BY DEF Agree, Wellformed
<1>10. DOMAIN d \subseteq DOMAIN fs
  BY DEF Holds
<1>11. ASSUME NEW f \in DOMAIN d PROVE f \in DOMAIN r /\ r[f] = d[f]
  <2>1. CASE IsClass(s, fs[f].kind)
    <3>1. f \in kept
      BY <1>2, <1>10, <2>1
    <3>2. f \in DOMAIN r /\ r[f] = ReadFlat(o, fs[f].kind, WriteFlat(s, fs[f].kind, d[f]))
      BY <1>5, <1>6, <1>8, <1>9, <1>10, <2>1, <3>1
    <3> QED
      BY <2>1, <3>2
  <2>2. CASE ~IsClass(s, fs[f].kind)
    <3>1. f \in DOMAIN r /\ r[f] = Meaning(o, fs[f].kind, Scalar(s, fs[f].kind, d[f]))
      BY <1>2, <1>5, <1>6, <1>8, <1>9, <1>10, <2>2
    <3>2. Meaning(o, fs[f].kind, Scalar(s, fs[f].kind, d[f])) = d[f]
      BY ScalarUnderstood
    <3> QED
      BY <3>1, <3>2
  <2> QED
    BY <2>1, <2>2
<1> QED
  BY <1>3, <1>7, <1>11

(* What one side has been let to say, the other understands: every class   *)
(* is the same on both sides, nothing in a message holds messages again,   *)
(* and what a scalar's default stands for is the default.                  *)
LEMMA SidesAgree ==
  ASSUME NEW s, NEW o, <<s, o>> \in {<<PageSide, ProtoSide>>, <<ProtoSide, PageSide>>},
         NEW c \in DOMAIN PageSide.classes
  PROVE  Agree(s, o, c)
PROOF
<1>1. ProtoSide.classes[c] = PageSide.classes[c] /\ Wellformed(PageSide.classes[c])
  BY SameClasses, ClassesWellformed
<1>2. PageSide.enums = ProtoSide.enums
  BY DEF PageSide, ProtoSide, FailedReason, PlayerType, RoomType, OverType
<1>3. \A kind \in DOMAIN PageSide.enums : DOMAIN PageSide.enums[kind] \subseteq Int
  BY DEF PageSide, FailedReason, PlayerType, RoomType, OverType
<1>4. \A kind \in Kinds : IsClass(PageSide, kind) <=> IsClass(ProtoSide, kind)
  BY DEF PageSide, ProtoSide, Kinds, IsClass
<1>5. Agree(PageSide, ProtoSide, c) /\ Agree(ProtoSide, PageSide, c)
  BY <1>1, <1>2, <1>3, <1>4 DEF Agree
<1>6. \/ s = PageSide /\ o = ProtoSide
      \/ s = ProtoSide /\ o = PageSide
  OBVIOUS
<1> QED
  BY <1>5, <1>6

(* What one side may say the other side reads, field by field.             *)
LEMMA WholeUnderstood ==
  ASSUME NEW s, NEW o, <<s, o>> \in {<<PageSide, ProtoSide>>, <<ProtoSide, PageSide>>},
         NEW m, Sayable(s, m), m.type \in DOMAIN PageSide.classes
  PROVE  \A f \in DOMAIN m.data : /\ f \in DOMAIN Read(o, m.type, Write(s, m.type, m.data))
                                  /\ Read(o, m.type, Write(s, m.type, m.data))[f] = m.data[f]
PROOF
<1>1. Agree(s, o, m.type)
  BY SidesAgree
<1>2. Holds(s, m.type, m.data)
  BY DEF Sayable
<1>3. ASSUME NEW f \in DOMAIN m.data, IsClass(s, s.classes[m.type][f].kind)
      PROVE  LET kind == s.classes[m.type][f].kind
             IN  ReadFlat(o, kind, WriteFlat(s, kind, m.data[f])) = m.data[f]
  <2>1. PICK kind, d : kind = s.classes[m.type][f].kind /\ d = m.data[f]
    OBVIOUS
  <2>2. IsClass(s, kind) /\ kind \in Kinds
    <3>1. f \in DOMAIN s.classes[m.type]
      BY <1>2 DEF Holds
    <3> QED
      BY <1>1, <1>3, <2>1, <3>1 DEF Agree, Wellformed
  <2>3. kind \in {"UserInfo", "GameTimeInfo"}
    <3>1. s = PageSide \/ s = ProtoSide
      OBVIOUS
    <3>2. \A k \in Kinds : IsClass(PageSide, k) \/ IsClass(ProtoSide, k) =>
                             k \in {"UserInfo", "GameTimeInfo"}
      BY DEF PageSide, ProtoSide, Kinds, IsClass
    <3> QED
      BY <2>2, <3>1, <3>2
  <2>4. kind \in DOMAIN PageSide.classes
    BY <2>3 DEF PageSide
  <2>5. Agree(s, o, kind)
    BY <2>4, SidesAgree
  <2>6. s.classes[kind] = PageSide.classes[kind]
    <3>1. ProtoSide.classes[kind] = PageSide.classes[kind]
      BY <2>4, SameClasses
    <3> QED
      BY <3>1
  <2>7. \A g \in DOMAIN s.classes[kind] : ~IsClass(s, s.classes[kind][g].kind)
    <3>1. \A g \in DOMAIN PageSide.classes[kind] :
            PageSide.classes[kind][g].kind \in {"string", "int32"}
      BY <2>3 DEF PageSide, UserInfo, GameTimeInfo, Field
    <3>2. ~IsClass(PageSide, "string") /\ ~IsClass(PageSide, "int32")
      BY DEF PageSide, IsClass
    <3>3. ~IsClass(ProtoSide, "string") /\ ~IsClass(ProtoSide, "int32")
      BY DEF ProtoSide, IsClass
    <3>4. s = PageSide \/ s = ProtoSide
      OBVIOUS
    <3> QED
      BY <2>6, <3>1, <3>2, <3>3, <3>4
  <2>8. d = [g \in DOMAIN s.classes[kind] |-> d[g]] /\ Holds(s, kind, d)
    BY <1>3, <2>1 DEF Sayable
  <2>9. ReadFlat(o, kind, WriteFlat(s, kind, d)) = d
    BY <2>5, <2>7, <2>8, FlatUnderstood
  <2> QED
    BY <2>1, <2>9
<1> QED
  BY <1>1, <1>2, <1>3, FieldsUnderstood

-----------------------------------------------------------------------------
(* What may be said, and what may be on its way. *)
PageTalk == UNION {UNION {ToSet(s.up[b]) : b \in Browsers} : s \in Scripts}
CenterTalk == UNION {{s.down[k][2] : k \in DOMAIN s.down} : s \in Scripts}
Farewell == Encode(ProtoSide, [type |-> "Disconnected", data |-> <<>>, damage |-> FALSE])

FrontFrame ==
  {[opcode |-> "HTTP"], [opcode |-> "PONG"]}
  \cup {[opcode |-> "BINARY", bytes |-> Encode(PageSide, m)] : m \in PageTalk}
PageFrame ==
  {[opcode |-> "101"], [opcode |-> "PING"]}
  \cup {[opcode |-> "BINARY", bytes |-> Encode(ProtoSide, m)] : m \in CenterTalk}
UpMessage == [id : Browsers, bytes : {Encode(PageSide, m) : m \in PageTalk} \cup {Farewell}]
DownMessage == [id : Browsers, bytes : {Encode(ProtoSide, m) : m \in CenterTalk}]
Handling == Browsers \X ({Decode(ProtoSide, Encode(PageSide, m)) : m \in PageTalk}
                          \cup {Decode(ProtoSide, Farewell)})

WireTypeOK ==
  /\ page \in [Browsers -> {"absent", "away", "opening", "open", "silent"}]
  /\ toSay \in [Browsers -> Seq(PageTalk)]
  /\ said \in [Browsers -> Seq(PageTalk)]
  /\ heard \in [Browsers -> Seq({Decode(PageSide, Encode(ProtoSide, m)) : m \in CenterTalk})]
  /\ conn \in [Browsers -> {"none", "wait", "ping", "pong", "closed"}]
  /\ toFront \in [Browsers -> Seq(FrontFrame)]
  /\ buff \in [Browsers -> Seq(FrontFrame)]
  /\ taken \in [Browsers -> {0, 1}]
  /\ toBrowser \in [Browsers -> Seq(PageFrame)]
  /\ upstream \in Seq(UpMessage)
  /\ codecBuff \in Seq(UpMessage)
  /\ handled \in Seq(Handling)
  /\ toTell \in Seq(Browsers \X CenterTalk)
  /\ told \in Seq(Browsers \X CenterTalk)
  /\ downstream \in Seq(DownMessage)
  /\ frontBuff \in Seq(DownMessage)

\* What the streams carry.
FramesOf(b) == MessagesOf(buff[b], toFront[b], taken[b])
UpMessages == MessagesOf(codecBuff, upstream, 0)
DownMessages == MessagesOf(frontBuff, downstream, 0)

FramesKept ==
  \A b \in Browsers : conn[b] # "closed" => Stream(FrontFrame, buff[b], toFront[b], taken[b])
UpKept == Stream(UpMessage, codecBuff, upstream, 0)
DownKept == Stream(DownMessage, frontBuff, downstream, 0)
Framed == FramesKept /\ UpKept /\ DownKept

PingOnItsWay(b) == \E k \in DOMAIN toBrowser[b] : toBrowser[b][k].opcode = "PING"

\* Whoever is there and is to be heard of has something on its way.
Connected ==
  \A b \in Browsers :
    /\ page[b] \in {"absent", "away"} <=> conn[b] = "none"
    /\ conn[b] = "none" => /\ toFront[b] = <<>>
                          /\ buff[b] = <<>>
                          /\ taken[b] = 0
                          /\ toBrowser[b] = <<>>
                          /\ said[b] = <<>>
    /\ conn[b] = "wait" => toFront[b] # <<>>
    /\ conn[b] = "pong" /\ page[b] # "silent" => toFront[b] # <<>> \/ PingOnItsWay(b)
    /\ conn[b] = "closed" => page[b] = "silent"

(* What a script lets the pages and the center say.                        *)
LEMMA ScriptTypes ==
  ASSUME NEW s \in Scripts
  PROVE  /\ s.there \subseteq Browsers
         /\ s.up \in [Browsers -> Seq(PageTalk)]
         /\ s.down \in Seq(Browsers \X CenterTalk)
PROOF
<1>1. /\ s.there \subseteq Browsers
      /\ s.up \in [Browsers -> Seq(UNION {ToSet(s.up[b]) : b \in Browsers})]
      /\ s.down \in Seq(ToSet(s.down))
      /\ \A k \in DOMAIN s.down : /\ s.down[k] = <<s.down[k][1], s.down[k][2]>>
                                 /\ s.down[k][1] \in Browsers
  BY ScriptsAssumption
<1>2. s.up \in [Browsers -> Seq(PageTalk)]
  <2>1. UNION {ToSet(s.up[b]) : b \in Browsers} \subseteq PageTalk
    BY DEF PageTalk
  <2>2. PICK U : U = UNION {ToSet(s.up[b]) : b \in Browsers}
    OBVIOUS
  <2>3. s.up \in [Browsers -> Seq(U)] /\ U \subseteq PageTalk
    BY <1>1, <2>1, <2>2
  <2>4. \A q \in Seq(U) : q \in Seq(PageTalk)
    BY <2>3
  <2> QED
    BY <2>3, <2>4
<1>3. ToSet(s.down) \subseteq Browsers \X CenterTalk
  <2> SUFFICES ASSUME NEW k \in DOMAIN s.down
               PROVE  s.down[k] \in Browsers \X CenterTalk
    BY DEF ToSet
  <2>1. s.down[k][2] \in CenterTalk
    BY DEF CenterTalk
  <2>2. PICK d : d = s.down[k]
    OBVIOUS
  <2>3. d = <<d[1], d[2]>> /\ d[1] \in Browsers /\ d[2] \in CenterTalk
    BY <1>1, <2>1, <2>2
  <2>4. d \in Browsers \X CenterTalk
    BY <2>3
  <2> QED
    BY <2>2, <2>4
<1>4. s.down \in Seq(Browsers \X CenterTalk)
  BY <1>1, <1>3
<1> QED
  BY <1>1, <1>2, <1>4

(* A frame more on its way to the front. *)
LEMMA FrameAppended ==
  ASSUME WireTypeOK, FramesKept, NEW b \in Browsers, NEW x \in FrontFrame, conn[b] # "closed",
         toFront' = [toFront EXCEPT ![b] = @ \o Pieces(x)], UNCHANGED <<buff, taken>>,
         \A c \in Browsers : conn'[c] # "closed" => conn[c] # "closed"
  PROVE  /\ toFront' \in [Browsers -> Seq(FrontFrame)]
         /\ FramesKept'
         /\ FramesOf(b)' = Append(FramesOf(b), x)
         /\ \A c \in Browsers \ {b} : FramesOf(c)' = FramesOf(c)
         /\ toFront'[b] # <<>>
PROOF
<1>1. buff[b] \in Seq(FrontFrame) /\ toFront[b] \in Seq(FrontFrame) /\ taken[b] \in {0, 1}
  BY DEF WireTypeOK
<1>2. Stream(FrontFrame, buff[b], toFront[b], taken[b])
  BY DEF FramesKept
<1>3. Appended(FrontFrame, buff[b], toFront[b], taken[b], x)
  BY <1>1, <1>2, AppendedStream
<1>4. toFront'[b] = toFront[b] \o Pieces(x) /\ \A c \in Browsers \ {b} : toFront'[c] = toFront[c]
  BY DEF WireTypeOK
<1>5. FramesOf(b)' = Append(FramesOf(b), x) /\ Stream(FrontFrame, buff'[b], toFront'[b], taken'[b])
  BY <1>3, <1>4 DEF FramesOf, Appended
<1>6. \A c \in Browsers \ {b} : FramesOf(c)' = FramesOf(c)
  BY <1>4 DEF FramesOf
<1>7. FramesKept'
  <2> SUFFICES ASSUME NEW c \in Browsers, conn'[c] # "closed"
               PROVE  Stream(FrontFrame, buff'[c], toFront'[c], taken'[c])
    BY DEF FramesKept
  <2>1. CASE c = b
    BY <1>5, <2>1
  <2>2. CASE c # b
    BY <1>4, <2>2 DEF FramesKept
  <2> QED
    BY <2>1, <2>2
<1>8. toFront' \in [Browsers -> Seq(FrontFrame)]
  BY <1>3 DEF WireTypeOK, Appended
<1>9. toFront'[b] # <<>>
  <2>1. Len(toFront[b] \o Pieces(x)) = Len(toFront[b]) + 2 /\ Len(toFront[b]) \in Nat
    BY <1>1 DEF Pieces
  <2> QED
    BY <1>4, <2>1
<1> QED
  BY <1>5, <1>6, <1>7, <1>8, <1>9

\* What leaves buffers and streams alone leaves the frames alone: from a browser,
LEMMA FramesUntouched ==
  ASSUME FramesKept, UNCHANGED <<buff, toFront, taken>>,
         \A c \in Browsers : conn'[c] # "closed" => conn[c] # "closed"
  PROVE  FramesKept' /\ \A c \in Browsers : FramesOf(c)' = FramesOf(c)
PROOF
<1>1. \A c \in Browsers : FramesOf(c)' = FramesOf(c)
  BY DEF FramesOf
<1> QED
  BY <1>1 DEF FramesKept

(* on the stream up,                                                       *)
LEMMA UpUntouched ==
  ASSUME UpKept, UNCHANGED <<codecBuff, upstream>> PROVE UpKept' /\ UpMessages' = UpMessages
PROOF BY DEF UpKept, UpMessages

(* and on the stream down.                                                 *)
LEMMA DownUntouched ==
  ASSUME DownKept, UNCHANGED <<frontBuff, downstream>> PROVE DownKept' /\ DownMessages' = DownMessages
PROOF BY DEF DownKept, DownMessages

(* Everything is well-formed and kept up at the beginning. *)
LEMMA EmptyStream ==
  ASSUME NEW A
  PROVE  Stream(A, <<>>, <<>>, 0) /\ MessagesOf(<<>>, <<>>, 0) = <<>>
PROOF
<1>1. <<>> \o <<>> = <<>> /\ Len(<<>>) = 0 /\ (0 + 0) \div 2 = 0 /\ <<>> \in Seq(A)
  OBVIOUS
<1>2. Messages(<<>>, 0) = <<>>
  BY <1>1 DEF Messages
<1>3. Carries(<<>>, 0, <<>>)
  BY <1>1 DEF Carries
<1> QED
  BY <1>1, <1>2, <1>3 DEF Stream, MessagesOf

(* At first nothing is under way.                                          *)
LEMMA WireInitKept ==
  ASSUME WireInit
  PROVE  /\ WireTypeOK
         /\ Framed
         /\ Connected
         /\ \A b \in Browsers : FramesOf(b) = <<>>
         /\ UpMessages = <<>>
         /\ DownMessages = <<>>
PROOF
<1>1. PICK s \in Scripts :
        /\ page = [b \in Browsers |-> IF b \in s.there THEN "away" ELSE "absent"]
        /\ toSay = s.up
        /\ toTell = s.down
  BY DEF WireInit
<1>2. /\ said = [b \in Browsers |-> <<>>]
      /\ heard = [b \in Browsers |-> <<>>]
      /\ conn = [b \in Browsers |-> "none"]
      /\ toFront = [b \in Browsers |-> <<>>]
      /\ buff = [b \in Browsers |-> <<>>]
      /\ taken = [b \in Browsers |-> 0]
      /\ toBrowser = [b \in Browsers |-> <<>>]
      /\ upstream = <<>>
      /\ codecBuff = <<>>
      /\ handled = <<>>
      /\ told = <<>>
      /\ downstream = <<>>
      /\ frontBuff = <<>>
  BY DEF WireInit
<1>3. WireTypeOK
  <2>1. toSay \in [Browsers -> Seq(PageTalk)] /\ toTell \in Seq(Browsers \X CenterTalk)
    BY <1>1, ScriptTypes
  <2>2. page \in [Browsers -> {"absent", "away", "opening", "open", "silent"}]
    BY <1>1
  <2> QED
    BY <1>2, <2>1, <2>2, EmptySeq DEF WireTypeOK
<1>4. \A b \in Browsers : FramesOf(b) = <<>> /\ Stream(FrontFrame, buff[b], toFront[b], taken[b])
  BY <1>2, EmptyStream DEF FramesOf
<1>5. UpMessages = <<>> /\ UpKept /\ DownMessages = <<>> /\ DownKept
  BY <1>2, EmptyStream DEF UpMessages, DownMessages, UpKept, DownKept
<1>6. Framed
  BY <1>4, <1>5 DEF Framed, FramesKept
<1>7. Connected
  BY <1>1, <1>2 DEF Connected
<1> QED
  BY <1>3, <1>4, <1>5, <1>6, <1>7

WireKept == WireTypeOK /\ Framed /\ Connected

(* A page that connects sends the request for the handshake.               *)
LEMMA OpenSocketKept ==
  ASSUME WireKept, NEW b \in Browsers, OpenSocket(b)
  PROVE  /\ WireKept'
         /\ FramesOf(b)' = Append(FramesOf(b), [opcode |-> "HTTP"])
         /\ \A c \in Browsers \ {b} : FramesOf(c)' = FramesOf(c)
PROOF
<1> USE DEF WireKept
<1> DEFINE x == [opcode |-> "HTTP"]
<1>1. /\ page[b] = "away"
      /\ page' = [page EXCEPT ![b] = "opening"]
      /\ conn' = [conn EXCEPT ![b] = "wait"]
      /\ UNCHANGED <<toSay, said, heard, buff, taken, toBrowser, upVars, downVars>>
      /\ toFront' = [toFront EXCEPT ![b] = Pieces(x)]
  BY DEF OpenSocket
<1>2. conn[b] = "none" /\ toFront[b] = <<>>
  BY <1>1 DEF Connected
<1>3. x \in FrontFrame
  BY DEF FrontFrame
<1>4. toFront' = [toFront EXCEPT ![b] = @ \o Pieces(x)]
  <2>1. <<>> \o Pieces(x) = Pieces(x)
    BY DEF Pieces
  <2> QED
    BY <1>1, <1>2, <2>1 DEF WireTypeOK
<1>5. \A c \in Browsers : conn'[c] # "closed" => conn[c] # "closed"
  BY <1>1, <1>2 DEF WireTypeOK
<1>6. FramesKept /\ UpKept /\ DownKept
  BY DEF Framed
<1> HIDE DEF x
<1>7. /\ toFront' \in [Browsers -> Seq(FrontFrame)]
      /\ FramesKept'
      /\ FramesOf(b)' = Append(FramesOf(b), x)
      /\ \A c \in Browsers \ {b} : FramesOf(c)' = FramesOf(c)
      /\ toFront'[b] # <<>>
  BY <1>1, <1>2, <1>3, <1>4, <1>5, <1>6, FrameAppended
<1>8. UpKept' /\ DownKept'
  BY <1>1, <1>6, UpUntouched, DownUntouched DEF upVars, downVars
<1>9. Framed'
  BY <1>7, <1>8 DEF Framed
<1>10. WireTypeOK'
  <2>1. /\ page' \in [Browsers -> {"absent", "away", "opening", "open", "silent"}]
        /\ conn' \in [Browsers -> {"none", "wait", "ping", "pong", "closed"}]
    BY <1>1 DEF WireTypeOK
  <2> QED
    BY <1>1, <1>7, <2>1 DEF WireTypeOK, upVars, downVars
<1>11. Connected'
  <2> SUFFICES ASSUME NEW c \in Browsers
               PROVE  /\ page'[c] \in {"absent", "away"} <=> conn'[c] = "none"
                      /\ conn'[c] = "none" => /\ toFront'[c] = <<>>
                                             /\ buff'[c] = <<>>
                                             /\ taken'[c] = 0
                                             /\ toBrowser'[c] = <<>>
                                             /\ said'[c] = <<>>
                      /\ conn'[c] = "wait" => toFront'[c] # <<>>
                      /\ conn'[c] = "pong" /\ page'[c] # "silent" =>
                           toFront'[c] # <<>> \/ PingOnItsWay(c)'
                      /\ conn'[c] = "closed" => page'[c] = "silent"
    BY DEF Connected
  <2>1. CASE c = b
    BY <1>1, <1>7, <2>1 DEF WireTypeOK
  <2>2. CASE c # b
    BY <1>1, <2>2 DEF WireTypeOK, Connected, PingOnItsWay
  <2> QED
    BY <2>1, <2>2
<1> QED
  BY <1>7, <1>9, <1>10, <1>11 DEF x

(* What a page says is the last of its frames.                             *)
LEMMA SayKept ==
  ASSUME WireKept, NEW b \in Browsers, Say(b)
  PROVE  /\ WireKept'
         /\ Head(toSay[b]) \in PageTalk
         /\ conn[b] # "closed"
         /\ FramesOf(b)' = Append(FramesOf(b), [opcode |-> "BINARY",
                                               bytes |-> Encode(PageSide, Head(toSay[b]))])
         /\ \A c \in Browsers \ {b} : FramesOf(c)' = FramesOf(c)
PROOF
<1> USE DEF WireKept
<1> DEFINE x == [opcode |-> "BINARY", bytes |-> Encode(PageSide, Head(toSay[b]))]
<1>1. /\ page[b] = "open"
      /\ toSay[b] # <<>>
      /\ said' = [said EXCEPT ![b] = Append(@, Head(toSay[b]))]
      /\ toSay' = [toSay EXCEPT ![b] = Tail(@)]
      /\ toFront' = [toFront EXCEPT ![b] = @ \o Pieces(x)]
      /\ UNCHANGED <<page, heard, conn, buff, taken, toBrowser, upVars, downVars>>
  BY DEF Say
<1>2. conn[b] # "closed" /\ conn[b] # "none"
  BY <1>1 DEF Connected
<1>3. Head(toSay[b]) \in PageTalk /\ Tail(toSay[b]) \in Seq(PageTalk)
  BY <1>1 DEF WireTypeOK
<1>4. x \in FrontFrame
  BY <1>3 DEF FrontFrame
<1>6. FramesKept /\ UpKept /\ DownKept
  BY DEF Framed
<1> HIDE DEF x
<1>7. /\ toFront' \in [Browsers -> Seq(FrontFrame)]
      /\ FramesKept'
      /\ FramesOf(b)' = Append(FramesOf(b), x)
      /\ \A c \in Browsers \ {b} : FramesOf(c)' = FramesOf(c)
      /\ toFront'[b] # <<>>
  BY <1>1, <1>2, <1>4, <1>6, FrameAppended
<1>8. UpKept' /\ DownKept'
  BY <1>1, <1>6, UpUntouched, DownUntouched DEF upVars, downVars
<1>9. Framed'
  BY <1>7, <1>8 DEF Framed
<1>10. WireTypeOK'
  <2>1. toSay' \in [Browsers -> Seq(PageTalk)] /\ said' \in [Browsers -> Seq(PageTalk)]
    BY <1>1, <1>3 DEF WireTypeOK
  <2> QED
    BY <1>1, <1>7, <2>1 DEF WireTypeOK, upVars, downVars
<1>11. Connected'
  <2> SUFFICES ASSUME NEW c \in Browsers
               PROVE  /\ page'[c] \in {"absent", "away"} <=> conn'[c] = "none"
                      /\ conn'[c] = "none" => /\ toFront'[c] = <<>>
                                             /\ buff'[c] = <<>>
                                             /\ taken'[c] = 0
                                             /\ toBrowser'[c] = <<>>
                                             /\ said'[c] = <<>>
                      /\ conn'[c] = "wait" => toFront'[c] # <<>>
                      /\ conn'[c] = "pong" /\ page'[c] # "silent" =>
                           toFront'[c] # <<>> \/ PingOnItsWay(c)'
                      /\ conn'[c] = "closed" => page'[c] = "silent"
    BY DEF Connected
  <2>1. CASE c = b
    <3>1. conn'[b] = conn[b] /\ page'[b] = "open"
      BY <1>1
    <3> QED
      BY <1>2, <1>7, <2>1, <3>1
  <2>2. CASE c # b
    <3>1. toFront'[c] = toFront[c] /\ said'[c] = said[c]
      BY <1>1, <2>2 DEF WireTypeOK
    <3> QED
      BY <1>1, <3>1 DEF Connected, PingOnItsWay
  <2> QED
    BY <2>1, <2>2
<1> QED
  BY <1>2, <1>3, <1>7, <1>9, <1>10, <1>11 DEF x

(* A page that falls silent changes nothing that is under way.             *)
LEMMA GoSilentKept ==
  ASSUME WireKept, NEW b \in Browsers, GoSilent(b)
  PROVE  WireKept' /\ \A c \in Browsers : FramesOf(c)' = FramesOf(c)
PROOF
<1> USE DEF WireKept
<1>1. /\ page[b] \in {"opening", "open"}
      /\ page' = [page EXCEPT ![b] = "silent"]
      /\ UNCHANGED <<toSay, said, heard, sockVars, upVars, downVars>>
  BY DEF GoSilent
<1>2. FramesKept /\ UpKept /\ DownKept
  BY DEF Framed
<1>3. /\ FramesKept' /\ UpKept' /\ DownKept'
      /\ \A c \in Browsers : FramesOf(c)' = FramesOf(c)
  BY <1>1, <1>2, FramesUntouched, UpUntouched, DownUntouched DEF sockVars, upVars, downVars
<1>4. Framed'
  BY <1>3 DEF Framed
<1>5. WireTypeOK'
  <2>1. page' \in [Browsers -> {"absent", "away", "opening", "open", "silent"}]
    BY <1>1 DEF WireTypeOK
  <2> QED
    BY <1>1, <2>1 DEF WireTypeOK, sockVars, upVars, downVars
<1>6. Connected'
  BY <1>1 DEF WireTypeOK, Connected, PingOnItsWay, sockVars
<1> QED
  BY <1>3, <1>4, <1>5, <1>6

(* A ping changes nothing on the way up.                                   *)
LEMMA SendPingTimerKept ==
  ASSUME WireKept, NEW b \in Browsers, SendPingTimer(b)
  PROVE  WireKept' /\ \A c \in Browsers : FramesOf(c)' = FramesOf(c)
PROOF
<1> USE DEF WireKept
<1>1. /\ conn[b] = "ping"
      /\ conn' = [conn EXCEPT ![b] = "pong"]
      /\ toBrowser' = [toBrowser EXCEPT ![b] = Append(@, [opcode |-> "PING"])]
      /\ UNCHANGED <<pageVars, toFront, buff, taken, upVars, downVars>>
  BY DEF SendPingTimer, Send
<1>2. FramesKept /\ UpKept /\ DownKept
  BY DEF Framed
<1>3. \A c \in Browsers : conn'[c] # "closed" => conn[c] # "closed"
  BY <1>1 DEF WireTypeOK
<1>4. /\ FramesKept' /\ UpKept' /\ DownKept'
      /\ \A c \in Browsers : FramesOf(c)' = FramesOf(c)
  BY <1>1, <1>2, <1>3, FramesUntouched, UpUntouched, DownUntouched DEF upVars, downVars
<1>5. Framed'
  BY <1>4 DEF Framed
<1>6. WireTypeOK'
  <2>1. [opcode |-> "PING"] \in PageFrame
    BY DEF PageFrame
  <2>2. conn' \in [Browsers -> {"none", "wait", "ping", "pong", "closed"}]
    BY <1>1 DEF WireTypeOK
  <2>3. toBrowser' \in [Browsers -> Seq(PageFrame)]
    BY <1>1, <2>1 DEF WireTypeOK
  <2> QED
    BY <1>1, <2>2, <2>3 DEF WireTypeOK, pageVars, upVars, downVars
<1>7. PingOnItsWay(b)'
  <2>1. toBrowser'[b] = Append(toBrowser[b], [opcode |-> "PING"]) /\ toBrowser[b] \in Seq(PageFrame)
    BY <1>1 DEF WireTypeOK
  <2>2. PICK n \in Nat : n = Len(toBrowser[b])
    BY <2>1
  <2>3. n + 1 \in DOMAIN toBrowser'[b] /\ toBrowser'[b][n + 1] = [opcode |-> "PING"]
    BY <2>1, <2>2
  <2> QED
    BY <2>3 DEF PingOnItsWay
<1>8. Connected'
  <2> SUFFICES ASSUME NEW c \in Browsers
               PROVE  /\ page'[c] \in {"absent", "away"} <=> conn'[c] = "none"
                      /\ conn'[c] = "none" => /\ toFront'[c] = <<>>
                                             /\ buff'[c] = <<>>
                                             /\ taken'[c] = 0
                                             /\ toBrowser'[c] = <<>>
                                             /\ said'[c] = <<>>
                      /\ conn'[c] = "wait" => toFront'[c] # <<>>
                      /\ conn'[c] = "pong" /\ page'[c] # "silent" =>
                           toFront'[c] # <<>> \/ PingOnItsWay(c)'
                      /\ conn'[c] = "closed" => page'[c] = "silent"
    BY DEF Connected
  <2>1. CASE c = b
    <3>1. conn'[b] = "pong"
      BY <1>1 DEF WireTypeOK
    <3>2. page'[b] \notin {"absent", "away"}
      BY <1>1 DEF Connected, pageVars
    <3> QED
      BY <1>7, <2>1, <3>1, <3>2
  <2>2. CASE c # b
    <3>1. toBrowser'[c] = toBrowser[c] /\ conn'[c] = conn[c]
      BY <1>1, <2>2 DEF WireTypeOK
    <3> QED
      BY <1>1, <3>1 DEF Connected, PingOnItsWay, pageVars
  <2> QED
    BY <2>1, <2>2
<1> QED
  BY <1>4, <1>5, <1>6, <1>8

(* A page answers a ping with a pong, and nothing else.                    *)
LEMMA HearKept ==
  ASSUME WireKept, NEW b \in Browsers, Hear(b)
  PROVE  /\ WireKept'
         /\ conn[b] # "closed"
         /\ Head(toBrowser[b]) \in PageFrame
         /\ FramesOf(b)' = IF Head(toBrowser[b]).opcode = "PING"
                             THEN Append(FramesOf(b), [opcode |-> "PONG"]) ELSE FramesOf(b)
         /\ \A c \in Browsers \ {b} : FramesOf(c)' = FramesOf(c)
PROOF
<1> USE DEF WireKept
<1>1. PICK f : f = Head(toBrowser[b])
  OBVIOUS
<1>2. /\ page[b] \in {"opening", "open"}
      /\ toBrowser[b] # <<>>
      /\ toBrowser' = [toBrowser EXCEPT ![b] = Tail(@)]
      /\ UNCHANGED <<toSay, said, conn, buff, taken, upVars, downVars>>
      /\ \/ /\ f.opcode = "101"
            /\ page' = [page EXCEPT ![b] = "open"]
            /\ UNCHANGED <<heard, toFront>>
         \/ /\ f.opcode = "PING"
            /\ toFront' = [toFront EXCEPT ![b] = @ \o Pieces([opcode |-> "PONG"])]
            /\ UNCHANGED <<page, heard>>
         \/ /\ f.opcode = "BINARY"
            /\ heard' = IF Parses(f.bytes)
                          THEN [heard EXCEPT ![b] = Append(@, Decode(PageSide, f.bytes))]
                          ELSE heard
            /\ UNCHANGED <<page, toFront>>
  BY <1>1 DEF Hear
<1>3. conn[b] # "closed" /\ conn[b] # "none"
  BY <1>2 DEF Connected
<1>4. f \in PageFrame /\ Tail(toBrowser[b]) \in Seq(PageFrame) /\ toBrowser[b] \in Seq(PageFrame)
  BY <1>1, <1>2 DEF WireTypeOK
<1>5. FramesKept /\ UpKept /\ DownKept
  BY DEF Framed
<1>6. UpKept' /\ DownKept'
  BY <1>2, <1>5, UpUntouched, DownUntouched DEF upVars, downVars
<1>7. /\ toFront' \in [Browsers -> Seq(FrontFrame)]
      /\ FramesKept'
      /\ FramesOf(b)' = IF f.opcode = "PING" THEN Append(FramesOf(b), [opcode |-> "PONG"])
                                             ELSE FramesOf(b)
      /\ \A c \in Browsers \ {b} : FramesOf(c)' = FramesOf(c)
      /\ f.opcode = "PING" => toFront'[b] # <<>>
  <2>1. CASE f.opcode = "PING"
    <3>1. [opcode |-> "PONG"] \in FrontFrame
      BY DEF FrontFrame
    <3> QED
      BY <1>2, <1>3, <1>5, <2>1, <3>1, FrameAppended
  <2>2. CASE f.opcode # "PING"
    <3>1. UNCHANGED <<buff, toFront, taken, conn>>
      BY <1>2, <2>2
    <3> QED
      BY <1>5, <2>2, <3>1, FramesUntouched DEF WireTypeOK
  <2> QED
    BY <2>1, <2>2
<1>8. Framed'
  BY <1>6, <1>7 DEF Framed
<1>9. WireTypeOK'
  <2>1. page' \in [Browsers -> {"absent", "away", "opening", "open", "silent"}]
    BY <1>2 DEF WireTypeOK
  <2>2. heard' \in [Browsers -> Seq({Decode(PageSide, Encode(ProtoSide, m)) : m \in CenterTalk})]
    <3>1. CASE f.opcode = "BINARY" /\ heard' # heard
      <4>1. PICK m \in CenterTalk : f.bytes = Encode(ProtoSide, m)
        BY <1>4, <3>1 DEF PageFrame
      <4>2. PICK D : D = {Decode(PageSide, Encode(ProtoSide, k)) : k \in CenterTalk}
        OBVIOUS
      <4>3. Decode(PageSide, f.bytes) \in D
        BY <4>1, <4>2
      <4>4. heard' = [heard EXCEPT ![b] = Append(@, Decode(PageSide, f.bytes))]
        BY <1>2, <3>1
      <4>5. heard \in [Browsers -> Seq(D)]
        BY <4>2 DEF WireTypeOK
      <4>6. heard' \in [Browsers -> Seq(D)]
        BY <4>3, <4>4, <4>5
      <4> QED
        BY <4>2, <4>6
    <3>2. CASE heard' = heard
      BY <3>2 DEF WireTypeOK
    <3>3. f.opcode = "BINARY" \/ heard' = heard
      BY <1>2
    <3> QED
      BY <3>1, <3>2, <3>3
  <2>3. toBrowser' \in [Browsers -> Seq(PageFrame)]
    BY <1>2, <1>4 DEF WireTypeOK
  <2> QED
    BY <1>2, <1>7, <2>1, <2>2, <2>3 DEF WireTypeOK, upVars, downVars
<1>10. f.opcode # "PING" /\ PingOnItsWay(b) => PingOnItsWay(b)'
  <2> SUFFICES ASSUME f.opcode # "PING", PingOnItsWay(b) PROVE PingOnItsWay(b)'
    OBVIOUS
  <2>1. PICK k \in DOMAIN toBrowser[b] : toBrowser[b][k].opcode = "PING"
    BY DEF PingOnItsWay
  <2>2. toBrowser'[b] = Tail(toBrowser[b])
    BY <1>2 DEF WireTypeOK
  <2>3. k # 1
    BY <1>1, <1>2, <1>4, <2>1
  <2>4. k - 1 \in DOMAIN Tail(toBrowser[b]) /\ Tail(toBrowser[b])[k - 1] = toBrowser[b][k]
    <3>0. Tail(toBrowser[b]) \in Seq(PageFrame) /\ Len(toBrowser[b]) \in Nat
      BY <1>4
    <3>1. PICK n \in Nat, T \in Seq(PageFrame) : T = Tail(toBrowser[b]) /\ n = Len(toBrowser[b])
      BY <3>0
    <3>2. Len(T) = n - 1 /\ \A j \in 1..(n - 1) : T[j] = toBrowser[b][j + 1]
      BY <1>2, <1>4, <3>1, HeadTailProperties
    <3>3. k - 1 \in 1..(n - 1) /\ (k - 1) + 1 = k
      BY <1>4, <2>1, <2>3, <3>1
    <3> QED
      BY <3>1, <3>2, <3>3
  <2> QED
    BY <2>1, <2>2, <2>4 DEF PingOnItsWay
<1>11. Connected'
  <2> SUFFICES ASSUME NEW c \in Browsers
               PROVE  /\ page'[c] \in {"absent", "away"} <=> conn'[c] = "none"
                      /\ conn'[c] = "none" => /\ toFront'[c] = <<>>
                                             /\ buff'[c] = <<>>
                                             /\ taken'[c] = 0
                                             /\ toBrowser'[c] = <<>>
                                             /\ said'[c] = <<>>
                      /\ conn'[c] = "wait" => toFront'[c] # <<>>
                      /\ conn'[c] = "pong" /\ page'[c] # "silent" =>
                           toFront'[c] # <<>> \/ PingOnItsWay(c)'
                      /\ conn'[c] = "closed" => page'[c] = "silent"
    BY DEF Connected
  <2>1. CASE c = b
    <3>1. page'[b] \in {"opening", "open"} /\ conn'[b] = conn[b]
      BY <1>2 DEF WireTypeOK
    <3>2. f.opcode # "PING" => toFront'[b] = toFront[b]
      BY <1>2
    <3> QED
      BY <1>2, <1>3, <1>7, <1>10, <2>1, <3>1, <3>2 DEF Connected
  <2>2. CASE c # b
    <3>1. /\ page'[c] = page[c]
          /\ toFront'[c] = toFront[c]
          /\ toBrowser'[c] = toBrowser[c]
      BY <1>2, <2>2 DEF WireTypeOK
    <3> QED
      BY <1>2, <3>1 DEF Connected, PingOnItsWay
  <2> QED
    BY <2>1, <2>2
<1> QED
  BY <1>1, <1>3, <1>4, <1>7, <1>8, <1>9, <1>11

(* What the front hands on is the last message of the stream up.           *)
LEMMA ForwardKept ==
  ASSUME WireTypeOK, UpKept, NEW b \in Browsers, NEW bytes, Forward(b, bytes), UNCHANGED codecBuff,
         [id |-> b, bytes |-> bytes] \in UpMessage
  PROVE  /\ UpKept'
         /\ upstream' \in Seq(UpMessage)
         /\ UpMessages' = Append(UpMessages, [id |-> b, bytes |-> bytes])
PROOF
<1>1. PICK x : x = [id |-> b, bytes |-> bytes]
  OBVIOUS
<1>2. x \in UpMessage /\ upstream' = upstream \o Pieces(x) /\ codecBuff' = codecBuff
  BY <1>1 DEF Forward
<1>3. codecBuff \in Seq(UpMessage) /\ upstream \in Seq(UpMessage)
  BY DEF WireTypeOK
<1>4. Appended(UpMessage, codecBuff, upstream, 0, x)
  BY <1>2, <1>3, AppendedStream DEF UpKept
<1>5. /\ upstream' \in Seq(UpMessage)
      /\ Stream(UpMessage, codecBuff', upstream', 0)
      /\ MessagesOf(codecBuff', upstream', 0) = Append(MessagesOf(codecBuff, upstream, 0), x)
  BY <1>2, <1>4 DEF Appended
<1> QED
  BY <1>1, <1>5 DEF UpKept, UpMessages

(* A read takes no frame, or the first: a message is handed on.            *)
LEMMA OnMessageKept ==
  ASSUME WireKept, NEW b \in Browsers, OnMessage(b)
  PROVE  /\ WireKept'
         /\ conn[b] # "closed"
         /\ conn'[b] \in {"wait", "ping", "pong"}
         /\ \A c \in Browsers \ {b} : conn'[c] = conn[c] /\ toBrowser'[c] = toBrowser[c]
         /\ \A c \in Browsers \ {b} : FramesOf(c)' = FramesOf(c)
         /\ \/ /\ FramesOf(b)' = FramesOf(b)
               /\ UpMessages' = UpMessages
               /\ UNCHANGED <<conn, toBrowser>>
            \/ /\ FramesOf(b) # <<>>
               /\ FramesOf(b)' = Tail(FramesOf(b))
               /\ conn'[b] = "ping"
               /\ LET f == Head(FramesOf(b))
                  IN  IF f.opcode = "BINARY"
                        THEN /\ UpMessages' = Append(UpMessages, [id |-> b, bytes |-> f.bytes])
                             /\ toBrowser'[b] = toBrowser[b]
                        ELSE /\ UpMessages' = UpMessages
                             /\ \/ toBrowser'[b] = toBrowser[b]
                                \/ toBrowser'[b] = Append(toBrowser[b], [opcode |-> "101"])
PROOF
<1> USE DEF WireKept
<1>1. PICK n \in 1..Len(toFront[b]) :
        /\ ReadFrame(b, n)
        /\ toFront' = [toFront EXCEPT ![b] = SubSeq(@, n + 1, Len(@))]
  BY DEF OnMessage
<1>2. /\ conn[b] \in {"wait", "ping", "pong"}
      /\ UNCHANGED <<page, toSay, said, heard, codecBuff, handled, downVars>>
  BY DEF OnMessage, pageVars
<1>3. PICK arrived, needed : /\ arrived = ReadOf(buff[b], toFront[b], n)
                             /\ needed = 2 - taken[b]
  OBVIOUS
<1>4. IF Len(arrived) < needed
        THEN /\ taken' = [taken EXCEPT ![b] = @ + Len(arrived)]
             /\ buff' = [buff EXCEPT ![b] = <<>>]
             /\ UNCHANGED <<conn, toBrowser, upstream>>
        ELSE /\ taken' = [taken EXCEPT ![b] = 0]
             /\ buff' = [buff EXCEPT ![b] = SubSeq(arrived, needed + 1, Len(arrived))]
             /\ HandleFrame(b, arrived[needed])
  BY <1>1, <1>3 DEF ReadFrame, ReadOf
<1>5. buff[b] \in Seq(FrontFrame) /\ toFront[b] \in Seq(FrontFrame) /\ taken[b] \in {0, 1}
  BY DEF WireTypeOK
<1>6. Stream(FrontFrame, buff[b], toFront[b], taken[b])
  BY <1>2 DEF Framed, FramesKept
<1>7. PICK r, left : /\ r = LeftOf(toFront[b], n)
                     /\ left = SubSeq(arrived, needed + 1, Len(arrived))
  OBVIOUS
<1>8. /\ Len(arrived) \in Nat
      /\ r \in Seq(FrontFrame)
      /\ Len(arrived) < needed =>
           /\ taken[b] = 0
           /\ Len(arrived) = 1
           /\ r # <<>>
           /\ MessagesOf(<<>>, r, 1) = FramesOf(b)
           /\ Stream(FrontFrame, <<>>, r, 1)
      /\ Len(arrived) >= needed =>
           /\ FramesOf(b) # <<>>
           /\ arrived[needed] = Head(FramesOf(b))
           /\ left \in Seq(FrontFrame)
           /\ MessagesOf(left, r, 0) = Tail(FramesOf(b))
           /\ Stream(FrontFrame, left, r, 0)
  <2>1. FrameTaken(FrontFrame, buff[b], toFront[b], taken[b], n)
    BY <1>5, <1>6, FrameCut
  <2> QED
    BY <1>3, <1>7, <2>1 DEF FrameTaken, FramesOf
<1>9. needed \in Nat /\ FramesOf(b) \in Seq(FrontFrame)
  BY <1>3, <1>5, <1>6 DEF Stream, FramesOf
<1>10. toFront'[b] = r /\ \A c \in Browsers \ {b} : toFront'[c] = toFront[c]
  BY <1>1, <1>7 DEF WireTypeOK, LeftOf
<1>11. toFront' \in [Browsers -> Seq(FrontFrame)]
  BY <1>1, <1>7, <1>8 DEF WireTypeOK, LeftOf
<1>12. \A c \in Browsers \ {b} :
         /\ buff'[c] = buff[c] /\ taken'[c] = taken[c] /\ conn'[c] = conn[c] /\ toBrowser'[c] = toBrowser[c]
  BY <1>4 DEF WireTypeOK, HandleFrame, Send
<1>13. \A c \in Browsers \ {b} : FramesOf(c)' = FramesOf(c)
  BY <1>10, <1>12 DEF FramesOf
<1>14. DownKept'
  BY <1>2, DownUntouched DEF Framed, downVars
<1>15. UpKept
  BY DEF Framed
<1>16. CASE Len(arrived) < needed
  <2>1. /\ taken' = [taken EXCEPT ![b] = @ + Len(arrived)]
        /\ buff' = [buff EXCEPT ![b] = <<>>]
        /\ UNCHANGED <<conn, toBrowser, upstream>>
    BY <1>4, <1>16
  <2>2. taken'[b] = 1 /\ buff'[b] = <<>>
    BY <1>8, <1>16, <2>1 DEF WireTypeOK
  <2>3. FramesOf(b)' = FramesOf(b) /\ Stream(FrontFrame, buff'[b], toFront'[b], taken'[b])
    BY <1>8, <1>10, <1>16, <2>2 DEF FramesOf
  <2>4. FramesKept'
    BY <1>10, <1>12, <2>3 DEF Framed, FramesKept
  <2>5. UpKept' /\ UpMessages' = UpMessages
    BY <1>2, <1>15, <2>1, UpUntouched
  <2>6. Framed'
    BY <1>14, <2>4, <2>5 DEF Framed
  <2>7. WireTypeOK'
    <3>1. buff' \in [Browsers -> Seq(FrontFrame)]
      BY <2>1, EmptySeq DEF WireTypeOK
    <3>2. taken' \in [Browsers -> {0, 1}]
      BY <1>8, <1>16, <2>1 DEF WireTypeOK
    <3> QED
      BY <1>2, <1>11, <2>1, <3>1, <3>2 DEF WireTypeOK, downVars
  <2>8. Connected'
    <3>1. toFront'[b] # <<>>
      BY <1>8, <1>10, <1>16
    <3> QED
      BY <1>2, <1>10, <1>12, <2>1, <3>1 DEF Connected, PingOnItsWay
  <2> QED
    BY <1>2, <1>12, <1>13, <2>1, <2>3, <2>5, <2>6, <2>7, <2>8
<1>17. CASE Len(arrived) >= needed
  <2>1. PICK f : f = Head(FramesOf(b)) /\ f \in FrontFrame
    <3>1. Head(FramesOf(b)) \in FrontFrame
      BY <1>8, <1>9, <1>17
    <3> QED
      BY <3>1
  <2>2. /\ taken' = [taken EXCEPT ![b] = 0]
        /\ buff' = [buff EXCEPT ![b] = left]
        /\ HandleFrame(b, f)
    BY <1>4, <1>7, <1>8, <1>9, <1>17, <2>1
  <2>3. /\ conn' = [conn EXCEPT ![b] = "ping"]
        /\ \/ f.opcode = "HTTP" /\ Send(b, [opcode |-> "101"]) /\ UNCHANGED upstream
           \/ f.opcode = "PONG" /\ UNCHANGED <<toBrowser, upstream>>
           \/ f.opcode = "BINARY" /\ Forward(b, f.bytes) /\ UNCHANGED toBrowser
    BY <2>2 DEF HandleFrame
  <2>4. taken'[b] = 0 /\ buff'[b] = left /\ conn'[b] = "ping"
    BY <2>2, <2>3 DEF WireTypeOK
  <2>5. FramesOf(b)' = Tail(FramesOf(b)) /\ Stream(FrontFrame, buff'[b], toFront'[b], taken'[b])
    BY <1>8, <1>10, <1>17, <2>4 DEF FramesOf
  <2>6. FramesKept'
    BY <1>10, <1>12, <2>5 DEF Framed, FramesKept
  <2>7. /\ UpKept'
        /\ upstream' \in Seq(UpMessage)
        /\ IF f.opcode = "BINARY" THEN UpMessages' = Append(UpMessages, [id |-> b, bytes |-> f.bytes])
                                  ELSE UpMessages' = UpMessages
    <3>1. CASE f.opcode = "BINARY"
      <4>1. [id |-> b, bytes |-> f.bytes] \in UpMessage
        <5>1. PICK m \in PageTalk : f.bytes = Encode(PageSide, m)
          BY <2>1, <3>1 DEF FrontFrame
        <5> QED
          BY <5>1 DEF UpMessage
      <4>2. Forward(b, f.bytes)
        BY <2>3, <3>1
      <4> QED
        BY <1>2, <1>15, <3>1, <4>1, <4>2, ForwardKept
    <3>2. CASE f.opcode # "BINARY"
      BY <1>2, <1>15, <2>3, <3>2, UpUntouched DEF WireTypeOK
    <3> QED
      BY <3>1, <3>2
  <2>8. Framed'
    BY <1>14, <2>6, <2>7 DEF Framed
  <2>9. /\ toBrowser' \in [Browsers -> Seq(PageFrame)]
        /\ IF f.opcode = "BINARY" THEN toBrowser'[b] = toBrowser[b]
           ELSE \/ toBrowser'[b] = toBrowser[b]
                \/ toBrowser'[b] = Append(toBrowser[b], [opcode |-> "101"])
    <3>1. CASE f.opcode = "HTTP"
      <4>1. [opcode |-> "101"] \in PageFrame
        BY DEF PageFrame
      <4>2. toBrowser' = [toBrowser EXCEPT ![b] = Append(@, [opcode |-> "101"])]
        BY <2>3, <3>1 DEF Send
      <4> QED
        BY <3>1, <4>1, <4>2 DEF WireTypeOK
    <3>2. CASE f.opcode # "HTTP"
      BY <2>3, <3>2 DEF WireTypeOK
    <3> QED
      BY <3>1, <3>2
  <2>10. WireTypeOK'
    <3>1. buff' \in [Browsers -> Seq(FrontFrame)] /\ taken' \in [Browsers -> {0, 1}]
      BY <1>8, <1>17, <2>2 DEF WireTypeOK
    <3>2. conn' \in [Browsers -> {"none", "wait", "ping", "pong", "closed"}]
      BY <2>3 DEF WireTypeOK
    <3> QED
      BY <1>2, <1>11, <2>7, <2>9, <3>1, <3>2 DEF WireTypeOK, downVars
  <2>11. Connected'
    BY <1>2, <1>10, <1>12, <2>4 DEF Connected, PingOnItsWay
  <2> QED
    BY <1>2, <1>8, <1>12, <1>13, <1>17, <2>1, <2>4, <2>5, <2>7, <2>8, <2>9, <2>10, <2>11
<1> QED
  BY <1>9, <1>16, <1>17

(* Who is closed on has no frames left, and a farewell is handed on.       *)
LEMMA DeadlineKept ==
  ASSUME WireKept, NEW b \in Browsers, Deadline(b)
  PROVE  /\ WireKept'
         /\ conn' = [conn EXCEPT ![b] = "closed"]
         /\ \A c \in Browsers \ {b} : FramesOf(c)' = FramesOf(c)
         /\ UpMessages' \in {UpMessages, Append(UpMessages, [id |-> b, bytes |-> Farewell])}
PROOF
<1> USE DEF WireKept
<1>1. /\ conn[b] \in {"wait", "pong"}
      /\ ~OnItsWay(b)
      /\ conn' = [conn EXCEPT ![b] = "closed"]
      /\ buff' = [buff EXCEPT ![b] = <<>>]
      /\ taken' = [taken EXCEPT ![b] = 0]
      /\ toBrowser' = [toBrowser EXCEPT ![b] = <<>>]
      /\ UNCHANGED <<page, toSay, said, heard, toFront, codecBuff, handled, downVars>>
  BY DEF Deadline, pageVars
<1>2. IF conn[b] = "pong" THEN Forward(b, Farewell) ELSE UNCHANGED upstream
  BY DEF Deadline, Farewell
<1>3. page[b] = "silent"
  BY <1>1 DEF OnItsWay, PingOnItsWay, Connected
<1>4. \A c \in Browsers \ {b} :
        /\ buff'[c] = buff[c] /\ taken'[c] = taken[c] /\ conn'[c] = conn[c] /\ toBrowser'[c] = toBrowser[c]
  BY <1>1 DEF WireTypeOK
<1>5. \A c \in Browsers \ {b} : FramesOf(c)' = FramesOf(c)
  BY <1>1, <1>4 DEF FramesOf
<1>6. conn'[b] = "closed"
  BY <1>1 DEF WireTypeOK
<1>7. FramesKept'
  BY <1>1, <1>4, <1>6 DEF Framed, FramesKept
<1>8. /\ UpKept'
      /\ upstream' \in Seq(UpMessage)
      /\ UpMessages' \in {UpMessages, Append(UpMessages, [id |-> b, bytes |-> Farewell])}
  <2>1. UpKept
    BY DEF Framed
  <2>2. CASE conn[b] = "pong"
    <3>1. [id |-> b, bytes |-> Farewell] \in UpMessage
      BY DEF UpMessage
    <3> QED
      BY <1>1, <1>2, <2>1, <2>2, <3>1, ForwardKept
  <2>3. CASE conn[b] # "pong"
    BY <1>1, <1>2, <2>1, <2>3, UpUntouched DEF WireTypeOK
  <2> QED
    BY <2>2, <2>3
<1>9. DownKept'
  BY <1>1, DownUntouched DEF Framed, downVars
<1>10. Framed'
  BY <1>7, <1>8, <1>9 DEF Framed
<1>11. WireTypeOK'
  <2>1. /\ buff' \in [Browsers -> Seq(FrontFrame)]
        /\ taken' \in [Browsers -> {0, 1}]
        /\ toBrowser' \in [Browsers -> Seq(PageFrame)]
        /\ conn' \in [Browsers -> {"none", "wait", "ping", "pong", "closed"}]
    BY <1>1, EmptySeq DEF WireTypeOK
  <2> QED
    BY <1>1, <1>8, <2>1 DEF WireTypeOK, downVars
<1>12. Connected'
  BY <1>1, <1>3, <1>4, <1>6 DEF Connected, PingOnItsWay
<1> QED
  BY <1>1, <1>5, <1>8, <1>10, <1>11, <1>12

(* A set of numbers up to n has a greatest element.                        *)
LEMMA Greatest ==
  ASSUME NEW n \in Nat, NEW G \in SUBSET (0..n), 0 \in G
  PROVE  \E k \in G : \A j \in G : j <= k
PROOF
<1> DEFINE T == {n - k : k \in G}
<1>1. T \in SUBSET Nat /\ T # {}
  OBVIOUS
<1> HIDE DEF T
<1>2. PICK t \in T : \A m \in T : t <= m
  BY <1>1, LeastElement
<1>3. PICK k \in G : t = n - k
  BY DEF T
<1>4. \A j \in G : n - k <= n - j
  BY <1>2, <1>3 DEF T
<1> QED
  BY <1>4

(* The center handles the first messages of the stream up.                 *)
LEMMA CodecOnMessageKept ==
  ASSUME WireKept, CodecOnMessage
  PROVE  /\ WireKept'
         /\ UNCHANGED <<conn, toBrowser>>
         /\ \A c \in Browsers : FramesOf(c)' = FramesOf(c)
         /\ \E first \in Seq(UpMessage) :
              /\ UpMessages = first \o UpMessages'
              /\ handled' = handled \o [k \in 1..Len(first) |->
                               <<first[k].id, Decode(ProtoSide, first[k].bytes)>>]
PROOF
<1> USE DEF WireKept
<1>1. UNCHANGED <<page, toSay, said, heard, conn, toFront, buff, taken, toBrowser, downVars>>
  BY DEF CodecOnMessage, pageVars, sockVars
<1>2. PICK n \in 1..Len(upstream) :
        LET arrived == codecBuff \o SubSeq(upstream, 1, n)
            whole == Whole(arrived)
            good == {k \in 0..Len(whole) : \A j \in 1..k : Parses(whole[j].bytes)}
            most == CHOOSE k \in good : \A j \in good : j <= k
        IN  /\ upstream' = SubSeq(upstream, n + 1, Len(upstream))
            /\ codecBuff' = Rest(arrived, most)
            /\ handled' = handled \o [k \in 1..most |->
                 <<whole[k].id, Decode(ProtoSide, whole[k].bytes)>>]
  BY DEF CodecOnMessage
<1> DEFINE arrived == codecBuff \o SubSeq(upstream, 1, n)
           whole == Whole(arrived)
           good == {k \in 0..Len(whole) : \A j \in 1..k : Parses(whole[j].bytes)}
           most == CHOOSE k \in good : \A j \in good : j <= k
<1>3. codecBuff \in Seq(UpMessage) /\ upstream \in Seq(UpMessage)
  BY DEF WireTypeOK
<1>4. Stream(UpMessage, codecBuff, upstream, 0)
  BY DEF Framed, UpKept
<1>5. whole = Whole(ReadOf(codecBuff, upstream, n)) /\ whole \in Seq(UpMessage) /\ Len(whole) \in Nat
  <2>1. whole = Whole(ReadOf(codecBuff, upstream, n))
    BY DEF ReadOf
  <2>2. /\ UpMessages \in Seq(UpMessage)
        /\ Carries(codecBuff \o upstream, 0, UpMessages)
    BY <1>4 DEF Stream, UpMessages
  <2>3. Whole(ReadOf(codecBuff, upstream, n)) \in Seq(UpMessage)
    BY <1>3, <2>2, WholeOfRead
  <2> HIDE DEF whole
  <2> QED
    BY <2>1, <2>3
<1>6. most \in good
  <2>1. good \in SUBSET (0..Len(whole)) /\ 0 \in good
    BY <1>5
  <2> HIDE DEF good, whole
  <2>2. \E k \in good : \A j \in good : j <= k
    BY <1>5, <2>1, Greatest
  <2> QED
    BY <2>2
<1> HIDE DEF most
<1>7. most \in Nat /\ most <= Len(whole)
  BY <1>5, <1>6
<1>8. /\ upstream' = SubSeq(upstream, n + 1, Len(upstream))
      /\ codecBuff' = Rest(arrived, most)
      /\ handled' = handled \o [k \in 1..most |-> <<whole[k].id, Decode(ProtoSide, whole[k].bytes)>>]
  BY <1>2 DEF most
<1>9. /\ codecBuff' \in Seq(UpMessage)
      /\ upstream' \in Seq(UpMessage)
      /\ UpKept'
      /\ UpMessages = SubSeq(whole, 1, most) \o UpMessages'
  <2>1. arrived = ReadOf(codecBuff, upstream, n) /\ upstream' = LeftOf(upstream, n)
    BY <1>8 DEF ReadOf, LeftOf
  <2> HIDE DEF arrived, whole
  <2>2. most <= Len(Whole(ReadOf(codecBuff, upstream, n)))
    BY <1>5, <1>7
  <2>3. Retrieved(UpMessage, codecBuff, upstream, n, most)
    BY <1>3, <1>4, <1>7, <2>2, RetrievedStream
  <2> QED
    BY <1>5, <1>8, <2>1, <2>3 DEF Retrieved, UpKept, UpMessages
<1>10. PICK first : first = SubSeq(whole, 1, most)
  OBVIOUS
<1> HIDE DEF good, whole, arrived
<1>11. first \in Seq(UpMessage) /\ Len(first) = most /\ \A k \in 1..most : first[k] = whole[k]
  BY <1>5, <1>7, <1>10, SubSeqProperties
<1>12. [k \in 1..most |-> <<whole[k].id, Decode(ProtoSide, whole[k].bytes)>>]
         = [k \in 1..Len(first) |-> <<first[k].id, Decode(ProtoSide, first[k].bytes)>>]
  BY <1>11
<1>13. [k \in 1..Len(first) |-> <<first[k].id, Decode(ProtoSide, first[k].bytes)>>] \in Seq(Handling)
  <2>1. \A k \in 1..Len(first) : <<first[k].id, Decode(ProtoSide, first[k].bytes)>> \in Handling
    <3> SUFFICES ASSUME NEW k \in 1..Len(first)
                 PROVE  <<first[k].id, Decode(ProtoSide, first[k].bytes)>> \in Handling
      OBVIOUS
    <3>1. first[k] \in UpMessage
      BY <1>11
    <3>2. /\ first[k].id \in Browsers
          /\ first[k].bytes = Farewell \/ \E m \in PageTalk : first[k].bytes = Encode(PageSide, m)
      BY <3>1 DEF UpMessage
    <3> QED
      BY <3>2 DEF Handling
  <2>2. Len(first) \in Nat
    BY <1>11
  <2> QED
    BY <2>1, <2>2, IsASeq
<1>14. FramesKept' /\ DownKept' /\ \A c \in Browsers : FramesOf(c)' = FramesOf(c)
  BY <1>1, FramesUntouched, DownUntouched DEF Framed, downVars
<1>15. Framed'
  BY <1>9, <1>14 DEF Framed
<1>16. WireTypeOK'
  <2>1. handled' \in Seq(Handling)
    <3>1. PICK h : h = [k \in 1..Len(first) |-> <<first[k].id, Decode(ProtoSide, first[k].bytes)>>]
      OBVIOUS
    <3>2. h \in Seq(Handling) /\ handled' = handled \o h
      BY <1>8, <1>12, <1>13, <3>1
    <3>3. handled \in Seq(Handling)
      BY DEF WireTypeOK
    <3> QED
      BY <3>2, <3>3
  <2> QED
    BY <1>1, <1>9, <2>1 DEF WireTypeOK, downVars
<1>17. Connected'
  BY <1>1 DEF Connected, PingOnItsWay
<1> QED
  BY <1>1, <1>8, <1>9, <1>10, <1>11, <1>12, <1>14, <1>15, <1>16, <1>17

(* What the center says is the last message of the stream down.            *)
LEMMA TellKept ==
  ASSUME WireKept, Tell
  PROVE  /\ WireKept'
         /\ UNCHANGED <<conn, toBrowser>>
         /\ \A c \in Browsers : FramesOf(c)' = FramesOf(c)
         /\ toTell # <<>>
         /\ Head(toTell) \in Browsers \X CenterTalk
         /\ conn[Head(toTell)[1]] \in {"ping", "pong"}
         /\ DownMessages' = Append(DownMessages, [id |-> Head(toTell)[1],
                                                  bytes |-> Encode(ProtoSide, Head(toTell)[2])])
PROOF
<1> USE DEF WireKept
<1>1. UNCHANGED <<page, toSay, said, heard, conn, toFront, buff, taken, toBrowser, upVars, frontBuff>>
  BY DEF Tell, pageVars, sockVars
<1>2. PICK x : x = [id |-> Head(toTell)[1], bytes |-> Encode(ProtoSide, Head(toTell)[2])]
  OBVIOUS
<1>3. /\ toTell # <<>>
      /\ conn[Head(toTell)[1]] \in {"ping", "pong"}
      /\ told' = Append(told, Head(toTell))
      /\ toTell' = Tail(toTell)
      /\ downstream' = downstream \o Pieces(x)
  BY <1>2 DEF Tell
<1>4. Head(toTell) \in Browsers \X CenterTalk /\ Tail(toTell) \in Seq(Browsers \X CenterTalk)
  <2>1. PICK C : C = Browsers \X CenterTalk
    OBVIOUS
  <2>2. toTell \in Seq(C) /\ toTell # <<>>
    BY <1>3, <2>1 DEF WireTypeOK
  <2>3. Head(toTell) \in C /\ Tail(toTell) \in Seq(C)
    BY <2>2
  <2> QED
    BY <2>1, <2>3
<1>5. x \in DownMessage
  BY <1>2, <1>4 DEF DownMessage
<1>6. frontBuff \in Seq(DownMessage) /\ downstream \in Seq(DownMessage)
  BY DEF WireTypeOK
<1>7. Appended(DownMessage, frontBuff, downstream, 0, x)
  BY <1>5, <1>6, AppendedStream DEF Framed, DownKept
<1>8. downstream' \in Seq(DownMessage)
  BY <1>3, <1>7 DEF Appended
<1>9. DownMessages' = Append(DownMessages, x) /\ DownKept'
  BY <1>1, <1>3, <1>7 DEF DownMessages, DownKept, Appended
<1>10. FramesKept' /\ UpKept' /\ \A c \in Browsers : FramesOf(c)' = FramesOf(c)
  BY <1>1, FramesUntouched, UpUntouched DEF Framed, upVars
<1>11. Framed'
  BY <1>9, <1>10 DEF Framed
<1>12. WireTypeOK'
  <2>1. told' \in Seq(Browsers \X CenterTalk) /\ toTell' \in Seq(Browsers \X CenterTalk)
    <3>1. PICK C : C = Browsers \X CenterTalk
      OBVIOUS
    <3>2. told \in Seq(C) /\ Head(toTell) \in C /\ Tail(toTell) \in Seq(C)
      BY <1>4, <3>1 DEF WireTypeOK
    <3>3. told' \in Seq(C) /\ toTell' \in Seq(C)
      BY <1>3, <3>2
    <3> QED
      BY <3>1, <3>3
  <2> QED
    BY <1>1, <1>3, <1>8, <2>1 DEF WireTypeOK, upVars
<1>13. Connected'
  BY <1>1 DEF Connected, PingOnItsWay
<1> QED
  BY <1>1, <1>2, <1>3, <1>4, <1>9, <1>10, <1>11, <1>12, <1>13

\* The messages for b among some for the browsers, and the frames they make.
ForBrowser(b) == {x \in DownMessage : x.id = b}
AsFrames(ms) == [k \in DOMAIN ms |-> [opcode |-> "BINARY", bytes |-> ms[k].bytes]]

(* A message for a browser becomes a frame.                                *)
LEMMA AsFramesType ==
  ASSUME NEW ms \in Seq(DownMessage)
  PROVE  /\ AsFrames(ms) \in Seq(PageFrame)
         /\ Len(AsFrames(ms)) = Len(ms)
         /\ \A k \in 1..Len(ms) : AsFrames(ms)[k] = [opcode |-> "BINARY", bytes |-> ms[k].bytes]
PROOF
<1>1. PICK n \in Nat : n = Len(ms) /\ DOMAIN ms = 1..n
  OBVIOUS
<1>2. ASSUME NEW k \in 1..n PROVE [opcode |-> "BINARY", bytes |-> ms[k].bytes] \in PageFrame
  <2>1. ms[k] \in DownMessage
    BY <1>1
  <2>2. PICK m \in CenterTalk : ms[k].bytes = Encode(ProtoSide, m)
    BY <2>1 DEF DownMessage
  <2> QED
    BY <2>2 DEF PageFrame
<1>3. AsFrames(ms) = [k \in 1..n |-> [opcode |-> "BINARY", bytes |-> ms[k].bytes]]
  BY <1>1 DEF AsFrames
<1>4. AsFrames(ms) \in Seq(PageFrame)
  BY <1>2, <1>3, IsASeq
<1>5. Len(AsFrames(ms)) = n
  BY <1>3, <1>4
<1> QED
  BY <1>1, <1>3, <1>4, <1>5

(* The front hands the first messages of the stream down to their browsers.*)
LEMMA SendToClientKept ==
  ASSUME WireKept, SendToClient
  PROVE  /\ WireKept'
         /\ UNCHANGED conn
         /\ \A c \in Browsers : FramesOf(c)' = FramesOf(c)
         /\ \E first \in Seq(DownMessage) :
              /\ DownMessages = first \o DownMessages'
              /\ \A b \in Browsers :
                   toBrowser'[b] = IF conn[b] \in {"ping", "pong"}
                                     THEN toBrowser[b] \o AsFrames(Picked(first, ForBrowser(b)))
                                     ELSE toBrowser[b]
PROOF
<1> USE DEF WireKept
<1>1. UNCHANGED <<page, toSay, said, heard, conn, toFront, buff, taken, upVars, toTell, told>>
  BY DEF SendToClient, pageVars
<1>2. PICK n \in 1..Len(downstream) :
        LET arrived == frontBuff \o SubSeq(downstream, 1, n)
            whole == Whole(arrived)
            For(b) == Picked(whole, {x \in ToSet(whole) : x.id = b})
        IN  /\ downstream' = SubSeq(downstream, n + 1, Len(downstream))
            /\ frontBuff' = Rest(arrived, Len(whole))
            /\ toBrowser' = [b \in Browsers |->
                 IF conn[b] \notin {"ping", "pong"} THEN toBrowser[b]
                 ELSE toBrowser[b] \o [k \in DOMAIN For(b) |->
                                         [opcode |-> "BINARY", bytes |-> For(b)[k].bytes]]]
  BY DEF SendToClient
<1>3. PICK arrived, whole : arrived = frontBuff \o SubSeq(downstream, 1, n) /\ whole = Whole(arrived)
  OBVIOUS
<1>4. frontBuff \in Seq(DownMessage) /\ downstream \in Seq(DownMessage)
  BY DEF WireTypeOK
<1>5. Stream(DownMessage, frontBuff, downstream, 0) /\ arrived = ReadOf(frontBuff, downstream, n)
  BY <1>3 DEF Framed, DownKept, ReadOf
<1>50. whole = Whole(ReadOf(frontBuff, downstream, n))
  BY <1>3 DEF ReadOf
<1>6. whole \in Seq(DownMessage) /\ Len(whole) \in Nat
  <2>1. DownMessages \in Seq(DownMessage) /\ Carries(frontBuff \o downstream, 0, DownMessages)
    BY <1>5 DEF Stream, DownMessages
  <2>2. Whole(ReadOf(frontBuff, downstream, n)) \in Seq(DownMessage)
    BY <1>4, <2>1, WholeOfRead
  <2>3. whole \in Seq(DownMessage)
    BY <1>50, <2>2
  <2> QED
    BY <2>3
<1>7. /\ frontBuff' = Rest(arrived, Len(whole))
      /\ downstream' = SubSeq(downstream, n + 1, Len(downstream))
  BY <1>2, <1>3
<1>8. /\ frontBuff' \in Seq(DownMessage)
      /\ downstream' \in Seq(DownMessage)
      /\ DownKept'
      /\ DownMessages = SubSeq(whole, 1, Len(whole)) \o DownMessages'
  <2>1. downstream' = LeftOf(downstream, n)
    BY <1>7 DEF LeftOf
  <2>2. Len(whole) <= Len(Whole(ReadOf(frontBuff, downstream, n)))
    <3>1. PICK m \in Nat : m = Len(whole)
      BY <1>6
    <3> QED
      BY <1>50, <3>1
  <2>3. Retrieved(DownMessage, frontBuff, downstream, n, Len(whole))
    BY <1>4, <1>5, <1>6, <2>2, RetrievedStream
  <2> QED
    BY <1>3, <1>5, <1>7, <2>1, <2>3 DEF Retrieved, DownKept, DownMessages
<1>9. SubSeq(whole, 1, Len(whole)) = whole
  BY <1>6, SubSeqFull
<1>10. ASSUME NEW b \in Browsers
       PROVE  /\ Picked(whole, {x \in ToSet(whole) : x.id = b}) = Picked(whole, ForBrowser(b))
              /\ Picked(whole, ForBrowser(b)) \in Seq(DownMessage)
  <2>1. \A k \in 1..Len(whole) : whole[k] \in {x \in ToSet(whole) : x.id = b} <=> whole[k] \in ForBrowser(b)
    BY <1>6 DEF ToSet, ForBrowser
  <2> QED
    BY <1>6, <2>1, PickedSame, PickedType
<1>11. toBrowser' = [b \in Browsers |->
         IF conn[b] \in {"ping", "pong"} THEN toBrowser[b] \o AsFrames(Picked(whole, ForBrowser(b)))
         ELSE toBrowser[b]]
  <2>1. toBrowser' = [b \in Browsers |->
          IF conn[b] \notin {"ping", "pong"} THEN toBrowser[b]
          ELSE toBrowser[b] \o AsFrames(Picked(whole, {x \in ToSet(whole) : x.id = b}))]
    BY <1>2, <1>3 DEF AsFrames
  <2> QED
    BY <1>10, <2>1
<1>12. \A b \in Browsers : AsFrames(Picked(whole, ForBrowser(b))) \in Seq(PageFrame)
  BY <1>10, AsFramesType
<1>13. toBrowser' \in [Browsers -> Seq(PageFrame)]
  BY <1>11, <1>12 DEF WireTypeOK
<1>14. FramesKept' /\ UpKept' /\ \A c \in Browsers : FramesOf(c)' = FramesOf(c)
  BY <1>1, FramesUntouched, UpUntouched DEF Framed, upVars
<1>15. Framed'
  BY <1>8, <1>14 DEF Framed
<1>16. WireTypeOK'
  BY <1>1, <1>8, <1>13 DEF WireTypeOK, upVars
<1>17. ASSUME NEW b \in Browsers, PingOnItsWay(b) PROVE PingOnItsWay(b)'
  <2>1. PICK k \in DOMAIN toBrowser[b] : toBrowser[b][k].opcode = "PING"
    BY <1>17 DEF PingOnItsWay
  <2>2. k \in DOMAIN toBrowser'[b] /\ toBrowser'[b][k] = toBrowser[b][k]
    <3>1. PICK t \in Seq(PageFrame), u \in Seq(PageFrame) :
            t = toBrowser[b] /\ u = AsFrames(Picked(whole, ForBrowser(b)))
      BY <1>12 DEF WireTypeOK
    <3>2. toBrowser'[b] = IF conn[b] \in {"ping", "pong"} THEN t \o u ELSE t
      BY <1>11, <3>1
    <3>3. k \in DOMAIN (t \o u) /\ (t \o u)[k] = t[k]
      BY <2>1, <3>1
    <3> QED
      BY <2>1, <3>1, <3>2, <3>3
  <2> QED
    BY <2>1, <2>2 DEF PingOnItsWay
<1>18. Connected'
  BY <1>1, <1>11, <1>17 DEF Connected
<1> QED
  BY <1>1, <1>6, <1>8, <1>9, <1>11, <1>14, <1>15, <1>16, <1>18

(* Whoever is there has something on its way when it is to be heard of. *)
LEMMA WireStepKept == ASSUME WireKept, [WireNext]_wireVars PROVE WireKept'
PROOF
<1>1. CASE WireNext
  <2>1. ASSUME NEW b \in Browsers,
               \/ OpenSocket(b) \/ Say(b) \/ Hear(b) \/ GoSilent(b)
               \/ OnMessage(b) \/ SendPingTimer(b) \/ Deadline(b)
        PROVE  WireKept'
    BY <2>1, OpenSocketKept, SayKept, HearKept, GoSilentKept, OnMessageKept, SendPingTimerKept,
       DeadlineKept
  <2>2. CASE SendToClient
    BY <2>2, SendToClientKept
  <2>3. CASE CodecOnMessage
    BY <2>3, CodecOnMessageKept
  <2>4. CASE Tell
    BY <2>4, TellKept
  <2> QED
    BY <1>1, <2>1, <2>2, <2>3, <2>4 DEF WireNext
<1>2. CASE UNCHANGED wireVars
  <2>1. UNCHANGED <<page, toSay, said, heard, conn, toFront, buff, taken, toBrowser, upstream,
                    codecBuff, handled, toTell, told, downstream, frontBuff>>
    BY <1>2 DEF wireVars, pageVars, sockVars, upVars, downVars
  <2>2. FramesKept' /\ UpKept' /\ DownKept'
    BY <2>1, FramesUntouched, UpUntouched, DownUntouched DEF WireKept, Framed
  <2>3. Framed'
    BY <2>2 DEF Framed
  <2>4. WireTypeOK' /\ Connected'
    BY <2>1 DEF WireKept, WireTypeOK, Connected, PingOnItsWay
  <2> QED
    BY <2>3, <2>4 DEF WireKept
<1> QED
  BY <1>1, <1>2

(* What the streams carry is whole frames and whole messages, and whoever  *)
(* answers its pings has something on its way whenever its connection      *)
(* waits for it; so no connection is closed on a browser that answers      *)
(* (onMessage, sendPingTimer, responsePingTimer).                          *)
THEOREM AnsweringIsKeptAlways == WireSpec => []AnsweringIsKept
PROOF
<1>1. WireInit => WireKept
  BY WireInitKept DEF WireKept
<1>2. WireKept /\ [WireNext]_wireVars => WireKept'
  BY WireStepKept
<1>3. WireKept => AnsweringIsKept
  BY DEF WireKept, Connected, AnsweringIsKept
<1> QED
  BY <1>1, <1>2, <1>3, PTL DEF WireSpec

(* What is picked is in the set. *)
LEMMA PickedIn ==
  ASSUME NEW A, NEW S
  PROVE  \A s \in Seq(A) : Picked(s, S) \in Seq(A \cap S)
PROOF
<1> DEFINE T == {s \in Seq(A) : Picked(s, S) \in Seq(A \cap S)}
<1>1. <<>> \in T
  <2>1. <<>> \in Seq(A) /\ Picked(<<>>, S) = <<>> /\ <<>> \in Seq(A \cap S)
    BY PickedEmpty
  <2> QED
    BY <2>1
<1>2. ASSUME NEW s \in Seq(A), NEW e \in A, s \in T
      PROVE  Append(s, e) \in T
  <2>1. PICK p \in Seq(A \cap S) : p = Picked(s, S)
    BY <1>2
  <2>2. Picked(Append(s, e), S) = IF e \in S THEN Append(p, e) ELSE p
    BY <2>1, PickedAppend
  <2>3. e \in S => Append(p, e) \in Seq(A \cap S)
    OBVIOUS
  <2>4. Append(s, e) \in Seq(A)
    OBVIOUS
  <2> QED
    BY <2>2, <2>3, <2>4
<1> HIDE DEF T
<1>3. \A s \in Seq(A) : s \in T
  BY <1>1, <1>2, SequenceInduction
<1> QED
  BY <1>3 DEF T

(* A function on each element of a sequence. *)
Through(f, s) == [k \in 1..Len(s) |-> f[s[k]]]

ThroughElements(f, s, B) ==
  /\ Through(f, s) \in Seq(B)
  /\ Len(Through(f, s)) = Len(s)
  /\ \A k \in 1..Len(s) : Through(f, s)[k] = f[s[k]]

(* Through, of a typed function, is a typed sequence,                      *)
LEMMA ThroughType ==
  ASSUME NEW A, NEW B, NEW f, \A x \in A : f[x] \in B, NEW s \in Seq(A)
  PROVE  ThroughElements(f, s, B)
PROOF
<1>1. PICK n \in Nat : n = Len(s)
  OBVIOUS
<1>2. \A k \in 1..n : f[s[k]] \in B
  BY <1>1
<1>3. PICK t : t = [k \in 1..n |-> f[s[k]]]
  OBVIOUS
<1>4. t \in Seq(B)
  BY <1>2, <1>3, IsASeq
<1>5. Len(t) = n /\ \A k \in 1..n : t[k] = f[s[k]]
  BY <1>3, <1>4
<1>6. Through(f, s) = t
  BY <1>1, <1>3 DEF Through
<1> QED
  BY <1>1, <1>4, <1>5, <1>6 DEF ThroughElements

(* of nothing it is nothing,                                               *)
LEMMA ThroughNothing ==
  ASSUME NEW f PROVE Through(f, <<>>) = <<>>
PROOF
<1>1. Len(<<>>) = 0
  OBVIOUS
<1>2. Through(f, <<>>) = [k \in 1..0 |-> f[<<>>[k]]]
  BY <1>1 DEF Through
<1>3. Through(f, <<>>) = [k \in 1..0 |-> {}]
  BY <1>2
<1>4. [k \in 1..0 |-> {}] \in Seq({{}}) /\ Len([k \in 1..0 |-> {}]) = 0
  <2>1. [k \in 1..0 |-> {}] \in Seq({{}})
    BY IsASeq
  <2> QED
    BY <2>1
<1> QED
  BY <1>3, <1>4, EmptySeq

(* of two sequences it is one behind the other,                            *)
LEMMA ThroughConcat ==
  ASSUME NEW A, NEW f
  PROVE  \A s, t \in Seq(A) : Through(f, s \o t) = Through(f, s) \o Through(f, t)
PROOF
<1> SUFFICES ASSUME NEW s \in Seq(A), NEW t \in Seq(A)
             PROVE  Through(f, s \o t) = Through(f, s) \o Through(f, t)
  OBVIOUS
<1>20. PICK B : B = {f[y] : y \in A}
  OBVIOUS
<1>21. \A y \in A : f[y] \in B
  BY <1>20
<1>0. s \o t \in Seq(A)
  BY Joined
<1>1. PICK c \in Seq(A) : c = s \o t
  BY <1>0
<1>2. PICK i \in Nat, j \in Nat : i = Len(s) /\ j = Len(t)
  OBVIOUS
<1>3. Len(c) = i + j /\ (\A k \in 1..i : c[k] = s[k]) /\ (\A k \in 1..j : c[i + k] = t[k])
  BY <1>1, <1>2, Joined
<1>4. PICK u, v, w : u = Through(f, s) /\ v = Through(f, t) /\ w = Through(f, c)
  OBVIOUS
<1>5. /\ u \in Seq(B) /\ Len(u) = i /\ \A k \in 1..i : u[k] = f[s[k]]
      /\ v \in Seq(B) /\ Len(v) = j /\ \A k \in 1..j : v[k] = f[t[k]]
  <2>1. ThroughElements(f, s, B) /\ ThroughElements(f, t, B)
    BY <1>21, ThroughType
  <2> QED
    BY <1>2, <1>4, <2>1 DEF ThroughElements
<1>6. w \in Seq(B) /\ Len(w) = i + j /\ \A k \in 1..(i + j) : w[k] = f[c[k]]
  <2>1. w \in Seq(B) /\ Len(w) = Len(c) /\ \A k \in 1..Len(c) : w[k] = f[c[k]]
    <3>1. ThroughElements(f, c, B)
      BY <1>21, ThroughType
    <3> QED
      BY <1>4, <3>1 DEF ThroughElements
  <2> QED
    BY <1>3, <2>1
<1>7. PICK d : d = u \o v
  OBVIOUS
<1>8. /\ d \in Seq(B)
      /\ Len(d) = i + j /\ (\A k \in 1..i : d[k] = u[k]) /\ (\A k \in 1..j : d[i + k] = v[k])
  <2>1. u \in Seq(B) /\ v \in Seq(B)
    BY <1>5
  <2>2. /\ u \o v \in Seq(B)
        /\ Len(u \o v) = Len(u) + Len(v)
        /\ \A k \in 1..Len(u) : (u \o v)[k] = u[k]
        /\ \A k \in 1..Len(v) : (u \o v)[Len(u) + k] = v[k]
    BY <2>1, Joined
  <2>3. Len(u) = i /\ Len(v) = j
    BY <1>5
  <2> QED
    BY <1>7, <2>2, <2>3
<1>9. \A k \in 1..(i + j) : w[k] = d[k]
  <2> SUFFICES ASSUME NEW k \in 1..(i + j) PROVE w[k] = d[k]
    OBVIOUS
  <2>0. w[k] = f[c[k]]
    BY <1>6
  <2>1. CASE k <= i
    <3>1. k \in 1..i
      BY <2>1
    <3>2. c[k] = s[k] /\ d[k] = u[k] /\ u[k] = f[s[k]]
      BY <1>3, <1>5, <1>8, <3>1
    <3> QED
      BY <2>0, <3>2
  <2>2. CASE k > i
    <3>1. k - i \in 1..j /\ i + (k - i) = k
      BY <2>2
    <3>2. PICK l \in 1..j : k = i + l
      BY <3>1
    <3>3. c[k] = t[l] /\ d[k] = v[l] /\ v[l] = f[t[l]]
      BY <1>3, <1>5, <1>8, <3>2
    <3> QED
      BY <2>0, <3>3
  <2> QED
    BY <2>1, <2>2
<1>10. w = d
  BY <1>6, <1>8, <1>9, SeqEqual
<1> QED
  BY <1>1, <1>4, <1>7, <1>10

(* of one element it is one element,                                       *)
LEMMA ThroughOne ==
  ASSUME NEW A, NEW f, NEW x \in A
  PROVE  Through(f, <<x>>) = <<f[x]>>
PROOF
<1>20. PICK B : B = {f[y] : y \in A}
  OBVIOUS
<1>21. \A y \in A : f[y] \in B
  BY <1>20
<1>1. <<x>> \in Seq(A) /\ <<f[x]>> \in Seq(B) /\ Len(<<x>>) = 1 /\ Len(<<f[x]>>) = 1
  BY <1>21
<1>2. PICK u : u = Through(f, <<x>>)
  OBVIOUS
<1>3. u \in Seq(B) /\ Len(u) = 1 /\ u[1] = f[x]
  <2>1. ThroughElements(f, <<x>>, B)
    BY <1>1, <1>21, ThroughType
  <2> QED
    BY <1>1, <1>2, <2>1 DEF ThroughElements
<1>4. u = <<f[x]>>
  BY <1>1, <1>3, SeqEqual
<1> QED
  BY <1>2, <1>4

(* and of an element more it is an element more.                           *)
LEMMA ThroughAppend ==
  ASSUME NEW A, NEW f, NEW s \in Seq(A), NEW x \in A
  PROVE  Through(f, Append(s, x)) = Append(Through(f, s), f[x])
PROOF
<1>20. PICK B : B = {f[y] : y \in A}
  OBVIOUS
<1>21. \A y \in A : f[y] \in B
  BY <1>20
<1>1. Append(s, x) = s \o <<x>> /\ <<x>> \in Seq(A)
  OBVIOUS
<1>2. Through(f, s \o <<x>>) = Through(f, s) \o <<f[x]>>
  <2>0. PICK t : t = <<x>>
    OBVIOUS
  <2>1. Through(f, s \o <<x>>) = Through(f, s) \o Through(f, <<x>>)
    <3>1. t \in Seq(A)
      BY <1>1, <2>0
    <3>2. Through(f, s \o t) = Through(f, s) \o Through(f, t)
      BY <3>1, ThroughConcat
    <3> QED
      BY <2>0, <3>2
  <2>2. Through(f, <<x>>) = <<f[x]>>
    BY ThroughOne
  <2> QED
    BY <2>1, <2>2
<1>3. PICK u \in Seq(B) : u = Through(f, s)
  <2>1. ThroughElements(f, s, B)
    BY <1>21, ThroughType
  <2> QED
    BY <2>1 DEF ThroughElements
<1>4. Append(u, f[x]) = u \o <<f[x]>>
  BY <1>3
<1> QED
  BY <1>1, <1>2, <1>3, <1>4

(* Appending goes past what stands before.                                 *)
LEMMA ConcatAppend ==
  ASSUME NEW A
  PROVE  \A p, r \in Seq(A) : \A h \in A : Append(p \o r, h) = p \o Append(r, h)
PROOF
  OBVIOUS

-----------------------------------------------------------------------------
(* The way up: what is handled, or has been handed on, of what a page says.*)
FromPage(b) == {h \in Handling : h[1] = b /\ h[2].type # "Disconnected"}
Talking == {f \in FrontFrame : f.opcode = "BINARY"}

AsSaid(b) == [m \in PageTalk |-> <<b, Decode(ProtoSide, Encode(PageSide, m))>>]
AsSpoken(b) == [f \in Talking |-> <<b, Decode(ProtoSide, f.bytes)>>]
AsHandled == [x \in UpMessage |-> <<x.id, Decode(ProtoSide, x.bytes)>>]

AllHandled == handled \o Through(AsHandled, UpMessages)
Spoken(b) == Picked(FramesOf(b), Talking)

Followed(b, r) ==
  /\ r \in Seq(Handling)
  /\ Through(AsSaid(b), said[b]) = Picked(AllHandled, FromPage(b)) \o r
UpRead(b) ==
  \E r : Followed(b, r) /\ (conn[b] # "closed" => r = Through(AsSpoken(b), Spoken(b)))

(* What a message said, spoken or under way will be handled as.            *)
LEMMA UpFunctions ==
  ASSUME NEW b \in Browsers
  PROVE  /\ AsSaid(b) \in [PageTalk -> Handling]
         /\ AsSpoken(b) \in [Talking -> Handling]
         /\ AsHandled \in [UpMessage -> Handling]
PROOF
<1>1. \A m \in PageTalk : <<b, Decode(ProtoSide, Encode(PageSide, m))>> \in Handling
  BY DEF Handling
<1>2. AsSaid(b) \in [PageTalk -> Handling]
  BY <1>1 DEF AsSaid
<1>3. ASSUME NEW f \in Talking PROVE <<b, Decode(ProtoSide, f.bytes)>> \in Handling
  <2>1. f \in FrontFrame /\ f.opcode = "BINARY"
    BY DEF Talking
  <2>2. PICK m \in PageTalk : f = [opcode |-> "BINARY", bytes |-> Encode(PageSide, m)]
    BY <2>1 DEF FrontFrame
  <2>3. f.bytes = Encode(PageSide, m)
    BY <2>2
  <2> QED
    BY <1>1, <2>3
<1>4. AsSpoken(b) \in [Talking -> Handling]
  BY <1>3 DEF AsSpoken
<1>5. ASSUME NEW x \in UpMessage PROVE <<x.id, Decode(ProtoSide, x.bytes)>> \in Handling
  <2>1. PICK c, y : /\ c = x.id /\ c \in Browsers
                    /\ y = x.bytes /\ y \in {Encode(PageSide, m) : m \in PageTalk} \cup {Farewell}
    BY DEF UpMessage
  <2>2. Decode(ProtoSide, y) \in {Decode(ProtoSide, Encode(PageSide, m)) : m \in PageTalk} \cup {Decode(ProtoSide, Farewell)}
    BY <2>1
  <2> QED
    BY <2>1, <2>2 DEF Handling
<1>6. AsHandled \in [UpMessage -> Handling]
  BY <1>5 DEF AsHandled
<1> QED
  BY <1>2, <1>4, <1>6

(* The types of what is handled and what will be.                          *)
LEMMA AllHandledType ==
  ASSUME WireKept
  PROVE  /\ UpMessages \in Seq(UpMessage)
         /\ handled \in Seq(Handling)
         /\ Through(AsHandled, UpMessages) \in Seq(Handling)
         /\ AllHandled \in Seq(Handling)
PROOF
<1>1. UpMessages \in Seq(UpMessage) /\ handled \in Seq(Handling)
  BY DEF WireKept, WireTypeOK, Framed, UpKept, Stream, UpMessages
<1>2. AsHandled \in [UpMessage -> Handling]
  <2>1. CASE Browsers = {}
    <3>1. UpMessage = {}
      BY <2>1 DEF UpMessage
    <3> QED
      BY <3>1 DEF AsHandled
  <2>2. CASE Browsers # {}
    BY <2>2, UpFunctions
  <2> QED
    BY <2>1, <2>2
<1>3. ThroughElements(AsHandled, UpMessages, Handling)
  BY <1>1, <1>2, ThroughType
<1>4. PICK t \in Seq(Handling) : t = Through(AsHandled, UpMessages)
  BY <1>3 DEF ThroughElements
<1>5. handled \o t \in Seq(Handling)
  BY <1>1
<1> QED
  BY <1>1, <1>4, <1>5 DEF AllHandled

(* The types of what a browser has spoken.                                 *)
LEMMA SpokenType ==
  ASSUME WireKept, NEW b \in Browsers, conn[b] # "closed"
  PROVE  /\ FramesOf(b) \in Seq(FrontFrame)
         /\ Spoken(b) \in Seq(Talking)
         /\ Through(AsSpoken(b), Spoken(b)) \in Seq(Handling)
PROOF
<1>1. FramesOf(b) \in Seq(FrontFrame)
  BY DEF WireKept, Framed, FramesKept, Stream, FramesOf
<1>2. Spoken(b) \in Seq(FrontFrame \cap Talking)
  BY <1>1, PickedIn DEF Spoken
<1>3. FrontFrame \cap Talking = Talking
  BY DEF Talking
<1>4. ThroughElements(AsSpoken(b), Spoken(b), Handling)
  BY <1>2, <1>3, UpFunctions, ThroughType
<1> QED
  BY <1>1, <1>2, <1>3, <1>4 DEF ThroughElements

(* Nothing happens to what one browser says. *)
LEMMA UpReadSame ==
  ASSUME NEW b \in Browsers, UpRead(b), said'[b] = said[b],
         Picked(AllHandled, FromPage(b))' = Picked(AllHandled, FromPage(b)),
         conn'[b] # "closed" => conn[b] # "closed" /\ Spoken(b)' = Spoken(b)
  PROVE  UpRead(b)'
PROOF
<1>1. PICK r : Followed(b, r) /\ (conn[b] # "closed" => r = Through(AsSpoken(b), Spoken(b)))
  BY DEF UpRead
<1>2. /\ r \in Seq(Handling)
      /\ Through(AsSaid(b), said[b]) = Picked(AllHandled, FromPage(b)) \o r
  BY <1>1 DEF Followed
<1>3. Through(AsSaid(b), said'[b]) = Picked(AllHandled, FromPage(b))' \o r
  BY <1>2
<1>4. conn'[b] # "closed" => r = Through(AsSpoken(b), Spoken(b)')
  BY <1>1
<1> QED
  BY <1>2, <1>3, <1>4 DEF UpRead, Followed

(* A frame more that says nothing. *)
LEMMA SpokenSame ==
  ASSUME WireKept, NEW b \in Browsers, conn[b] # "closed", NEW x \in FrontFrame \ Talking,
         FramesOf(b)' = Append(FramesOf(b), x)
  PROVE  Spoken(b)' = Spoken(b)
PROOF
<1>1. FramesOf(b) \in Seq(FrontFrame)
  BY SpokenType
<1>2. Picked(Append(FramesOf(b), x), Talking) = Picked(FramesOf(b), Talking)
  BY <1>1, PickedAppend
<1>3. Spoken(b)' = Picked(FramesOf(b)', Talking)
  BY DEF Spoken
<1> QED
  BY <1>2, <1>3 DEF Spoken

(* Where nothing is handed on or handled, nothing more will be.            *)
LEMMA AllHandledSame ==
  ASSUME UpMessages' = UpMessages, UNCHANGED handled
  PROVE  AllHandled' = AllHandled
PROOF
<1>1. AllHandled' = handled' \o Through(AsHandled, UpMessages')
  BY DEF AllHandled
<1> QED
  BY <1>1 DEF AllHandled

(* A message more on its way to the center. *)
LEMMA AllHandledMore ==
  ASSUME WireKept, NEW x \in UpMessage, UpMessages' = Append(UpMessages, x), UNCHANGED handled, NEW c
  PROVE  /\ AsHandled[x] = <<x.id, Decode(ProtoSide, x.bytes)>>
         /\ Picked(AllHandled, FromPage(c))' =
              IF AsHandled[x] \in FromPage(c) THEN Append(Picked(AllHandled, FromPage(c)), AsHandled[x])
                                              ELSE Picked(AllHandled, FromPage(c))
PROOF
<1>1. /\ UpMessages \in Seq(UpMessage)
      /\ handled \in Seq(Handling)
      /\ Through(AsHandled, UpMessages) \in Seq(Handling)
      /\ AllHandled \in Seq(Handling)
  BY AllHandledType
<1>2. AsHandled[x] = <<x.id, Decode(ProtoSide, x.bytes)>>
  BY DEF AsHandled
<1>3. AsHandled[x] \in Handling
  <2>1. x.id \in Browsers
    BY DEF UpMessage
  <2> QED
    BY <2>1, UpFunctions
<1>4. PICK h : h = AsHandled[x]
  OBVIOUS
<1>5. Through(AsHandled, UpMessages') = Append(Through(AsHandled, UpMessages), h)
  <2>1. Through(AsHandled, Append(UpMessages, x)) = Append(Through(AsHandled, UpMessages), AsHandled[x])
    BY <1>1, ThroughAppend
  <2> QED
    BY <1>4, <2>1
<1>6. AllHandled' = Append(AllHandled, h)
  <2>1. AllHandled' = handled' \o Through(AsHandled, UpMessages')
    BY DEF AllHandled
  <2>2. PICK t \in Seq(Handling) : t = Through(AsHandled, UpMessages)
    BY <1>1
  <2>3. AllHandled' = handled \o Append(t, h) /\ AllHandled = handled \o t
    BY <1>5, <2>1, <2>2 DEF AllHandled
  <2>4. handled \o Append(t, h) = Append(handled \o t, h)
    BY <1>1, <1>3, <1>4, <2>2
  <2> QED
    BY <2>3, <2>4
<1>7. Picked(AllHandled, FromPage(c))' = Picked(AllHandled', FromPage(c))
  OBVIOUS
<1>8. Picked(Append(AllHandled, h), FromPage(c)) =
        IF h \in FromPage(c) THEN Append(Picked(AllHandled, FromPage(c)), h)
                             ELSE Picked(AllHandled, FromPage(c))
  <2>1. h \in Handling
    BY <1>3, <1>4
  <2>2. AllHandled \in Seq(Handling)
    BY <1>1
  <2> QED
    BY <2>1, <2>2, PickedAppend
<1> QED
  BY <1>2, <1>4, <1>6, <1>7, <1>8

UpReadAll == \A c \in Browsers : UpRead(c)

(* A step in which nobody says anything and nothing is handed on. *)
LEMMA UpReadQuiet ==
  ASSUME UpReadAll, UNCHANGED <<said, handled>>, UpMessages' = UpMessages,
         \A c \in Browsers : conn'[c] # "closed" => conn[c] # "closed" /\ Spoken(c)' = Spoken(c)
  PROVE  UpReadAll'
PROOF
<1>1. AllHandled' = AllHandled
  BY AllHandledSame
<1>2. ASSUME NEW c \in Browsers PROVE UpRead(c)'
  <2>1. UpRead(c) /\ said'[c] = said[c]
    BY DEF UpReadAll
  <2>2. Picked(AllHandled, FromPage(c))' = Picked(AllHandled, FromPage(c))
    BY <1>1
  <2> QED
    BY <2>1, <2>2, UpReadSame
<1> QED
  BY <1>2 DEF UpReadAll

(* The way up, action by action: a request for the handshake says nothing. *)
LEMMA OpenSocketUp ==
  ASSUME WireKept, UpReadAll, NEW b \in Browsers, OpenSocket(b) PROVE UpReadAll'
PROOF
<1>1. UNCHANGED <<said, handled, codecBuff, upstream>> /\ conn' = [conn EXCEPT ![b] = "wait"]
  BY DEF OpenSocket, upVars
<1>2. conn[b] = "none"
  BY DEF OpenSocket, WireKept, Connected
<1>3. UpMessages' = UpMessages
  BY <1>1, UpUntouched DEF WireKept, Framed
<1>4. /\ FramesOf(b)' = Append(FramesOf(b), [opcode |-> "HTTP"])
      /\ \A c \in Browsers \ {b} : FramesOf(c)' = FramesOf(c)
  BY OpenSocketKept
<1>5. ASSUME NEW c \in Browsers, conn'[c] # "closed"
      PROVE  conn[c] # "closed" /\ Spoken(c)' = Spoken(c)
  <2>1. CASE c = b
    <3>1. [opcode |-> "HTTP"] \in FrontFrame \ Talking
      BY DEF FrontFrame, Talking
    <3> QED
      BY <1>2, <1>4, <2>1, <3>1, SpokenSame
  <2>2. CASE c # b
    BY <1>1, <1>4, <1>5, <2>2 DEF WireKept, WireTypeOK, Spoken
  <2> QED
    BY <2>1, <2>2
<1> QED
  BY <1>1, <1>3, <1>5, UpReadQuiet

(* Silence says nothing.                                                   *)
LEMMA GoSilentUp ==
  ASSUME WireKept, UpReadAll, NEW b \in Browsers, GoSilent(b) PROVE UpReadAll'
PROOF
<1>1. UNCHANGED <<said, handled, codecBuff, upstream, conn>>
  BY DEF GoSilent, upVars, sockVars
<1>2. UpMessages' = UpMessages
  BY <1>1, UpUntouched DEF WireKept, Framed
<1>3. \A c \in Browsers : Spoken(c)' = Spoken(c)
  BY GoSilentKept DEF Spoken
<1> QED
  BY <1>1, <1>2, <1>3, UpReadQuiet

(* Nor does a ping,                                                        *)
LEMMA SendPingTimerUp ==
  ASSUME WireKept, UpReadAll, NEW b \in Browsers, SendPingTimer(b) PROVE UpReadAll'
PROOF
<1>1. /\ UNCHANGED <<said, handled, codecBuff, upstream>>
      /\ conn[b] = "ping"
      /\ conn' = [conn EXCEPT ![b] = "pong"]
  BY DEF SendPingTimer, upVars, pageVars
<1>2. UpMessages' = UpMessages
  BY <1>1, UpUntouched DEF WireKept, Framed
<1>3. \A c \in Browsers : Spoken(c)' = Spoken(c)
  BY SendPingTimerKept DEF Spoken
<1>4. \A c \in Browsers : conn'[c] # "closed" => conn[c] # "closed"
  BY <1>1 DEF WireKept, WireTypeOK
<1> QED
  BY <1>1, <1>2, <1>3, <1>4, UpReadQuiet

(* or the pong that answers it.                                            *)
LEMMA HearUp ==
  ASSUME WireKept, UpReadAll, NEW b \in Browsers, Hear(b) PROVE UpReadAll'
PROOF
<1>1. UNCHANGED <<said, handled, codecBuff, upstream, conn>>
  BY DEF Hear, upVars
<1>2. UpMessages' = UpMessages
  BY <1>1, UpUntouched DEF WireKept, Framed
<1>3. /\ conn[b] # "closed"
      /\ \/ FramesOf(b)' = Append(FramesOf(b), [opcode |-> "PONG"])
         \/ FramesOf(b)' = FramesOf(b)
      /\ \A c \in Browsers \ {b} : FramesOf(c)' = FramesOf(c)
  BY HearKept
<1>4. Spoken(b)' = Spoken(b)
  <2>1. [opcode |-> "PONG"] \in FrontFrame \ Talking
    BY DEF FrontFrame, Talking
  <2>2. CASE FramesOf(b)' = Append(FramesOf(b), [opcode |-> "PONG"])
    BY <1>3, <2>1, <2>2, SpokenSame
  <2>3. CASE FramesOf(b)' = FramesOf(b)
    BY <2>3 DEF Spoken
  <2> QED
    BY <1>3, <2>2, <2>3
<1>5. \A c \in Browsers : Spoken(c)' = Spoken(c)
  BY <1>3, <1>4 DEF Spoken
<1> QED
  BY <1>1, <1>2, <1>5, UpReadQuiet

(* What the center says does not go up,                                    *)
LEMMA TellUp == ASSUME WireKept, UpReadAll, Tell PROVE UpReadAll'
PROOF
<1>1. UNCHANGED <<said, handled, codecBuff, upstream, conn>>
  BY DEF Tell, upVars, pageVars, sockVars
<1>2. UpMessages' = UpMessages
  BY <1>1, UpUntouched DEF WireKept, Framed
<1>3. \A c \in Browsers : Spoken(c)' = Spoken(c)
  BY TellKept DEF Spoken
<1> QED
  BY <1>1, <1>2, <1>3, UpReadQuiet

(* and what the front hands to the browsers does not either.               *)
LEMMA SendToClientUp == ASSUME WireKept, UpReadAll, SendToClient PROVE UpReadAll'
PROOF
<1>1. UNCHANGED <<said, handled, codecBuff, upstream, conn>>
  BY DEF SendToClient, upVars, pageVars
<1>2. UpMessages' = UpMessages
  BY <1>1, UpUntouched DEF WireKept, Framed
<1>3. \A c \in Browsers : Spoken(c)' = Spoken(c)
  BY SendToClientKept DEF Spoken
<1> QED
  BY <1>1, <1>2, <1>3, UpReadQuiet

(* A farewell is nothing a page has said.                                  *)
LEMMA DeadlineUp ==
  ASSUME WireKept, UpReadAll, NEW b \in Browsers, Deadline(b) PROVE UpReadAll'
PROOF
<1>1. UNCHANGED <<said, handled>>
  BY DEF Deadline, pageVars
<1>2. /\ conn' = [conn EXCEPT ![b] = "closed"]
      /\ \A c \in Browsers \ {b} : FramesOf(c)' = FramesOf(c)
      /\ UpMessages' \in {UpMessages, Append(UpMessages, [id |-> b, bytes |-> Farewell])}
  BY DeadlineKept
<1>3. \A c \in Browsers : conn'[c] # "closed" => conn[c] # "closed" /\ Spoken(c)' = Spoken(c)
  BY <1>2 DEF WireKept, WireTypeOK, Spoken
<1>4. CASE UpMessages' = UpMessages
  BY <1>1, <1>3, <1>4, UpReadQuiet
<1>5. CASE UpMessages' # UpMessages
  <2>1. PICK x \in UpMessage : x = [id |-> b, bytes |-> Farewell]
    BY DEF UpMessage
  <2>2. UpMessages' = Append(UpMessages, x)
    BY <1>2, <1>5, <2>1
  <2>3. ASSUME NEW c \in Browsers PROVE UpRead(c)'
    <3>1. AsHandled[x] = <<b, Decode(ProtoSide, Farewell)>>
      BY <1>1, <2>1, <2>2, AllHandledMore
    <3>2. Decode(ProtoSide, Farewell).type = "Disconnected"
      BY DEF Decode, Farewell, Encode
    <3>3. AsHandled[x] \notin FromPage(c)
      BY <3>1, <3>2 DEF FromPage
    <3>4. Picked(AllHandled, FromPage(c))' = Picked(AllHandled, FromPage(c))
      BY <1>1, <2>1, <2>2, <3>3, AllHandledMore
    <3>5. UpRead(c) /\ said'[c] = said[c]
      BY <1>1 DEF UpReadAll
    <3> QED
      BY <1>3, <3>4, <3>5, UpReadSame
  <2> QED
    BY <2>3 DEF UpReadAll
<1> QED
  BY <1>4, <1>5

(* What a page says is behind all it has said before.                      *)
LEMMA SayUp ==
  ASSUME WireKept, UpReadAll, NEW b \in Browsers, Say(b) PROVE UpReadAll'
PROOF
<1>1. PICK m \in PageTalk : m = Head(toSay[b])
  BY SayKept
<1>2. PICK x : x = [opcode |-> "BINARY", bytes |-> Encode(PageSide, m)]
  OBVIOUS
<1>3. /\ UNCHANGED <<handled, codecBuff, upstream, conn>>
      /\ said' = [said EXCEPT ![b] = Append(@, m)]
  BY <1>1 DEF Say, upVars
<1>4. /\ conn[b] # "closed"
      /\ FramesOf(b)' = Append(FramesOf(b), x)
      /\ \A c \in Browsers \ {b} : FramesOf(c)' = FramesOf(c)
  BY <1>1, <1>2, SayKept
<1>5. UpMessages' = UpMessages
  BY <1>3, UpUntouched DEF WireKept, Framed
<1>6. AllHandled' = AllHandled
  BY <1>3, <1>5, AllHandledSame
<1>7. x \in Talking /\ x \in FrontFrame
  BY <1>2 DEF Talking, FrontFrame
<1>8. Spoken(b)' = Append(Spoken(b), x)
  <2>1. FramesOf(b) \in Seq(FrontFrame)
    BY <1>4, SpokenType
  <2>2. Picked(Append(FramesOf(b), x), Talking) = Append(Picked(FramesOf(b), Talking), x)
    BY <1>7, <2>1, PickedAppend
  <2>3. Spoken(b)' = Picked(FramesOf(b)', Talking)
    BY DEF Spoken
  <2> QED
    BY <1>4, <2>2, <2>3 DEF Spoken
<1>9. PICK h : h = <<b, Decode(ProtoSide, Encode(PageSide, m))>>
  OBVIOUS
<1>10. h \in Handling
  BY <1>9 DEF Handling
<1>11. AsSpoken(b)[x] = h /\ AsSaid(b)[m] = h
  <2>1. AsSaid(b)[m] = h
    BY <1>9 DEF AsSaid
  <2>2. AsSpoken(b)[x] = <<b, Decode(ProtoSide, x.bytes)>>
    BY <1>7 DEF AsSpoken
  <2>3. x.bytes = Encode(PageSide, m)
    BY <1>2
  <2> QED
    BY <1>9, <2>1, <2>2, <2>3
<1>12. PICK r, p, t : /\ Followed(b, r)
                      /\ r = Through(AsSpoken(b), Spoken(b))
                      /\ p = Picked(AllHandled, FromPage(b))
                      /\ t = Through(AsSaid(b), said[b])
  BY <1>4 DEF UpReadAll, UpRead
<1>13. r \in Seq(Handling) /\ p \in Seq(Handling) /\ t = p \o r
  <2>1. AllHandled \in Seq(Handling)
    BY AllHandledType
  <2>2. p \in Seq(Handling)
    BY <1>12, <2>1, PickedType
  <2> QED
    BY <1>12, <2>2 DEF Followed
<1>14. Append(t, h) = p \o Append(r, h) /\ Append(r, h) \in Seq(Handling)
  <2>1. p \in Seq(Handling) /\ r \in Seq(Handling)
    BY <1>13
  <2>2. Append(p \o r, h) = p \o Append(r, h)
    BY <1>10, <2>1
  <2>3. Append(r, h) \in Seq(Handling)
    BY <1>10, <2>1
  <2> QED
    BY <1>13, <2>2, <2>3
<1>15. Through(AsSaid(b), said'[b]) = Append(t, h)
  <2>1. said[b] \in Seq(PageTalk) /\ said'[b] = Append(said[b], m)
    BY <1>3 DEF WireKept, WireTypeOK
  <2>2. Through(AsSaid(b), Append(said[b], m)) = Append(Through(AsSaid(b), said[b]), AsSaid(b)[m])
    BY <2>1, ThroughAppend
  <2> QED
    BY <1>11, <1>12, <2>1, <2>2
<1>16. Through(AsSpoken(b), Spoken(b)') = Append(r, h)
  <2>1. Spoken(b) \in Seq(Talking)
    BY <1>4, SpokenType
  <2>2. Through(AsSpoken(b), Append(Spoken(b), x)) = Append(Through(AsSpoken(b), Spoken(b)), AsSpoken(b)[x])
    BY <1>7, <2>1, ThroughAppend
  <2> QED
    BY <1>8, <1>11, <1>12, <2>2
<1>17. UpRead(b)'
  <2>1. /\ Append(r, h) \in Seq(Handling)
        /\ Through(AsSaid(b), said'[b]) = Picked(AllHandled', FromPage(b)) \o Append(r, h)
    BY <1>6, <1>12, <1>14, <1>15
  <2>2. Append(r, h) = Through(AsSpoken(b), Spoken(b)')
    BY <1>16
  <2> QED
    BY <2>1, <2>2 DEF UpRead, Followed
<1>18. ASSUME NEW c \in Browsers \ {b} PROVE UpRead(c)'
  <2>1. UpRead(c) /\ said'[c] = said[c]
    BY <1>3 DEF UpReadAll, WireKept, WireTypeOK
  <2>2. Picked(AllHandled, FromPage(c))' = Picked(AllHandled, FromPage(c))
    BY <1>6
  <2>3. conn'[c] = conn[c] /\ Spoken(c)' = Spoken(c)
    BY <1>3, <1>4 DEF Spoken
  <2> QED
    BY <2>1, <2>2, <2>3, UpReadSame
<1> QED
  BY <1>17, <1>18 DEF UpReadAll

(* No class of the page is called what the front says when one leaves. *)
LEMMA NoFarewell ==
  ASSUME NEW m \in PageTalk
  PROVE  Decode(ProtoSide, Encode(PageSide, m)).type = m.type /\ m.type # "Disconnected"
PROOF
<1>1. Decode(ProtoSide, Encode(PageSide, m)).type = m.type
  BY DEF Decode, Encode
<1>2. m.type \in DOMAIN PageSide.classes
  <2>1. PICK s \in Scripts : m \in UNION {ToSet(s.up[b]) : b \in Browsers}
    BY DEF PageTalk
  <2>2. Sayable(PageSide, m)
    BY <2>1, ScriptsAssumption
  <2> QED
    BY <2>2 DEF Sayable
<1>3. "Disconnected" \notin DOMAIN PageSide.classes
  BY DEF PageSide
<1> QED
  BY <1>1, <1>2, <1>3

(* A frame that is handed on was the first, and is the last on the stream. *)
LEMMA OnMessageUp ==
  ASSUME WireKept, UpReadAll, NEW b \in Browsers, OnMessage(b) PROVE UpReadAll'
PROOF
<1>1. UNCHANGED <<said, handled>>
  BY DEF OnMessage, pageVars
<1>2. /\ conn[b] # "closed"
      /\ \A c \in Browsers \ {b} : conn'[c] = conn[c]
      /\ \A c \in Browsers \ {b} : FramesOf(c)' = FramesOf(c)
  BY OnMessageKept
<1>3. \A c \in Browsers \ {b} : Spoken(c)' = Spoken(c)
  BY <1>2 DEF Spoken
<1>4. CASE FramesOf(b)' = FramesOf(b) /\ UpMessages' = UpMessages
  <2>1. Spoken(b)' = Spoken(b)
    BY <1>4 DEF Spoken
  <2> QED
    BY <1>1, <1>2, <1>3, <1>4, <2>1, UpReadQuiet
<1>5. CASE /\ FramesOf(b) # <<>>
           /\ FramesOf(b)' = Tail(FramesOf(b))
           /\ LET f == Head(FramesOf(b))
              IN  UpMessages' = IF f.opcode = "BINARY"
                                  THEN Append(UpMessages, [id |-> b, bytes |-> f.bytes])
                                  ELSE UpMessages
  <2>1. PICK f : f = Head(FramesOf(b))
    OBVIOUS
  <2>2. FramesOf(b) \in Seq(FrontFrame) /\ Spoken(b) \in Seq(Talking)
    BY <1>2, SpokenType
  <2>3. f \in FrontFrame /\ Tail(FramesOf(b)) \in Seq(FrontFrame)
    BY <1>5, <2>1, <2>2
  <2>4. Spoken(b) = IF f \in Talking THEN <<f>> \o Spoken(b)' ELSE Spoken(b)'
    <3>1. Picked(FramesOf(b), Talking) =
            IF Head(FramesOf(b)) \in Talking THEN <<Head(FramesOf(b))>> \o Picked(Tail(FramesOf(b)), Talking)
                                             ELSE Picked(Tail(FramesOf(b)), Talking)
      BY <1>5, <2>2, PickedFirst
    <3>2. Spoken(b)' = Picked(FramesOf(b)', Talking)
      BY DEF Spoken
    <3> QED
      BY <1>5, <2>1, <3>1, <3>2 DEF Spoken
  <2>5. CASE f.opcode # "BINARY"
    <3>1. f \notin Talking
      BY <2>5 DEF Talking
    <3>2. Spoken(b)' = Spoken(b)
      BY <2>4, <3>1
    <3>3. UpMessages' = UpMessages
      BY <1>5, <2>1, <2>5
    <3> QED
      BY <1>1, <1>2, <1>3, <3>2, <3>3, UpReadQuiet
  <2>6. CASE f.opcode = "BINARY"
    <3>1. f \in Talking
      BY <2>3, <2>6 DEF Talking
    <3>2. PICK m \in PageTalk : f.bytes = Encode(PageSide, m)
      <4>1. PICK m \in PageTalk : f = [opcode |-> "BINARY", bytes |-> Encode(PageSide, m)]
        BY <2>3, <2>6 DEF FrontFrame
      <4> QED
        BY <4>1
    <3>3. PICK x \in UpMessage : x = [id |-> b, bytes |-> f.bytes]
      BY <3>2 DEF UpMessage
    <3>4. UpMessages' = Append(UpMessages, x)
      BY <1>5, <2>1, <2>6, <3>3
    <3>5. PICK h : h = <<b, Decode(ProtoSide, f.bytes)>>
      OBVIOUS
    <3>6. h \in Handling /\ h \in FromPage(b) /\ \A c \in Browsers \ {b} : h \notin FromPage(c)
      <4>1. h \in Handling
        BY <3>2, <3>5 DEF Handling
      <4>2. h[1] = b /\ h[2].type # "Disconnected"
        BY <3>2, <3>5, NoFarewell
      <4> QED
        BY <4>1, <4>2 DEF FromPage
    <3>7. AsHandled[x] = h
      BY <1>1, <3>3, <3>4, <3>5, AllHandledMore
    <3>8. \A c \in Browsers : Picked(AllHandled, FromPage(c))' =
             IF h \in FromPage(c) THEN Append(Picked(AllHandled, FromPage(c)), h)
                                  ELSE Picked(AllHandled, FromPage(c))
      BY <1>1, <3>3, <3>4, <3>7, AllHandledMore
    <3>9. PICK r, p, t : /\ Followed(b, r)
                         /\ r = Through(AsSpoken(b), Spoken(b))
                         /\ p = Picked(AllHandled, FromPage(b))
                         /\ t = Through(AsSaid(b), said[b])
      BY <1>2 DEF UpReadAll, UpRead
    <3>10. r \in Seq(Handling) /\ p \in Seq(Handling) /\ t = p \o r
      <4>1. AllHandled \in Seq(Handling)
        BY AllHandledType
      <4>2. p \in Seq(Handling)
        BY <3>9, <4>1, PickedType
      <4> QED
        BY <3>9, <4>2 DEF Followed
    <3>11. PICK z : z = Spoken(b)'
      OBVIOUS
    <3>12. z \in Seq(Talking)
      <4>1. Picked(Tail(FramesOf(b)), Talking) \in Seq(FrontFrame \cap Talking)
        BY <2>3, PickedIn
      <4>2. FrontFrame \cap Talking = Talking
        BY DEF Talking
      <4>3. z = Picked(FramesOf(b)', Talking)
        BY <3>11 DEF Spoken
      <4> QED
        BY <1>5, <4>1, <4>2, <4>3
    <3>13. PICK q : q = Through(AsSpoken(b), z)
      OBVIOUS
    <3>14. q \in Seq(Handling)
      <4>1. \A y \in Talking : AsSpoken(b)[y] \in Handling
        BY UpFunctions
      <4>2. ThroughElements(AsSpoken(b), z, Handling)
        BY <3>12, <4>1, ThroughType
      <4> QED
        BY <3>13, <4>2 DEF ThroughElements
    <3>15. r = <<h>> \o q
      <4>1. Spoken(b) = <<f>> \o z
        BY <2>4, <3>1, <3>11
      <4>2. <<f>> \in Seq(Talking)
        BY <3>1
      <4>3. Through(AsSpoken(b), <<f>> \o z) = Through(AsSpoken(b), <<f>>) \o Through(AsSpoken(b), z)
        <5>1. PICK s : s = <<f>>
          OBVIOUS
        <5>2. s \in Seq(Talking)
          BY <4>2, <5>1
        <5>3. Through(AsSpoken(b), s \o z) = Through(AsSpoken(b), s) \o Through(AsSpoken(b), z)
          BY <3>12, <5>2, ThroughConcat
        <5> QED
          BY <5>1, <5>3
      <4>4. Through(AsSpoken(b), <<f>>) = <<AsSpoken(b)[f]>>
        BY <3>1, ThroughOne
      <4>5. AsSpoken(b)[f] = h
        BY <3>1, <3>5 DEF AsSpoken
      <4> QED
        BY <3>9, <3>13, <4>1, <4>3, <4>4, <4>5
    <3>16. t = Append(p, h) \o q
      <4>1. Append(p, h) = p \o <<h>> /\ <<h>> \in Seq(Handling)
        BY <3>6, <3>10
      <4>2. (p \o <<h>>) \o q = p \o (<<h>> \o q)
        BY <3>10, <3>14, <4>1, ConcatAssociative
      <4> QED
        BY <3>10, <3>15, <4>1, <4>2
    <3>17. UpRead(b)'
      <4>1. /\ q \in Seq(Handling)
            /\ Through(AsSaid(b), said'[b]) = Picked(AllHandled, FromPage(b))' \o q
        BY <1>1, <3>6, <3>8, <3>9, <3>14, <3>16
      <4>2. q = Through(AsSpoken(b), Spoken(b)')
        BY <3>11, <3>13
      <4> QED
        BY <4>1, <4>2 DEF UpRead, Followed
    <3>18. ASSUME NEW c \in Browsers \ {b} PROVE UpRead(c)'
      <4>1. Picked(AllHandled, FromPage(c))' = Picked(AllHandled, FromPage(c))
        BY <3>6, <3>8
      <4>2. UpRead(c) /\ said'[c] = said[c]
        BY <1>1 DEF UpReadAll
      <4> QED
        BY <1>2, <1>3, <4>1, <4>2, UpReadSame
    <3> QED
      BY <3>17, <3>18 DEF UpReadAll
  <2> QED
    BY <2>5, <2>6
<1> QED
  <2>1. \/ FramesOf(b)' = FramesOf(b) /\ UpMessages' = UpMessages
        \/ /\ FramesOf(b) # <<>>
           /\ FramesOf(b)' = Tail(FramesOf(b))
           /\ LET f == Head(FramesOf(b))
              IN  UpMessages' = IF f.opcode = "BINARY"
                                  THEN Append(UpMessages, [id |-> b, bytes |-> f.bytes])
                                  ELSE UpMessages
    BY OnMessageKept
  <2> QED
    BY <1>4, <1>5, <2>1

(* A message that is handled was the first on the stream.                  *)
LEMMA CodecOnMessageUp ==
  ASSUME WireKept, UpReadAll, CodecOnMessage PROVE UpReadAll'
PROOF
<1>1. UNCHANGED <<said, conn>>
  BY DEF CodecOnMessage, pageVars, sockVars
<1>2. \A c \in Browsers : Spoken(c)' = Spoken(c)
  BY CodecOnMessageKept DEF Spoken
<1>3. PICK first \in Seq(UpMessage) :
        /\ UpMessages = first \o UpMessages'
        /\ handled' = handled \o [k \in 1..Len(first) |->
                         <<first[k].id, Decode(ProtoSide, first[k].bytes)>>]
  BY CodecOnMessageKept
<1>4. WireKept'
  BY CodecOnMessageKept
<1>5. PICK t : t = Through(AsHandled, first)
  OBVIOUS
<1>6. t = [k \in 1..Len(first) |-> <<first[k].id, Decode(ProtoSide, first[k].bytes)>>]
  <2>1. PICK n \in Nat : n = Len(first)
    BY <1>3
  <2>2. \A k \in 1..n : AsHandled[first[k]] = <<first[k].id, Decode(ProtoSide, first[k].bytes)>>
    <3>1. \A k \in 1..n : first[k] \in UpMessage
      BY <1>3, <2>1
    <3> QED
      BY <3>1 DEF AsHandled
  <2> QED
    BY <1>5, <2>1, <2>2 DEF Through
<1>7. PICK rest : rest = UpMessages'
  OBVIOUS
<1>8. rest \in Seq(UpMessage) /\ handled \in Seq(Handling)
  <2>1. (UpMessages \in Seq(UpMessage))'
    BY <1>4 DEF WireKept, Framed, UpKept, Stream, UpMessages
  <2>2. handled \in Seq(Handling)
    BY AllHandledType
  <2> QED
    BY <1>7, <2>1, <2>2
<1>9. PICK u : u = Through(AsHandled, rest)
  OBVIOUS
<1>10. \A x \in UpMessage : AsHandled[x] \in Handling
  <2> SUFFICES ASSUME NEW x \in UpMessage PROVE AsHandled[x] \in Handling
    OBVIOUS
  <2>1. x.id \in Browsers
    BY DEF UpMessage
  <2> QED
    BY <2>1, UpFunctions
<1>11. t \in Seq(Handling) /\ u \in Seq(Handling)
  <2>1. ThroughElements(AsHandled, first, Handling) /\ ThroughElements(AsHandled, rest, Handling)
    BY <1>3, <1>8, <1>10, ThroughType
  <2> QED
    BY <1>5, <1>9, <2>1 DEF ThroughElements
<1>12. AllHandled = handled \o (t \o u)
  <2>1. Through(AsHandled, first \o rest) = t \o u
    <3>1. first \in Seq(UpMessage)
      BY <1>3
    <3>2. Through(AsHandled, first \o rest) = Through(AsHandled, first) \o Through(AsHandled, rest)
      BY <1>8, <3>1, ThroughConcat
    <3> QED
      BY <1>5, <1>9, <3>2
  <2>2. UpMessages = first \o rest
    BY <1>3, <1>7
  <2> QED
    BY <2>1, <2>2 DEF AllHandled
<1>13. AllHandled' = (handled \o t) \o u
  <2>1. AllHandled' = handled' \o Through(AsHandled, UpMessages')
    BY DEF AllHandled
  <2>2. handled' = handled \o t
    BY <1>3, <1>6
  <2> QED
    BY <1>7, <1>9, <2>1, <2>2
<1>14. AllHandled' = AllHandled
  BY <1>8, <1>11, <1>12, <1>13, ConcatAssociative
<1>15. ASSUME NEW c \in Browsers PROVE UpRead(c)'
  <2>1. UpRead(c) /\ said'[c] = said[c]
    BY <1>1 DEF UpReadAll
  <2>2. Picked(AllHandled, FromPage(c))' = Picked(AllHandled, FromPage(c))
    BY <1>14
  <2> QED
    BY <1>1, <1>2, <2>1, <2>2, UpReadSame
<1> QED
  BY <1>15 DEF UpReadAll

(* No step changes the order of what goes up.                              *)
LEMMA UpReadStep == ASSUME WireKept, UpReadAll, [WireNext]_wireVars PROVE UpReadAll'
PROOF
<1>1. CASE WireNext
  <2>1. ASSUME NEW b \in Browsers,
               \/ OpenSocket(b) \/ Say(b) \/ Hear(b) \/ GoSilent(b)
               \/ OnMessage(b) \/ SendPingTimer(b) \/ Deadline(b)
        PROVE  UpReadAll'
    BY <2>1, OpenSocketUp, SayUp, HearUp, GoSilentUp, OnMessageUp, SendPingTimerUp, DeadlineUp
  <2>2. CASE SendToClient
    BY <2>2, SendToClientUp
  <2>3. CASE CodecOnMessage
    BY <2>3, CodecOnMessageUp
  <2>4. CASE Tell
    BY <2>4, TellUp
  <2> QED
    BY <1>1, <2>1, <2>2, <2>3, <2>4 DEF WireNext
<1>2. CASE UNCHANGED wireVars
  <2>1. UNCHANGED <<said, handled, conn, buff, toFront, taken, codecBuff, upstream>>
    BY <1>2 DEF wireVars, pageVars, sockVars, upVars
  <2>2. UpMessages' = UpMessages
    BY <2>1 DEF UpMessages
  <2>3. \A c \in Browsers : Spoken(c)' = Spoken(c)
    BY <2>1 DEF Spoken, FramesOf
  <2> QED
    BY <2>1, <2>2, <2>3, UpReadQuiet
<1> QED
  BY <1>1, <1>2

(* At first nothing is said.                                               *)
LEMMA UpReadInit == ASSUME WireInit PROVE UpReadAll
PROOF
<1> SUFFICES ASSUME NEW b \in Browsers PROVE UpRead(b)
  BY DEF UpReadAll
<1>1. FramesOf(b) = <<>> /\ UpMessages = <<>>
  BY WireInitKept
<1>2. said[b] = <<>> /\ handled = <<>>
  BY DEF WireInit
<1>3. /\ Through(AsHandled, <<>>) = <<>>
      /\ Through(AsSaid(b), <<>>) = <<>>
      /\ Through(AsSpoken(b), <<>>) = <<>>
  BY ThroughNothing
<1>4. Spoken(b) = <<>>
  BY <1>1, PickedEmpty DEF Spoken
<1>50. <<>> \in Seq(Handling)
  OBVIOUS
<1>5. PICK e \in Seq(Handling) : e = <<>>
  BY <1>50
<1>6. e \o e = e
  BY <1>5
<1>7. AllHandled = e
  BY <1>1, <1>2, <1>3, <1>5, <1>6 DEF AllHandled
<1>8. Picked(AllHandled, FromPage(b)) = e
  BY <1>5, <1>7, PickedEmpty
<1>9. Followed(b, e)
  BY <1>2, <1>3, <1>5, <1>6, <1>8 DEF Followed
<1> QED
  BY <1>3, <1>4, <1>5, <1>9 DEF UpRead

(* A page is understood, and so is the center. *)
LEMMA PageIsUnderstood ==
  ASSUME NEW m \in PageTalk
  PROVE  Understood(m, Decode(ProtoSide, Encode(PageSide, m)))
PROOF
<1>1. Sayable(PageSide, m)
  <2>1. PICK s \in Scripts : m \in UNION {ToSet(s.up[b]) : b \in Browsers}
    BY DEF PageTalk
  <2> QED
    BY <2>1, ScriptsAssumption
<1>2. m.type \in DOMAIN PageSide.classes
  BY <1>1 DEF Sayable
<1>3. \A f \in DOMAIN m.data :
        /\ f \in DOMAIN Read(ProtoSide, m.type, Write(PageSide, m.type, m.data))
        /\ Read(ProtoSide, m.type, Write(PageSide, m.type, m.data))[f] = m.data[f]
  BY <1>1, <1>2, WholeUnderstood
<1>4. PICK d : d = Decode(ProtoSide, Encode(PageSide, m))
  OBVIOUS
<1>5. d.type = m.type /\ d.data = Read(ProtoSide, m.type, Write(PageSide, m.type, m.data))
  BY <1>4 DEF Decode, Encode
<1> QED
  BY <1>3, <1>4, <1>5 DEF Understood

(* What the center says a page can read, and its checksum is right.        *)
LEMMA CenterIsUnderstood ==
  ASSUME NEW m \in CenterTalk
  PROVE  /\ Understood(m, Decode(PageSide, Encode(ProtoSide, m)))
         /\ Parses(Encode(ProtoSide, m))
PROOF
<1>1. Sayable(ProtoSide, m) /\ m.type # "Disconnected" /\ ~m.damage
  <2>1. PICK s \in Scripts : \E k \in DOMAIN s.down : m = s.down[k][2]
    BY DEF CenterTalk
  <2> QED
    BY <2>1, ScriptsAssumption
<1>2. m.type \in DOMAIN PageSide.classes
  <2>1. DOMAIN ProtoSide.classes \subseteq DOMAIN PageSide.classes \cup {"Disconnected"}
    BY DEF PageSide, ProtoSide
  <2> QED
    BY <1>1, <2>1 DEF Sayable
<1>3. \A f \in DOMAIN m.data :
        /\ f \in DOMAIN Read(PageSide, m.type, Write(ProtoSide, m.type, m.data))
        /\ Read(PageSide, m.type, Write(ProtoSide, m.type, m.data))[f] = m.data[f]
  BY <1>1, <1>2, WholeUnderstood
<1>4. PICK d : d = Decode(PageSide, Encode(ProtoSide, m))
  OBVIOUS
<1>5. d.type = m.type /\ d.data = Read(PageSide, m.type, Write(ProtoSide, m.type, m.data))
  BY <1>4 DEF Decode, Encode
<1>6. Understood(m, d)
  BY <1>3, <1>5 DEF Understood
<1>7. Parses(Encode(ProtoSide, m))
  BY <1>1 DEF Parses, Encode
<1> QED
  BY <1>4, <1>6, <1>7

\* The first of what browser b said is what has been handled of it.
LEMMA UpIsUnderstood ==
  ASSUME WireKept, UpReadAll, NEW b \in Browsers
  PROVE  /\ Len(HandledFrom(b)) <= Len(said[b])
         /\ \A k \in DOMAIN HandledFrom(b) : Understood(said[b][k], HandledFrom(b)[k])
PROOF
<1>1. PICK n \in Nat : n = Len(said[b]) /\ \A k \in 1..n : said[b][k] \in PageTalk
  BY DEF WireKept, WireTypeOK
<1>2. handled \in Seq(Handling) /\ Through(AsHandled, UpMessages) \in Seq(Handling)
  BY AllHandledType
<1>3. PICK hs : hs = Picked(handled, FromPage(b))
  OBVIOUS
<1>4. hs = Picked(handled, {h \in ToSet(handled) : h[1] = b /\ h[2].type # "Disconnected"})
  <2>1. \A k \in 1..Len(handled) :
          handled[k] \in {h \in ToSet(handled) : h[1] = b /\ h[2].type # "Disconnected"}
            <=> handled[k] \in FromPage(b)
    BY <1>2 DEF ToSet, FromPage
  <2> QED
    BY <1>2, <1>3, <2>1, PickedSame
<1>5. HandledFrom(b) = [k \in DOMAIN hs |-> hs[k][2]]
  BY <1>4 DEF HandledFrom
<1>6. hs \in Seq(Handling)
  BY <1>2, <1>3, PickedType
<1>7. PICK i \in Nat : i = Len(hs) /\ DOMAIN hs = 1..i
  BY <1>6
<1>8. PICK t : t = Through(AsSaid(b), said[b])
  OBVIOUS
<1>9. Len(t) = n /\ \A k \in 1..n : t[k] = <<b, Decode(ProtoSide, Encode(PageSide, said[b][k]))>>
  <2>1. \A m \in PageTalk : AsSaid(b)[m] \in Handling
    BY UpFunctions
  <2>2. said[b] \in Seq(PageTalk)
    BY DEF WireKept, WireTypeOK
  <2>3. ThroughElements(AsSaid(b), said[b], Handling)
    BY <2>1, <2>2, ThroughType
  <2>4. Len(t) = n /\ \A k \in 1..n : t[k] = AsSaid(b)[said[b][k]]
    BY <1>1, <1>8, <2>3 DEF ThroughElements
  <2> QED
    BY <1>1, <2>4 DEF AsSaid
<1>10. PICK r : r \in Seq(Handling) /\ t = hs \o r
  <2>1. PICK r : r \in Seq(Handling) /\ t = Picked(AllHandled, FromPage(b)) \o r
    BY <1>8 DEF UpReadAll, UpRead, Followed
  <2>2. PICK u : u = Picked(Through(AsHandled, UpMessages), FromPage(b))
    OBVIOUS
  <2>3. u \in Seq(Handling)
    BY <1>2, <2>2, PickedType
  <2>4. Picked(AllHandled, FromPage(b)) = hs \o u
    <3>1. PICK v : v = Through(AsHandled, UpMessages)
      OBVIOUS
    <3>2. v \in Seq(Handling) /\ handled \in Seq(Handling)
      BY <1>2, <3>1
    <3>3. Picked(handled \o v, FromPage(b)) = Picked(handled, FromPage(b)) \o Picked(v, FromPage(b))
      BY <3>2, PickedConcat
    <3> QED
      BY <1>3, <2>2, <3>1, <3>3 DEF AllHandled
  <2>5. (hs \o u) \o r = hs \o (u \o r) /\ u \o r \in Seq(Handling)
    BY <1>6, <2>1, <2>3, ConcatAssociative
  <2> QED
    BY <2>1, <2>4, <2>5
<1>11. i <= n /\ \A k \in 1..i : hs[k] = t[k]
  <2>1. PICK j \in Nat : j = Len(r)
    BY <1>10
  <2>2. /\ Len(hs \o r) = Len(hs) + Len(r)
        /\ \A k \in 1..Len(hs) : (hs \o r)[k] = hs[k]
    BY <1>6, <1>10, Joined
  <2>3. n = i + j
    BY <1>7, <1>9, <1>10, <2>1, <2>2
  <2>4. \A k \in 1..i : t[k] = hs[k]
    BY <1>7, <1>10, <2>2
  <2> QED
    BY <2>3, <2>4
<1>12. ASSUME NEW k \in 1..i
       PROVE  Understood(said[b][k], HandledFrom(b)[k])
  <2>1. PICK m \in PageTalk : m = said[b][k]
    BY <1>1, <1>11
  <2>2. hs[k] = <<b, Decode(ProtoSide, Encode(PageSide, m))>>
    BY <1>9, <1>11, <2>1
  <2>3. HandledFrom(b)[k] = Decode(ProtoSide, Encode(PageSide, m))
    BY <1>5, <1>7, <2>2
  <2>4. Understood(m, Decode(ProtoSide, Encode(PageSide, m)))
    BY PageIsUnderstood
  <2> QED
    BY <2>1, <2>3, <2>4
<1>13. DOMAIN HandledFrom(b) = 1..i /\ Len(HandledFrom(b)) = i
  BY <1>5, <1>7
<1> QED
  BY <1>1, <1>11, <1>12, <1>13

-----------------------------------------------------------------------------
(* The way down: what a page has heard, what comes and what waits for it.  *)
Hearing == {Decode(PageSide, Encode(ProtoSide, m)) : m \in CenterTalk}
Saying == Browsers \X CenterTalk
SaidTo(b) == {t \in Saying : t[1] = b}
Telling == {f \in PageFrame : f.opcode = "BINARY"}

AsTold == [t \in Saying |-> Decode(PageSide, Encode(ProtoSide, t[2]))]
AsComing == [f \in Telling |-> Decode(PageSide, f.bytes)]
AsWaiting == [x \in DownMessage |-> Decode(PageSide, x.bytes)]

ToldOf(b) == Picked(told, SaidTo(b))
Coming(b) == Picked(toBrowser[b], Telling)
Waiting(b) == Picked(DownMessages, ForBrowser(b))
Unheard(b) == Through(AsComing, Coming(b)) \o Through(AsWaiting, Waiting(b))

Awaited(b, r) ==
  /\ r \in Seq(Hearing)
  /\ Through(AsTold, ToldOf(b)) = heard[b] \o r
DownRead(b) ==
  /\ \E r : Awaited(b, r) /\ (conn[b] # "closed" => r = Unheard(b))
  /\ conn[b] \in {"none", "wait"} => ToldOf(b) = <<>>
DownReadAll == \A b \in Browsers : DownRead(b)

(* What a message told, coming or waiting will be heard as.                *)
LEMMA DownFunctions ==
  /\ \A t \in Saying : AsTold[t] = Decode(PageSide, Encode(ProtoSide, t[2])) /\ AsTold[t] \in Hearing
  /\ \A f \in Telling : AsComing[f] = Decode(PageSide, f.bytes) /\ AsComing[f] \in Hearing
  /\ \A x \in DownMessage : AsWaiting[x] = Decode(PageSide, x.bytes) /\ AsWaiting[x] \in Hearing
PROOF
<1>1. ASSUME NEW t \in Saying
      PROVE  AsTold[t] = Decode(PageSide, Encode(ProtoSide, t[2])) /\ AsTold[t] \in Hearing
  <2>1. t[2] \in CenterTalk
    BY DEF Saying
  <2>2. AsTold[t] = Decode(PageSide, Encode(ProtoSide, t[2]))
    BY DEF AsTold
  <2> QED
    BY <2>1, <2>2 DEF Hearing
<1>2. ASSUME NEW f \in Telling
      PROVE  AsComing[f] = Decode(PageSide, f.bytes) /\ AsComing[f] \in Hearing
  <2>1. PICK m \in CenterTalk : f = [opcode |-> "BINARY", bytes |-> Encode(ProtoSide, m)]
    BY DEF Telling, PageFrame
  <2>2. f.bytes = Encode(ProtoSide, m)
    BY <2>1
  <2>3. AsComing[f] = Decode(PageSide, f.bytes)
    BY DEF AsComing
  <2> QED
    BY <2>2, <2>3 DEF Hearing
<1>3. ASSUME NEW x \in DownMessage
      PROVE  AsWaiting[x] = Decode(PageSide, x.bytes) /\ AsWaiting[x] \in Hearing
  <2>1. PICK m \in CenterTalk : x.bytes = Encode(ProtoSide, m)
    BY DEF DownMessage
  <2>2. AsWaiting[x] = Decode(PageSide, x.bytes)
    BY DEF AsWaiting
  <2> QED
    BY <2>1, <2>2 DEF Hearing
<1> QED
  BY <1>1, <1>2, <1>3

(* The types of what is on the way down.                                   *)
LEMMA DownTypes ==
  ASSUME WireKept, NEW b \in Browsers
  PROVE  /\ DownMessages \in Seq(DownMessage)
         /\ told \in Seq(Saying)
         /\ ToldOf(b) \in Seq(Saying)
         /\ heard[b] \in Seq(Hearing)
         /\ toBrowser[b] \in Seq(PageFrame)
         /\ Coming(b) \in Seq(Telling)
         /\ Waiting(b) \in Seq(DownMessage)
         /\ Through(AsComing, Coming(b)) \in Seq(Hearing)
         /\ Through(AsWaiting, Waiting(b)) \in Seq(Hearing)
PROOF
<1>1. DownMessages \in Seq(DownMessage)
  BY DEF WireKept, Framed, DownKept, Stream, DownMessages
<1>2. told \in Seq(Saying) /\ heard[b] \in Seq(Hearing) /\ toBrowser[b] \in Seq(PageFrame)
  BY DEF WireKept, WireTypeOK, Saying, Hearing
<1>3. ToldOf(b) \in Seq(Saying) /\ Waiting(b) \in Seq(DownMessage)
  BY <1>1, <1>2, PickedType DEF ToldOf, Waiting
<1>4. Coming(b) \in Seq(Telling)
  <2>1. Coming(b) \in Seq(PageFrame \cap Telling)
    BY <1>2, PickedIn DEF Coming
  <2>2. PageFrame \cap Telling = Telling
    BY DEF Telling
  <2> QED
    BY <2>1, <2>2
<1>5. ThroughElements(AsComing, Coming(b), Hearing)
  <2>1. \A f \in Telling : AsComing[f] \in Hearing
    BY DownFunctions
  <2> QED
    BY <1>4, <2>1, ThroughType
<1>6. ThroughElements(AsWaiting, Waiting(b), Hearing)
  <2>1. \A x \in DownMessage : AsWaiting[x] \in Hearing
    BY DownFunctions
  <2> QED
    BY <1>3, <2>1, ThroughType
<1> QED
  BY <1>1, <1>2, <1>3, <1>4, <1>5, <1>6 DEF ThroughElements

(* Nothing happens to what one browser is told. *)
LEMMA DownReadSame ==
  ASSUME NEW b \in Browsers, DownRead(b), heard'[b] = heard[b], ToldOf(b)' = ToldOf(b),
         conn'[b] # "closed" => /\ conn[b] # "closed"
                                /\ Coming(b)' = Coming(b)
                                /\ Waiting(b)' = Waiting(b),
         conn'[b] \in {"none", "wait"} => conn[b] \in {"none", "wait"}
  PROVE  DownRead(b)'
PROOF
<1>1. PICK r : Awaited(b, r) /\ (conn[b] # "closed" => r = Unheard(b))
  BY DEF DownRead
<1>2. r \in Seq(Hearing) /\ Through(AsTold, ToldOf(b)) = heard[b] \o r
  BY <1>1 DEF Awaited
<1>3. Through(AsTold, ToldOf(b)') = heard'[b] \o r
  BY <1>2
<1>4. conn'[b] # "closed" => r = Unheard(b)'
  <2> SUFFICES ASSUME conn'[b] # "closed" PROVE r = Unheard(b)'
    OBVIOUS
  <2>1. r = Through(AsComing, Coming(b)) \o Through(AsWaiting, Waiting(b))
    BY <1>1 DEF Unheard
  <2>2. Unheard(b)' = Through(AsComing, Coming(b)') \o Through(AsWaiting, Waiting(b)')
    BY DEF Unheard
  <2> QED
    BY <2>1, <2>2
<1>5. conn'[b] \in {"none", "wait"} => ToldOf(b)' = <<>>
  BY DEF DownRead
<1> QED
  BY <1>2, <1>3, <1>4, <1>5 DEF DownRead, Awaited

(* A step in which nobody is told or hears anything. *)
LEMMA DownReadQuiet ==
  ASSUME DownReadAll, UNCHANGED <<heard, told>>, DownMessages' = DownMessages,
         \A c \in Browsers : /\ conn'[c] # "closed" => /\ conn[c] # "closed"
                                                      /\ Coming(c)' = Coming(c)
                             /\ conn'[c] \in {"none", "wait"} => conn[c] \in {"none", "wait"}
  PROVE  DownReadAll'
PROOF
<1>1. ASSUME NEW c \in Browsers PROVE DownRead(c)'
  <2>1. DownRead(c) /\ heard'[c] = heard[c]
    BY DEF DownReadAll
  <2>2. ToldOf(c)' = ToldOf(c) /\ Waiting(c)' = Waiting(c)
    BY DEF ToldOf, Waiting
  <2> QED
    BY <2>1, <2>2, DownReadSame
<1> QED
  BY <1>1 DEF DownReadAll

(* A frame more to a browser that tells it nothing. *)
LEMMA ComingSame ==
  ASSUME WireKept, NEW b \in Browsers, NEW x \in PageFrame \ Telling,
         toBrowser'[b] = Append(toBrowser[b], x)
  PROVE  Coming(b)' = Coming(b)
PROOF
<1>1. toBrowser[b] \in Seq(PageFrame)
  BY DownTypes
<1>2. Picked(Append(toBrowser[b], x), Telling) = Picked(toBrowser[b], Telling)
  BY <1>1, PickedAppend
<1>3. Coming(b)' = Picked(toBrowser'[b], Telling)
  BY DEF Coming
<1> QED
  BY <1>2, <1>3 DEF Coming

\* The way down, action by action: a page that connects has been told nothing.
LEMMA OpenSocketDown ==
  ASSUME WireKept, DownReadAll, NEW b \in Browsers, OpenSocket(b) PROVE DownReadAll'
PROOF
<1>1. UNCHANGED <<heard, told, toBrowser, frontBuff, downstream>> /\ conn' = [conn EXCEPT ![b] = "wait"]
  BY DEF OpenSocket, downVars
<1>2. conn[b] = "none"
  BY DEF OpenSocket, WireKept, Connected
<1>3. DownMessages' = DownMessages
  BY <1>1, DownUntouched DEF WireKept, Framed
<1>4. \A c \in Browsers : /\ conn'[c] # "closed" => conn[c] # "closed"
                          /\ conn'[c] \in {"none", "wait"} => conn[c] \in {"none", "wait"}
  BY <1>1, <1>2 DEF WireKept, WireTypeOK
<1>5. \A c \in Browsers : Coming(c)' = Coming(c)
  BY <1>1 DEF Coming
<1> QED
  BY <1>1, <1>3, <1>4, <1>5, DownReadQuiet

(* What a page says does not go down,                                      *)
LEMMA SayDown ==
  ASSUME WireKept, DownReadAll, NEW b \in Browsers, Say(b) PROVE DownReadAll'
PROOF
<1>1. UNCHANGED <<heard, told, toBrowser, frontBuff, downstream, conn>>
  BY DEF Say, downVars
<1>2. DownMessages' = DownMessages
  BY <1>1, DownUntouched DEF WireKept, Framed
<1>3. \A c \in Browsers : Coming(c)' = Coming(c)
  BY <1>1 DEF Coming
<1> QED
  BY <1>1, <1>2, <1>3, DownReadQuiet

(* nor does its silence,                                                   *)
LEMMA GoSilentDown ==
  ASSUME WireKept, DownReadAll, NEW b \in Browsers, GoSilent(b) PROVE DownReadAll'
PROOF
<1>1. UNCHANGED <<heard, told, toBrowser, frontBuff, downstream, conn>>
  BY DEF GoSilent, downVars, sockVars
<1>2. DownMessages' = DownMessages
  BY <1>1, DownUntouched DEF WireKept, Framed
<1>3. \A c \in Browsers : Coming(c)' = Coming(c)
  BY <1>1 DEF Coming
<1> QED
  BY <1>1, <1>2, <1>3, DownReadQuiet

(* and what the center handles does not either.                            *)
LEMMA CodecOnMessageDown ==
  ASSUME WireKept, DownReadAll, CodecOnMessage PROVE DownReadAll'
PROOF
<1>1. UNCHANGED <<heard, told, toBrowser, frontBuff, downstream, conn>>
  BY DEF CodecOnMessage, downVars, sockVars, pageVars
<1>2. DownMessages' = DownMessages
  BY <1>1, DownUntouched DEF WireKept, Framed
<1>3. \A c \in Browsers : Coming(c)' = Coming(c)
  BY <1>1 DEF Coming
<1> QED
  BY <1>1, <1>2, <1>3, DownReadQuiet

(* A ping among the frames is not a message.                               *)
LEMMA SendPingTimerDown ==
  ASSUME WireKept, DownReadAll, NEW b \in Browsers, SendPingTimer(b) PROVE DownReadAll'
PROOF
<1>1. /\ UNCHANGED <<heard, told, frontBuff, downstream>>
      /\ conn[b] = "ping"
      /\ conn' = [conn EXCEPT ![b] = "pong"]
      /\ toBrowser' = [toBrowser EXCEPT ![b] = Append(@, [opcode |-> "PING"])]
  BY DEF SendPingTimer, downVars, pageVars, Send
<1>2. DownMessages' = DownMessages
  BY <1>1, DownUntouched DEF WireKept, Framed
<1>3. \A c \in Browsers : /\ conn'[c] # "closed" => conn[c] # "closed"
                          /\ conn'[c] \in {"none", "wait"} => conn[c] \in {"none", "wait"}
  BY <1>1 DEF WireKept, WireTypeOK
<1>4. Coming(b)' = Coming(b)
  <2>1. PICK x : x = [opcode |-> "PING"]
    OBVIOUS
  <2>2. x \in PageFrame \ Telling
    BY <2>1 DEF PageFrame, Telling
  <2>3. toBrowser'[b] = Append(toBrowser[b], x)
    BY <1>1, <2>1 DEF WireKept, WireTypeOK
  <2> QED
    BY <2>2, <2>3, ComingSame
<1>5. \A c \in Browsers \ {b} : Coming(c)' = Coming(c)
  BY <1>1 DEF Coming, WireKept, WireTypeOK
<1> QED
  BY <1>1, <1>2, <1>3, <1>4, <1>5, DownReadQuiet

(* Who is closed on has heard a beginning of what it was told.             *)
LEMMA DeadlineDown ==
  ASSUME WireKept, DownReadAll, NEW b \in Browsers, Deadline(b) PROVE DownReadAll'
PROOF
<1>1. /\ UNCHANGED <<heard, told, frontBuff, downstream>>
      /\ conn' = [conn EXCEPT ![b] = "closed"]
      /\ toBrowser' = [toBrowser EXCEPT ![b] = <<>>]
  BY DEF Deadline, downVars, pageVars
<1>2. DownMessages' = DownMessages
  BY <1>1, DownUntouched DEF WireKept, Framed
<1>3. \A c \in Browsers : /\ conn'[c] # "closed" => conn[c] # "closed" /\ Coming(c)' = Coming(c)
                          /\ conn'[c] \in {"none", "wait"} => conn[c] \in {"none", "wait"}
  BY <1>1 DEF WireKept, WireTypeOK, Coming
<1> QED
  BY <1>1, <1>2, <1>3, DownReadQuiet

(* The answer to a handshake is not a message.                             *)
LEMMA OnMessageDown ==
  ASSUME WireKept, DownReadAll, NEW b \in Browsers, OnMessage(b) PROVE DownReadAll'
PROOF
<1>1. UNCHANGED <<heard, told, frontBuff, downstream>>
  BY DEF OnMessage, downVars, pageVars
<1>2. DownMessages' = DownMessages
  BY <1>1, DownUntouched DEF WireKept, Framed
<1>3. /\ conn[b] # "closed"
      /\ \A c \in Browsers \ {b} : conn'[c] = conn[c] /\ toBrowser'[c] = toBrowser[c]
      /\ conn'[b] = conn[b] \/ conn'[b] = "ping"
      /\ toBrowser'[b] = toBrowser[b] \/ toBrowser'[b] = Append(toBrowser[b], [opcode |-> "101"])
  BY OnMessageKept
<1>4. Coming(b)' = Coming(b)
  <2>1. PICK x : x = [opcode |-> "101"]
    OBVIOUS
  <2>2. x \in PageFrame \ Telling
    BY <2>1 DEF PageFrame, Telling
  <2>3. CASE toBrowser'[b] = Append(toBrowser[b], x)
    BY <2>2, <2>3, ComingSame
  <2>4. CASE toBrowser'[b] = toBrowser[b]
    BY <2>4 DEF Coming
  <2> QED
    BY <1>3, <2>1, <2>3, <2>4
<1>5. \A c \in Browsers : Coming(c)' = Coming(c)
  BY <1>3, <1>4 DEF Coming
<1>6. \A c \in Browsers : /\ conn'[c] # "closed" => conn[c] # "closed"
                          /\ conn'[c] \in {"none", "wait"} => conn[c] \in {"none", "wait"}
  BY <1>3
<1> QED
  BY <1>1, <1>2, <1>5, <1>6, DownReadQuiet

(* What a page hears was the first frame on its way.                       *)
LEMMA HearDown ==
  ASSUME WireKept, DownReadAll, NEW b \in Browsers, Hear(b) PROVE DownReadAll'
PROOF
<1>1. PICK f : f = Head(toBrowser[b])
  OBVIOUS
<1>2. /\ toBrowser[b] # <<>>
      /\ toBrowser' = [toBrowser EXCEPT ![b] = Tail(@)]
      /\ UNCHANGED <<told, conn, frontBuff, downstream>>
      /\ \/ f.opcode # "BINARY" /\ UNCHANGED heard
         \/ /\ f.opcode = "BINARY"
            /\ heard' = IF Parses(f.bytes)
                          THEN [heard EXCEPT ![b] = Append(@, Decode(PageSide, f.bytes))]
                          ELSE heard
  BY <1>1 DEF Hear, downVars
<1>3. f \in PageFrame /\ conn[b] # "closed"
  BY <1>1, HearKept
<1>4. DownMessages' = DownMessages
  BY <1>2, DownUntouched DEF WireKept, Framed
<1>5. \A c \in Browsers \ {b} : Coming(c)' = Coming(c)
  BY <1>2 DEF Coming, WireKept, WireTypeOK
<1>6. Coming(b) = IF f \in Telling THEN <<f>> \o Coming(b)' ELSE Coming(b)'
  <2>1. toBrowser[b] \in Seq(PageFrame) /\ toBrowser'[b] = Tail(toBrowser[b])
    BY <1>2 DEF WireKept, WireTypeOK
  <2>2. Picked(toBrowser[b], Telling) =
          IF Head(toBrowser[b]) \in Telling
            THEN <<Head(toBrowser[b])>> \o Picked(Tail(toBrowser[b]), Telling)
            ELSE Picked(Tail(toBrowser[b]), Telling)
    BY <1>2, <2>1, PickedFirst
  <2>3. Coming(b)' = Picked(toBrowser'[b], Telling)
    BY DEF Coming
  <2> QED
    BY <1>1, <2>1, <2>2, <2>3 DEF Coming
<1>7. CASE f.opcode # "BINARY"
  <2>1. Coming(b)' = Coming(b)
    BY <1>6, <1>7 DEF Telling
  <2>2. UNCHANGED heard
    BY <1>2, <1>7
  <2> QED
    BY <1>2, <1>4, <1>5, <2>1, <2>2, DownReadQuiet
<1>8. CASE f.opcode = "BINARY"
  <2>1. f \in Telling
    BY <1>3, <1>8 DEF Telling
  <2>2. PICK m \in CenterTalk : f.bytes = Encode(ProtoSide, m)
    <3>1. PICK m \in CenterTalk : f = [opcode |-> "BINARY", bytes |-> Encode(ProtoSide, m)]
      BY <2>1 DEF PageFrame, Telling
    <3> QED
      BY <3>1
  <2>3. PICK h : h = Decode(PageSide, f.bytes)
    OBVIOUS
  <2>4. h \in Hearing /\ AsComing[f] = h
    BY <2>1, <2>3, DownFunctions
  <2>5. heard' = [heard EXCEPT ![b] = Append(@, h)]
    <3>1. Parses(f.bytes)
      BY <2>2, CenterIsUnderstood
    <3> QED
      BY <1>2, <1>8, <2>3, <3>1
  <2>6. PICK r, z, w, s, q :
          /\ Awaited(b, r) /\ r = Unheard(b)
          /\ z = Coming(b)'
          /\ w = Through(AsWaiting, Waiting(b))
          /\ s = Through(AsComing, z)
          /\ q = heard[b]
    BY <1>3 DEF DownReadAll, DownRead
  <2>7. /\ z \in Seq(Telling)
        /\ q \in Seq(Hearing)
        /\ w \in Seq(Hearing)
        /\ s \in Seq(Hearing)
    <3>1. toBrowser'[b] \in Seq(PageFrame)
      BY <1>2 DEF WireKept, WireTypeOK
    <3>2. z \in Seq(Telling)
      <4>1. Picked(toBrowser'[b], Telling) \in Seq(PageFrame \cap Telling)
        BY <3>1, PickedIn
      <4>2. PageFrame \cap Telling = Telling
        BY DEF Telling
      <4>3. z = Picked(toBrowser'[b], Telling)
        BY <2>6 DEF Coming
      <4> QED
        BY <4>1, <4>2, <4>3
    <3>3. ThroughElements(AsComing, z, Hearing)
      <4>1. \A y \in Telling : AsComing[y] \in Hearing
        BY DownFunctions
      <4> QED
        BY <3>2, <4>1, ThroughType
    <3>4. heard[b] \in Seq(Hearing) /\ Through(AsWaiting, Waiting(b)) \in Seq(Hearing)
      BY DownTypes
    <3> QED
      BY <2>6, <3>2, <3>3, <3>4 DEF ThroughElements
  <2>8. Through(AsComing, Coming(b)) = <<h>> \o s
    <3>1. PICK u : u = <<f>>
      OBVIOUS
    <3>2. u \in Seq(Telling)
      BY <2>1, <3>1
    <3>3. Through(AsComing, u \o z) = Through(AsComing, u) \o Through(AsComing, z)
      BY <2>7, <3>2, ThroughConcat
    <3>4. Through(AsComing, <<f>>) = <<AsComing[f]>>
      BY <2>1, ThroughOne
    <3>5. Coming(b) = u \o z
      BY <1>6, <2>1, <2>6, <3>1
    <3> QED
      BY <2>4, <2>6, <3>1, <3>3, <3>4, <3>5
  <2>9. r = (<<h>> \o s) \o w
    BY <2>6, <2>8 DEF Unheard
  <2>10. q \o ((<<h>> \o s) \o w) = Append(q, h) \o (s \o w)
    <3>1. <<h>> \in Seq(Hearing) /\ Append(q, h) = q \o <<h>>
      BY <2>4, <2>7
    <3>2. (<<h>> \o s) \o w = <<h>> \o (s \o w)
      BY <2>7, <3>1, ConcatAssociative
    <3>3. PICK v : v = s \o w
      OBVIOUS
    <3>4. v \in Seq(Hearing)
      BY <2>7, <3>3
    <3>5. (q \o <<h>>) \o v = q \o (<<h>> \o v)
      BY <2>7, <3>1, <3>4, ConcatAssociative
    <3> QED
      BY <3>1, <3>2, <3>3, <3>5
  <2>11. ToldOf(b)' = ToldOf(b) /\ Waiting(b)' = Waiting(b)
    BY <1>2, <1>4 DEF ToldOf, Waiting
  <2>12. Unheard(b)' = s \o w
    <3>1. Unheard(b)' = Through(AsComing, Coming(b)') \o Through(AsWaiting, Waiting(b)')
      BY DEF Unheard
    <3> QED
      BY <2>6, <2>11, <3>1
  <2>13. DownRead(b)'
    <3>1. Through(AsTold, ToldOf(b)) = q \o r
      BY <2>6 DEF Awaited
    <3>2. heard'[b] = Append(q, h)
      BY <2>5, <2>6 DEF WireKept, WireTypeOK
    <3>3. Through(AsTold, ToldOf(b)') = heard'[b] \o (s \o w)
      BY <2>9, <2>10, <2>11, <3>1, <3>2
    <3>4. s \o w \in Seq(Hearing)
      BY <2>7
    <3>5. conn'[b] \in {"none", "wait"} => ToldOf(b)' = <<>>
      BY <1>2, <2>11 DEF DownReadAll, DownRead
    <3> QED
      BY <2>12, <3>3, <3>4, <3>5 DEF DownRead, Awaited
  <2>14. ASSUME NEW c \in Browsers \ {b} PROVE DownRead(c)'
    <3>1. DownRead(c) /\ heard'[c] = heard[c]
      BY <2>5 DEF DownReadAll, WireKept, WireTypeOK
    <3>2. ToldOf(c)' = ToldOf(c) /\ Waiting(c)' = Waiting(c)
      BY <1>2, <1>4 DEF ToldOf, Waiting
    <3> QED
      BY <1>2, <1>5, <3>1, <3>2, DownReadSame
  <2> QED
    BY <2>13, <2>14 DEF DownReadAll
<1> QED
  BY <1>7, <1>8

(* What the center says is behind all it has said before.                  *)
LEMMA TellDown == ASSUME WireKept, DownReadAll, Tell PROVE DownReadAll'
PROOF
<1>1. PICK b, m : b = Head(toTell)[1] /\ m = Head(toTell)[2]
  OBVIOUS
<1>2. PICK t : t = Head(toTell)
  OBVIOUS
<1>3. /\ t \in Browsers \X CenterTalk
      /\ conn[b] \in {"ping", "pong"}
      /\ DownMessages' = Append(DownMessages, [id |-> b, bytes |-> Encode(ProtoSide, m)])
      /\ UNCHANGED <<conn, toBrowser>>
  BY <1>1, <1>2, TellKept
<1>4. t \in Saying /\ t[1] = b /\ t[2] = m /\ b \in Browsers /\ m \in CenterTalk
  BY <1>1, <1>2, <1>3 DEF Saying
<1>5. told' = Append(told, t) /\ UNCHANGED heard
  BY <1>2 DEF Tell, pageVars
<1>6. PICK x : x = [id |-> b, bytes |-> Encode(ProtoSide, m)]
  OBVIOUS
<1>7. x \in DownMessage /\ x.id = b /\ x.bytes = Encode(ProtoSide, m)
  BY <1>4, <1>6 DEF DownMessage
<1>8. \A c \in Browsers : Coming(c)' = Coming(c)
  BY <1>3 DEF Coming
<1>9. ASSUME NEW c \in Browsers
      PROVE  /\ ToldOf(c)' = IF c = b THEN Append(ToldOf(c), t) ELSE ToldOf(c)
             /\ Waiting(c)' = IF c = b THEN Append(Waiting(c), x) ELSE Waiting(c)
  <2>1. told \in Seq(Saying) /\ DownMessages \in Seq(DownMessage)
    BY DownTypes
  <2>2. (t \in SaidTo(c) <=> c = b) /\ (x \in ForBrowser(c) <=> c = b)
    BY <1>4, <1>7 DEF SaidTo, ForBrowser
  <2>3. Picked(Append(told, t), SaidTo(c)) =
          IF t \in SaidTo(c) THEN Append(Picked(told, SaidTo(c)), t) ELSE Picked(told, SaidTo(c))
    BY <1>4, <2>1, PickedAppend
  <2>4. Picked(Append(DownMessages, x), ForBrowser(c)) =
          IF x \in ForBrowser(c) THEN Append(Picked(DownMessages, ForBrowser(c)), x)
                                 ELSE Picked(DownMessages, ForBrowser(c))
    BY <1>7, <2>1, PickedAppend
  <2>5. ToldOf(c)' = Picked(told', SaidTo(c)) /\ Waiting(c)' = Picked(DownMessages', ForBrowser(c))
    BY DEF ToldOf, Waiting
  <2>6. ToldOf(c) = Picked(told, SaidTo(c)) /\ Waiting(c) = Picked(DownMessages, ForBrowser(c))
    BY DEF ToldOf, Waiting
  <2>7. DownMessages' = Append(DownMessages, x)
    BY <1>3, <1>6
  <2> QED
    BY <1>5, <2>2, <2>3, <2>4, <2>5, <2>6, <2>7
<1>10. DownRead(b)'
  <2>1. PICK r, u, w, g, q :
          /\ Awaited(b, r) /\ r = Unheard(b)
          /\ u = Through(AsComing, Coming(b))
          /\ w = Through(AsWaiting, Waiting(b))
          /\ g = Through(AsTold, ToldOf(b))
          /\ q = heard[b]
    BY <1>3, <1>4 DEF DownReadAll, DownRead
  <2>2. u \in Seq(Hearing) /\ w \in Seq(Hearing) /\ q \in Seq(Hearing)
    BY <1>4, <2>1, DownTypes
  <2>3. g = q \o (u \o w)
    BY <2>1 DEF Awaited, Unheard
  <2>4. PICK h : h = Decode(PageSide, Encode(ProtoSide, m))
    OBVIOUS
  <2>5. AsTold[t] = h /\ AsWaiting[x] = h /\ h \in Hearing
    BY <1>4, <1>7, <2>4, DownFunctions
  <2>6. Through(AsTold, ToldOf(b)') = Append(g, h)
    <3>1. ToldOf(b) \in Seq(Saying)
      BY <1>4, DownTypes
    <3>2. Through(AsTold, Append(ToldOf(b), t)) = Append(Through(AsTold, ToldOf(b)), AsTold[t])
      BY <1>4, <3>1, ThroughAppend
    <3>3. ToldOf(b)' = Append(ToldOf(b), t)
      BY <1>4, <1>9
    <3> QED
      BY <2>1, <2>5, <3>2, <3>3
  <2>7. Through(AsWaiting, Waiting(b)') = Append(w, h)
    <3>1. Waiting(b) \in Seq(DownMessage)
      BY <1>4, DownTypes
    <3>2. Through(AsWaiting, Append(Waiting(b), x)) = Append(Through(AsWaiting, Waiting(b)), AsWaiting[x])
      BY <1>7, <3>1, ThroughAppend
    <3>3. Waiting(b)' = Append(Waiting(b), x)
      BY <1>4, <1>9
    <3> QED
      BY <2>1, <2>5, <3>2, <3>3
  <2>8. Unheard(b)' = u \o Append(w, h)
    <3>1. Unheard(b)' = Through(AsComing, Coming(b)') \o Through(AsWaiting, Waiting(b)')
      BY DEF Unheard
    <3>2. Coming(b)' = Coming(b)
      BY <1>4, <1>8
    <3> QED
      BY <2>1, <2>7, <3>1, <3>2
  <2>9. Append(q \o (u \o w), h) = q \o (u \o Append(w, h))
    <3>1. PICK v : v = u \o w
      OBVIOUS
    <3>2. v \in Seq(Hearing)
      BY <2>2, <3>1
    <3>3. Append(q \o v, h) = q \o Append(v, h)
      BY <2>2, <2>5, <3>2
    <3>4. Append(u \o w, h) = u \o Append(w, h)
      <4>1. h \in Hearing
        BY <2>5
      <4>2. u \in Seq(Hearing) /\ w \in Seq(Hearing)
        BY <2>2
      <4> QED
        BY <4>1, <4>2
    <3> QED
      BY <3>1, <3>3, <3>4
  <2>10. u \o Append(w, h) \in Seq(Hearing)
    BY <2>2, <2>5
  <2>11. Through(AsTold, ToldOf(b)') = heard'[b] \o (u \o Append(w, h))
    BY <1>5, <2>1, <2>3, <2>6, <2>9
  <2>12. conn'[b] \notin {"none", "wait"}
    BY <1>3
  <2> QED
    BY <2>8, <2>10, <2>11, <2>12 DEF DownRead, Awaited
<1>11. ASSUME NEW c \in Browsers \ {b} PROVE DownRead(c)'
  <2>1. DownRead(c) /\ heard'[c] = heard[c]
    BY <1>5 DEF DownReadAll
  <2>2. ToldOf(c)' = ToldOf(c) /\ Waiting(c)' = Waiting(c)
    BY <1>9
  <2> QED
    BY <1>3, <1>8, <2>1, <2>2, DownReadSame
<1> QED
  BY <1>10, <1>11 DEF DownReadAll

(* The frames some messages make say what the messages do. *)
LEMMA FramesSay ==
  ASSUME NEW ms \in Seq(DownMessage)
  PROVE  /\ AsFrames(ms) \in Seq(PageFrame)
         /\ AsFrames(ms) \in Seq(Telling)
         /\ Picked(AsFrames(ms), Telling) = AsFrames(ms)
         /\ Through(AsComing, AsFrames(ms)) = Through(AsWaiting, ms)
PROOF
<1>1. PICK fs, n : fs = AsFrames(ms) /\ n = Len(ms)
  OBVIOUS
<1>2. /\ n \in Nat
      /\ fs \in Seq(PageFrame)
      /\ Len(fs) = n
      /\ \A k \in 1..n : fs[k] = [opcode |-> "BINARY", bytes |-> ms[k].bytes]
  BY <1>1, AsFramesType
<1>3. \A k \in 1..n : fs[k] \in Telling /\ fs[k].bytes = ms[k].bytes /\ ms[k] \in DownMessage
  <2> SUFFICES ASSUME NEW k \in 1..n
               PROVE  fs[k] \in Telling /\ fs[k].bytes = ms[k].bytes /\ ms[k] \in DownMessage
    OBVIOUS
  <2>1. ms[k] \in DownMessage
    BY <1>1
  <2>2. fs[k] \in PageFrame
    BY <1>2
  <2>3. fs[k].opcode = "BINARY" /\ fs[k].bytes = ms[k].bytes
    BY <1>2
  <2> QED
    BY <2>1, <2>2, <2>3 DEF Telling
<1>4. Picked(fs, Telling) = fs
  BY <1>2, <1>3, PickedAll
<1>5. fs \in Seq(Telling)
  <2>1. Picked(fs, Telling) \in Seq(PageFrame \cap Telling)
    BY <1>2, PickedIn
  <2>2. PageFrame \cap Telling = Telling
    BY DEF Telling
  <2> QED
    BY <1>4, <2>1, <2>2
<1>6. PICK u, v : u = Through(AsComing, fs) /\ v = Through(AsWaiting, ms)
  OBVIOUS
<1>7. u \in Seq(Hearing) /\ Len(u) = n /\ \A k \in 1..n : u[k] = AsComing[fs[k]]
  <2>1. \A y \in Telling : AsComing[y] \in Hearing
    BY DownFunctions
  <2>2. ThroughElements(AsComing, fs, Hearing)
    BY <1>5, <2>1, ThroughType
  <2> QED
    BY <1>2, <1>6, <2>2 DEF ThroughElements
<1>8. v \in Seq(Hearing) /\ Len(v) = n /\ \A k \in 1..n : v[k] = AsWaiting[ms[k]]
  <2>1. \A y \in DownMessage : AsWaiting[y] \in Hearing
    BY DownFunctions
  <2>2. ThroughElements(AsWaiting, ms, Hearing)
    BY <2>1, ThroughType
  <2> QED
    BY <1>1, <1>6, <2>2 DEF ThroughElements
<1>9. \A k \in 1..n : u[k] = v[k]
  <2> SUFFICES ASSUME NEW k \in 1..n PROVE u[k] = v[k]
    OBVIOUS
  <2>1. AsComing[fs[k]] = Decode(PageSide, fs[k].bytes) /\ AsWaiting[ms[k]] = Decode(PageSide, ms[k].bytes)
    BY <1>3, DownFunctions
  <2>2. fs[k].bytes = ms[k].bytes
    BY <1>3
  <2> QED
    BY <1>7, <1>8, <2>1, <2>2
<1>10. u = v
  BY <1>2, <1>7, <1>8, <1>9, SeqEqual
<1> QED
  BY <1>1, <1>2, <1>4, <1>5, <1>6, <1>10

(* What the front hands on keeps its order, for every browser.             *)
LEMMA SendToClientDown == ASSUME WireKept, DownReadAll, SendToClient PROVE DownReadAll'
PROOF
<1>1. UNCHANGED <<heard, told, conn>>
  BY DEF SendToClient, pageVars
<1>2. PICK first : /\ first \in Seq(DownMessage)
                   /\ DownMessages = first \o DownMessages'
                   /\ \A b \in Browsers :
                        toBrowser'[b] = IF conn[b] \in {"ping", "pong"}
                                          THEN toBrowser[b] \o AsFrames(Picked(first, ForBrowser(b)))
                                          ELSE toBrowser[b]
  BY SendToClientKept
<1>3. DownMessages' \in Seq(DownMessage)
  <2>1. WireKept'
    BY SendToClientKept
  <2> QED
    BY <2>1 DEF WireKept, Framed, DownKept, Stream, DownMessages
<1> SUFFICES ASSUME NEW b \in Browsers PROVE DownRead(b)'
  BY DEF DownReadAll
<1>4. PICK ms : ms = Picked(first, ForBrowser(b))
  OBVIOUS
<1>5. ms \in Seq(DownMessage)
  BY <1>2, <1>4, PickedType
<1>6. PICK w : w = Waiting(b)'
  OBVIOUS
<1>7. w \in Seq(DownMessage) /\ Waiting(b) = ms \o w
  <2>1. PICK rest : rest = DownMessages'
    OBVIOUS
  <2>2. rest \in Seq(DownMessage)
    BY <1>3, <2>1
  <2>3. w = Picked(rest, ForBrowser(b))
    BY <1>6, <2>1 DEF Waiting
  <2>4. w \in Seq(DownMessage)
    BY <2>2, <2>3, PickedType
  <2>5. first \in Seq(DownMessage)
    BY <1>2
  <2>6. Picked(first \o rest, ForBrowser(b)) = Picked(first, ForBrowser(b)) \o Picked(rest, ForBrowser(b))
    BY <2>2, <2>5, PickedConcat
  <2>7. DownMessages = first \o rest
    BY <1>2, <2>1
  <2> QED
    BY <1>4, <2>3, <2>4, <2>6, <2>7 DEF Waiting
<1>8. DownRead(b) /\ heard'[b] = heard[b] /\ ToldOf(b)' = ToldOf(b)
  BY <1>1 DEF DownReadAll, ToldOf
<1>9. CASE conn[b] = "closed"
  BY <1>1, <1>8, <1>9, DownReadSame
<1>10. CASE conn[b] \in {"none", "wait"}
  <2>1. Coming(b)' = Coming(b)
    BY <1>2, <1>10 DEF Coming
  <2>2. Waiting(b) = <<>>
    <3>1. ToldOf(b) = <<>> /\ Through(AsTold, <<>>) = <<>>
      BY <1>8, <1>10, ThroughNothing DEF DownRead
    <3>2. PICK u, v : u = Through(AsComing, Coming(b)) /\ v = Through(AsWaiting, Waiting(b))
      OBVIOUS
    <3>3. heard[b] \o (u \o v) = <<>>
      BY <1>8, <1>10, <3>1, <3>2 DEF DownRead, Awaited, Unheard
    <3>4. heard[b] \in Seq(Hearing) /\ u \in Seq(Hearing) /\ v \in Seq(Hearing)
      BY <3>2, DownTypes
    <3>5. v = <<>>
      <4>1. u \o v \in Seq(Hearing)
        BY <3>4
      <4>2. u \o v = <<>>
        BY <3>3, <3>4, <4>1, ConcatEqualIffEmpty
      <4> QED
        BY <3>4, <4>2, ConcatEqualIffEmpty
    <3>6. Waiting(b) \in Seq(DownMessage)
      BY DownTypes
    <3>7. Len(v) = Len(Waiting(b))
      <4>1. \A y \in DownMessage : AsWaiting[y] \in Hearing
        BY DownFunctions
      <4>2. ThroughElements(AsWaiting, Waiting(b), Hearing)
        BY <3>6, <4>1, ThroughType
      <4> QED
        BY <3>2, <4>2 DEF ThroughElements
    <3>8. Len(Waiting(b)) = 0
      BY <3>5, <3>7
    <3> QED
      BY <3>6, <3>8, EmptySeq
  <2>3. Waiting(b)' = Waiting(b)
    <3>1. ms \o w = <<>>
      BY <1>7, <2>2
    <3>2. w = <<>>
      BY <1>5, <1>7, <3>1, ConcatEqualIffEmpty
    <3> QED
      BY <1>6, <2>2, <3>2
  <2> QED
    BY <1>1, <1>8, <1>10, <2>1, <2>3, DownReadSame
<1>11. CASE conn[b] \in {"ping", "pong"}
  <2>1. PICK fs, a : fs = AsFrames(ms) /\ a = Through(AsWaiting, ms)
    OBVIOUS
  <2>2. /\ fs \in Seq(PageFrame) /\ fs \in Seq(Telling)
        /\ Picked(fs, Telling) = fs
        /\ Through(AsComing, fs) = a
    BY <1>5, <2>1, FramesSay
  <2>3. PICK z : z = Coming(b)
    OBVIOUS
  <2>4. z \in Seq(Telling) /\ toBrowser[b] \in Seq(PageFrame)
    BY <2>3, DownTypes
  <2>5. Coming(b)' = z \o fs
    <3>1. toBrowser'[b] = toBrowser[b] \o fs
      BY <1>2, <1>4, <1>11, <2>1
    <3>2. Picked(toBrowser[b] \o fs, Telling) = Picked(toBrowser[b], Telling) \o Picked(fs, Telling)
      <4>1. fs \in Seq(PageFrame) /\ toBrowser[b] \in Seq(PageFrame)
        BY <2>2, <2>4
      <4> QED
        BY <4>1, PickedConcat
    <3>3. Coming(b)' = Picked(toBrowser'[b], Telling)
      BY DEF Coming
    <3> QED
      BY <2>2, <2>3, <3>1, <3>2, <3>3 DEF Coming
  <2>6. PICK u, v : u = Through(AsComing, z) /\ v = Through(AsWaiting, w)
    OBVIOUS
  <2>7. u \in Seq(Hearing) /\ v \in Seq(Hearing) /\ a \in Seq(Hearing)
    <3>1. \A y \in Telling : AsComing[y] \in Hearing
      BY DownFunctions
    <3>2. \A y \in DownMessage : AsWaiting[y] \in Hearing
      BY DownFunctions
    <3>3. ThroughElements(AsComing, z, Hearing)
      BY <2>4, <3>1, ThroughType
    <3>4. ThroughElements(AsWaiting, w, Hearing) /\ ThroughElements(AsWaiting, ms, Hearing)
      BY <1>5, <1>7, <3>2, ThroughType
    <3> QED
      BY <2>1, <2>6, <3>3, <3>4 DEF ThroughElements
  <2>8. Unheard(b) = u \o (a \o v)
    <3>1. Through(AsWaiting, ms \o w) = Through(AsWaiting, ms) \o Through(AsWaiting, w)
      BY <1>5, <1>7, ThroughConcat
    <3> QED
      BY <1>7, <2>1, <2>3, <2>6, <3>1 DEF Unheard
  <2>9. Unheard(b)' = (u \o a) \o v
    <3>1. Unheard(b)' = Through(AsComing, Coming(b)') \o Through(AsWaiting, Waiting(b)')
      BY DEF Unheard
    <3>2. Through(AsComing, z \o fs) = Through(AsComing, z) \o Through(AsComing, fs)
      <4>1. fs \in Seq(Telling) /\ z \in Seq(Telling)
        BY <2>2, <2>4
      <4> QED
        BY <4>1, ThroughConcat
    <3> QED
      BY <1>6, <2>2, <2>5, <2>6, <3>1, <3>2
  <2>10. Unheard(b)' = Unheard(b)
    BY <2>7, <2>8, <2>9, ConcatAssociative
  <2>11. PICK r : Awaited(b, r) /\ r = Unheard(b)
    BY <1>8, <1>11 DEF DownRead
  <2>12. r \in Seq(Hearing) /\ Through(AsTold, ToldOf(b)') = heard'[b] \o r
    BY <1>8, <2>11 DEF Awaited
  <2> QED
    BY <1>1, <1>11, <2>10, <2>11, <2>12 DEF DownRead, Awaited
<1> QED
  <2>1. conn[b] \in {"none", "wait", "ping", "pong", "closed"}
    BY DEF WireKept, WireTypeOK
  <2> QED
    BY <1>9, <1>10, <1>11, <2>1

(* No step changes the order of what goes down.                            *)
LEMMA DownReadStep == ASSUME WireKept, DownReadAll, [WireNext]_wireVars PROVE DownReadAll'
PROOF
<1>1. CASE WireNext
  <2>1. ASSUME NEW b \in Browsers,
               \/ OpenSocket(b) \/ Say(b) \/ Hear(b) \/ GoSilent(b)
               \/ OnMessage(b) \/ SendPingTimer(b) \/ Deadline(b)
        PROVE  DownReadAll'
    BY <2>1, OpenSocketDown, SayDown, HearDown, GoSilentDown, OnMessageDown, SendPingTimerDown,
       DeadlineDown
  <2>2. CASE SendToClient
    BY <2>2, SendToClientDown
  <2>3. CASE CodecOnMessage
    BY <2>3, CodecOnMessageDown
  <2>4. CASE Tell
    BY <2>4, TellDown
  <2> QED
    BY <1>1, <2>1, <2>2, <2>3, <2>4 DEF WireNext
<1>2. CASE UNCHANGED wireVars
  <2>1. UNCHANGED <<heard, told, conn, toBrowser, frontBuff, downstream>>
    BY <1>2 DEF wireVars, pageVars, sockVars, downVars
  <2>2. DownMessages' = DownMessages /\ \A c \in Browsers : Coming(c)' = Coming(c)
    BY <2>1 DEF DownMessages, Coming
  <2> QED
    BY <2>1, <2>2, DownReadQuiet
<1> QED
  BY <1>1, <1>2

(* At first nothing is told.                                               *)
LEMMA DownReadInit == ASSUME WireInit PROVE DownReadAll
PROOF
<1> SUFFICES ASSUME NEW b \in Browsers PROVE DownRead(b)
  BY DEF DownReadAll
<1>1. DownMessages = <<>>
  BY WireInitKept
<1>2. heard[b] = <<>> /\ told = <<>> /\ toBrowser[b] = <<>>
  BY DEF WireInit
<1>3. /\ Through(AsTold, <<>>) = <<>>
      /\ Through(AsComing, <<>>) = <<>>
      /\ Through(AsWaiting, <<>>) = <<>>
  BY ThroughNothing
<1>4. ToldOf(b) = <<>> /\ Coming(b) = <<>> /\ Waiting(b) = <<>>
  BY <1>1, <1>2, PickedEmpty DEF ToldOf, Coming, Waiting
<1>5. <<>> \in Seq(Hearing)
  OBVIOUS
<1>6. PICK e \in Seq(Hearing) : e = <<>>
  BY <1>5
<1>7. e \o e = e
  BY <1>6
<1>8. Unheard(b) = e
  BY <1>3, <1>4, <1>6, <1>7 DEF Unheard
<1>9. Awaited(b, e)
  BY <1>2, <1>3, <1>4, <1>6, <1>7 DEF Awaited
<1> QED
  BY <1>4, <1>8, <1>9 DEF DownRead

(* The first of what browser b was told is what it has heard. *)
LEMMA DownIsUnderstood ==
  ASSUME WireKept, DownReadAll, NEW b \in Browsers
  PROVE  /\ Len(heard[b]) <= Len(ToldTo(b))
         /\ \A k \in DOMAIN heard[b] : Understood(ToldTo(b)[k], heard[b][k])
PROOF
<1>1. told \in Seq(Saying) /\ ToldOf(b) \in Seq(Saying) /\ heard[b] \in Seq(Hearing)
  BY DownTypes
<1>2. PICK ts, q : ts = ToldOf(b) /\ q = heard[b]
  OBVIOUS
<1>3. ts = Picked(told, {t \in ToSet(told) : t[1] = b})
  <2>1. \A k \in 1..Len(told) : told[k] \in {t \in ToSet(told) : t[1] = b} <=> told[k] \in SaidTo(b)
    BY <1>1 DEF ToSet, SaidTo
  <2> QED
    BY <1>1, <1>2, <2>1, PickedSame DEF ToldOf
<1>4. ToldTo(b) = [k \in DOMAIN ts |-> ts[k][2]]
  BY <1>3 DEF ToldTo
<1>5. PICK n \in Nat : n = Len(ts) /\ DOMAIN ts = 1..n /\ \A k \in 1..n : ts[k] \in Saying
  BY <1>1, <1>2
<1>6. PICK t : t = Through(AsTold, ts)
  OBVIOUS
<1>7. Len(t) = n /\ \A k \in 1..n : t[k] = Decode(PageSide, Encode(ProtoSide, ts[k][2]))
  <2>1. \A y \in Saying : AsTold[y] \in Hearing
    BY DownFunctions
  <2>2. ThroughElements(AsTold, ts, Hearing)
    BY <1>1, <1>2, <2>1, ThroughType
  <2>3. Len(t) = n /\ \A k \in 1..n : t[k] = AsTold[ts[k]]
    BY <1>5, <1>6, <2>2 DEF ThroughElements
  <2>4. \A k \in 1..n : AsTold[ts[k]] = Decode(PageSide, Encode(ProtoSide, ts[k][2]))
    BY <1>5, DownFunctions
  <2> QED
    BY <2>3, <2>4
<1>8. PICK r : r \in Seq(Hearing) /\ t = q \o r
  BY <1>2, <1>6 DEF DownReadAll, DownRead, Awaited
<1>9. PICK i \in Nat : i = Len(q) /\ DOMAIN q = 1..i
  BY <1>1, <1>2
<1>10. i <= n /\ \A k \in 1..i : q[k] = t[k]
  <2>1. PICK j \in Nat : j = Len(r)
    BY <1>8
  <2>2. q \in Seq(Hearing)
    BY <1>1, <1>2
  <2>3. /\ Len(q \o r) = Len(q) + Len(r)
        /\ \A k \in 1..Len(q) : (q \o r)[k] = q[k]
    BY <1>8, <2>2, Joined
  <2>4. n = i + j
    BY <1>7, <1>8, <1>9, <2>1, <2>3
  <2>5. \A k \in 1..i : t[k] = q[k]
    BY <1>8, <1>9, <2>3
  <2> QED
    BY <2>4, <2>5
<1>11. ASSUME NEW k \in 1..i PROVE Understood(ToldTo(b)[k], q[k])
  <2>1. k \in 1..n
    BY <1>10
  <2>2. PICK m \in CenterTalk : m = ts[k][2]
    BY <1>5, <2>1 DEF Saying
  <2>3. q[k] = Decode(PageSide, Encode(ProtoSide, m))
    BY <1>7, <1>10, <2>1, <2>2
  <2>4. ToldTo(b)[k] = m
    BY <1>4, <1>5, <2>1, <2>2
  <2>5. Understood(m, Decode(PageSide, Encode(ProtoSide, m)))
    BY CenterIsUnderstood
  <2> QED
    BY <2>3, <2>4, <2>5
<1>12. Len(ToldTo(b)) = n
  BY <1>4, <1>5
<1> QED
  BY <1>2, <1>9, <1>10, <1>11, <1>12

(* For any browsers, scripts and cuts into reads: the k-th message that is *)
(* handled from a browser is the k-th its page said, the k-th a page hears *)
(* is the k-th it was told, and every field that was set has its value     *)
(* (onMessage, sendToClient, ProtobufCodec, cchess_proto.js).              *)
THEOREM ReadAsWrittenAlways == WireSpec => []ReadAsWritten
PROOF
<1> DEFINE ReadKept == WireKept /\ UpReadAll /\ DownReadAll
<1>1. WireInit => ReadKept
  BY WireInitKept, UpReadInit, DownReadInit DEF WireKept
<1>2. ReadKept /\ [WireNext]_wireVars => ReadKept'
  BY WireStepKept, UpReadStep, DownReadStep
<1>3. ReadKept => ReadAsWritten
  BY UpIsUnderstood, DownIsUnderstood DEF ReadAsWritten
<1> HIDE DEF ReadKept
<1> QED
  BY <1>1, <1>2, <1>3, PTL DEF WireSpec
=============================================================================
