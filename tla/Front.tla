-------------------------------- MODULE Front --------------------------------
(***************************************************************************)
(* The connection server (ws_connections_server.cc): it gives every browser*)
(* a connection id and carries messages between the browsers and the       *)
(* center, each with the id in front.                                      *)
(*                                                                         *)
(* Two threads share its variables without a lock.  The main loop runs the *)
(* callbacks of the one connection to the center (the backend), the other  *)
(* loop those of the browsers.  The callbacks that look at backendConn_    *)
(* before they go on, and the one that clears it, are split there; what two*)
(* threads do to one container at the same instant is beyond this module.  *)
(*                                                                         *)
(* CloseDoneQuietly, CloseDoneLeaks, ClearQuietly and ConnectUnlisted are  *)
(* variants with a plausible mistake; no action uses them.                 *)
(***************************************************************************)
EXTENDS Integers, Sequences, FiniteSets, SequencesExt

CONSTANTS
  Socks,      \* connections browsers make, each used once
  MaxConns,   \* kMaxConns: ids are 1..MaxConns
  Word,       \* ids travel as signed words: -Word .. Word-1
  MaxLosses,  \* bound on how often the backend connection breaks
  MaxUnderWay,\* bound on the messages under way each way
  Nil         \* null pointer, no id, absent map entry

ASSUME FrontAssumption ==
  /\ MaxConns \in Nat /\ Word \in Nat \ {0} /\ MaxConns < 2 * Word
  /\ MaxLosses \in Nat /\ MaxUnderWay \in Nat
  /\ Nil \notin Socks /\ Nil \notin Int

Ids == 1..MaxConns

\* static_cast<int16_t> and peekInt16.
Signed(id) == IF id < Word THEN id ELSE id - 2 * Word

VARIABLES
  sock,        \* of each browser: "new", "open", "gone"
  forced,      \* browsers that forceClose has been called for
  context,     \* the id its WebsocketConnection carries
  availIds,    \* availIds_, a queue
  clientConns, \* clientConns_: id -> browser
  backendConn, \* backendConn_ is set
  mainPc,      \* the main loop is "idle" or "clearing" after a loss
  ioPc,        \* Nil, or the browser whose close has seen a backend
  toBackend, fromBackend, \* messages under way
  up,          \* the process has not crashed
  losses,      \* backend connections lost so far
  got          \* the reply just handled: who it was for, who got it

ioVars == <<sock, forced, context, ioPc>>
pool == <<availIds, clientConns>>
channels == <<toBackend, fromBackend>>
vars == <<ioVars, pool, backendConn, mainPc, channels, up, losses, got>>

\* A message: the id as it travels, the browser that sent or asked for it,
\* and whether it is Disconnected.
Message == [id : {Signed(i) : i \in Ids}, from : Socks, bye : BOOLEAN]
Reply == [for : Socks, by : Socks \cup {Nil}]

TypeOK ==
  /\ sock \in [Socks -> {"new", "open", "gone"}]
  /\ forced \subseteq Socks
  /\ context \in [Socks -> Ids \cup {Nil}]
  /\ availIds \in Seq(Ids)
  /\ clientConns \in [Ids -> Socks \cup {Nil}]
  /\ backendConn \in BOOLEAN
  /\ mainPc \in {"idle", "clearing"}
  /\ ioPc \in Socks \cup {Nil}
  /\ toBackend \in Seq(Message) /\ fromBackend \in Seq(Message)
  /\ up \in BOOLEAN
  /\ losses \in 0..MaxLosses
  /\ got \in Reply \cup {Nil}
  /\ Len(toBackend) <= MaxUnderWay + Cardinality(Socks)
  /\ Len(fromBackend) <= MaxUnderWay

NoClients == clientConns = [i \in Ids |-> Nil]

Init ==
  /\ sock = [s \in Socks |-> "new"]
  /\ forced = {} /\ context = [s \in Socks |-> Nil]
  /\ availIds = <<>> /\ NoClients
  /\ backendConn = FALSE /\ mainPc = "idle" /\ ioPc = Nil
  /\ toBackend = <<>> /\ fromBackend = <<>>
  /\ up = TRUE /\ losses = 0 /\ got = Nil

Crash == up' = FALSE /\ UNCHANGED <<ioVars, pool, backendConn, mainPc, channels>>

-----------------------------------------------------------------------------
(* The loop of the browsers.                                               *)

IoIdle == up /\ ioPc = Nil

ConnectUnlisted(s) ==
  /\ IoIdle /\ sock[s] = "new" /\ availIds # <<>>
  /\ sock' = [sock EXCEPT ![s] = "open"]
  /\ context' = [context EXCEPT ![s] = Head(availIds)]
  /\ availIds' = Tail(availIds)
  /\ got' = Nil
  /\ UNCHANGED <<forced, ioPc, clientConns, backendConn, mainPc, channels, up, losses>>

\* onClientConnection, connected: without an id to give, force close.
Connect(s) ==
  /\ IoIdle /\ sock[s] = "new"
  /\ IF availIds = <<>>
       THEN /\ sock' = [sock EXCEPT ![s] = "gone"]
            /\ UNCHANGED <<context, pool>>
       ELSE /\ sock' = [sock EXCEPT ![s] = "open"]
            /\ context' = [context EXCEPT ![s] = Head(availIds)]
            /\ clientConns' = [clientConns EXCEPT ![Head(availIds)] = s]
            /\ availIds' = Tail(availIds)
  /\ got' = Nil
  /\ UNCHANGED <<forced, ioPc, backendConn, mainPc, channels, up, losses>>

\* onClientMessage: nothing tells whether there is a backend to send to.
ClientMessage(s) ==
  /\ IoIdle /\ sock[s] = "open"
  /\ Len(toBackend) < MaxUnderWay
  /\ IF backendConn
       THEN /\ toBackend' = Append(toBackend,
                              [id |-> Signed(context[s]), from |-> s, bye |-> FALSE])
            /\ UNCHANGED <<ioVars, pool, backendConn, mainPc, fromBackend, up>>
       ELSE Crash
  /\ got' = Nil /\ UNCHANGED losses

Gone(s) == sock' = [sock EXCEPT ![s] = "gone"] /\ context' = [context EXCEPT ![s] = Nil]

\* onClientConnection, closed: the browser has left, or was forced to.  With
\* no backend the code asserts that there are no ids and no clients.  A build
\* with asserts ends there when there are some; the release build of the
\* README goes on, the browser gone and the containers as they are.
Close(s) ==
  /\ IoIdle /\ sock[s] = "open"
  /\ \/ /\ backendConn
        /\ ioPc' = s
        /\ UNCHANGED <<sock, context, up>>
     \/ /\ ~backendConn
        /\ Gone(s)
        /\ UNCHANGED <<ioPc, up>>
     \/ /\ ~backendConn /\ ~(availIds = <<>> /\ NoClients)
        /\ up' = FALSE
        /\ UNCHANGED <<sock, context, ioPc>>
  /\ got' = Nil
  /\ UNCHANGED <<forced, pool, backendConn, mainPc, channels, losses>>

Bye(s) == Append(toBackend, [id |-> Signed(context[s]), from |-> s, bye |-> TRUE])

CloseDoneQuietly ==
  /\ up /\ ioPc # Nil
  /\ availIds' = Append(availIds, context[ioPc])
  /\ clientConns' = [clientConns EXCEPT ![context[ioPc]] = Nil]
  /\ Gone(ioPc) /\ ioPc' = Nil /\ got' = Nil
  /\ UNCHANGED <<forced, toBackend, fromBackend, up, backendConn, mainPc, losses>>

CloseDoneLeaks ==
  /\ up /\ ioPc # Nil
  /\ clientConns' = [clientConns EXCEPT ![context[ioPc]] = Nil]
  /\ toBackend' = Bye(ioPc)
  /\ Gone(ioPc) /\ ioPc' = Nil /\ got' = Nil
  /\ UNCHANGED <<forced, availIds, up, fromBackend, backendConn, mainPc, losses>>

\* The id back into the queue, Disconnected to the center.
CloseDone ==
  /\ up /\ ioPc # Nil
  /\ availIds' = Append(availIds, context[ioPc])
  /\ clientConns' = [clientConns EXCEPT ![context[ioPc]] = Nil]
  /\ IF backendConn THEN toBackend' = Bye(ioPc) /\ UNCHANGED up
                    ELSE up' = FALSE /\ UNCHANGED toBackend
  /\ Gone(ioPc) /\ ioPc' = Nil /\ got' = Nil
  /\ UNCHANGED <<forced, fromBackend, backendConn, mainPc, losses>>

-----------------------------------------------------------------------------
(* The main loop.                                                          *)

MainIdle == up /\ mainPc = "idle"

Fill == [k \in Ids |-> k]

\* onBackendConnection, connected.
BackendUp ==
  /\ MainIdle /\ ~backendConn
  /\ IF availIds = <<>>
       THEN /\ backendConn' = TRUE
            /\ availIds' = Fill
            /\ UNCHANGED <<clientConns, ioVars, mainPc, channels, up>>
       ELSE Crash
  /\ got' = Nil /\ UNCHANGED losses

\* onBackendConnection, closed: first backendConn_ is reset, then the clients
\* are told to close and both containers are emptied.  What was under way is
\* lost.
BackendDown ==
  /\ MainIdle /\ backendConn /\ losses < MaxLosses
  /\ backendConn' = FALSE
  /\ mainPc' = "clearing"
  /\ toBackend' = <<>> /\ fromBackend' = <<>>
  /\ losses' = losses + 1
  /\ got' = Nil
  /\ UNCHANGED <<ioVars, pool, up>>

EmptyPool ==
  /\ availIds' = <<>>
  /\ clientConns' = [i \in Ids |-> Nil]
  /\ mainPc' = "idle"
  /\ got' = Nil
  /\ UNCHANGED <<sock, context, ioPc, backendConn, channels, up, losses>>

Clear ==
  /\ up /\ mainPc = "clearing"
  /\ forced' = forced \cup {clientConns[i] : i \in {j \in Ids : clientConns[j] # Nil}}
  /\ EmptyPool

\* Whose connection a reply with this id is sent on; none if the id is
\* negative or nobody has it.
Receiver(id) == IF id >= 0 /\ id \in Ids THEN clientConns[id] ELSE Nil

\* onBackendMessage, sendToClient.
BackendMessage ==
  /\ MainIdle /\ backendConn /\ fromBackend # <<>>
  /\ fromBackend' = Tail(fromBackend)
  /\ got' = [for |-> Head(fromBackend).from, by |-> Receiver(Head(fromBackend).id)]
  /\ UNCHANGED <<ioVars, pool, backendConn, mainPc, toBackend, up, losses>>

\* The center answers a message under the id that came with it.
Serve ==
  /\ up /\ toBackend # <<>>
  /\ toBackend' = Tail(toBackend)
  /\ \/ /\ ~Head(toBackend).bye
        /\ Len(fromBackend) < MaxUnderWay
        /\ fromBackend' = Append(fromBackend, Head(toBackend))
     \/ Head(toBackend).bye /\ UNCHANGED fromBackend
  /\ got' = Nil
  /\ UNCHANGED <<ioVars, pool, backendConn, mainPc, up, losses>>

Next ==
  \/ \E s \in Socks : Connect(s) \/ ClientMessage(s) \/ Close(s)
  \/ CloseDone \/ BackendUp \/ BackendDown \/ Clear \/ BackendMessage \/ Serve

Spec == Init /\ [][Next]_vars

\* Both loops run: the main loop finishes its callback, the other one closes
\* what it was told to close.
FairSpec ==
  /\ Spec
  /\ WF_vars(Clear) /\ WF_vars(CloseDone)
  /\ \A s \in Socks : WF_vars(s \in forced /\ Close(s))

-----------------------------------------------------------------------------
(* Properties.                                                             *)

Open == {s \in Socks : sock[s] = "open"}

\* While the first backend connection lasts every id is in exactly one place:
\* once in the queue or with the one browser that is found under it.  No
\* sequence of arrivals and departures loses an id or hands it out twice
\* (onClientConnection, onBackendConnection).
PoolIsWhole ==
  backendConn /\ losses = 0 =>
    /\ ToSet(availIds) \cap {context[s] : s \in Open} = {}
    /\ ToSet(availIds) \cup {context[s] : s \in Open} = Ids
    /\ Len(availIds) + Cardinality(Open) = MaxConns
    /\ \A i \in Ids : clientConns[i] # Nil
                        => sock[clientConns[i]] = "open" /\ context[clientConns[i]] = i

\* What the center needs of an id that is used again: on the way to it the
\* last message of one owner is its Disconnected, and the next owner's
\* messages come after it, up to the first loss of the backend connection
\* (onClientConnection, sendBackendMessage).
DisconnectedFirst ==
  \A j, k \in DOMAIN toBackend :
    losses = 0 /\ j < k /\ toBackend[j].id = toBackend[k].id /\ toBackend[j].from # toBackend[k].from
      => \E m \in j..(k - 1) : /\ toBackend[m].bye
                               /\ toBackend[m].id = toBackend[j].id
                               /\ toBackend[m].from = toBackend[j].from

\* Up to the first loss a reply to a browser that is still there reaches it
\* and nobody else, if its id fits the signed word it travels in, and nobody
\* at all if it does not (sendBackendMessage, onClientMessage, sendToClient).
RepliesArrive ==
  losses = 0 /\ got # Nil /\ sock[got.for] = "open"
    => got.by = IF context[got.for] < Word THEN got.for ELSE Nil

=============================================================================
