-------------------------------- MODULE Wire --------------------------------
(***************************************************************************)
(* What a message goes through between a page and the center server: a     *)
(* websocket frame to the front (WebsocketServer.cc), a message with the   *)
(* id of its connection on the one TCP stream the front shares among all   *)
(* browsers (ws_connections_server.cc), the codec at its end (codec.cc);   *)
(* and the same way back.  A stream has no message boundaries: a read      *)
(* takes any part of what has arrived.  A frame, or a message, is two      *)
(* pieces here, so that a read can end inside one.                         *)
(*                                                                         *)
(* The websocket server decodes one frame a read and keeps one timer a     *)
(* connection: the deadline of the handshake, then the time of the next    *)
(* ping, then the deadline of the pong.  A browser is identified with the  *)
(* id its connection gets.                                                 *)
(*                                                                         *)
(* HandleFrameLazily, ReadFrameAndForget and DeadlineOfHandshake are       *)
(* variants with a plausible mistake that no action uses.                  *)
(***************************************************************************)
EXTENDS Schema, FiniteSets, SequencesExt

CONSTANTS
  Browsers,
  MayFail,   \* browsers that may fall silent
  Scripts    \* what the pages and the center say: records with
             \* there (the browsers that take part),
             \* up (Browsers -> a sequence of messages) and
             \* down (a sequence of pairs of a browser and a message)

\* What the generated classes let a page or the center say; only what a page
\* says may be damaged.
ASSUME ScriptsAssumption ==
  /\ MayFail \subseteq Browsers
  /\ \A s \in Scripts :
       /\ s.there \subseteq Browsers
       /\ s.up \in [Browsers -> Seq(UNION {ToSet(s.up[b]) : b \in Browsers})]
       /\ \A b \in Browsers : \A m \in ToSet(s.up[b]) : Sayable(PageSide, m)
       /\ s.down \in Seq(ToSet(s.down))
       /\ \A k \in DOMAIN s.down : /\ s.down[k] = <<s.down[k][1], s.down[k][2]>>
                                  /\ s.down[k][1] \in Browsers
                                  /\ Sayable(ProtoSide, s.down[k][2])
                                  /\ s.down[k][2].type # "Disconnected"
                                  /\ ~s.down[k][2].damage

VARIABLES
  page,       \* what the browser does: "absent", "away", "opening", "open", "silent"
  toSay, said,         \* the messages its page has still to say, and has said
  heard,               \* what its page has understood, in order
  conn,       \* the front's connection: "none", "wait", "ping", "pong" (the
              \* timer that runs), "closed"
  toFront,    \* pieces of frames on their way to the front
  buff,       \* pieces the front has received and not decoded
  taken,      \* pieces decoded of the frame that is not complete
  toBrowser,  \* frames on their way to the browser
  upstream,   \* pieces on their way from the front to the center
  codecBuff,  \* pieces the center has received and not retrieved
  handled,    \* what the center has handled, in order: <<browser, message>>
  toTell, told,        \* what the center has still to say, and has said
  downstream, \* pieces on their way from the center to the front
  frontBuff   \* pieces the front has received and not retrieved

pageVars == <<page, toSay, said, heard>>
sockVars == <<conn, toFront, buff, taken, toBrowser>>
upVars == <<upstream, codecBuff, handled>>
downVars == <<toTell, told, downstream, frontBuff>>
wireVars == <<pageVars, sockVars, upVars, downVars>>

WireInit ==
  \E s \in Scripts :
    /\ page = [b \in Browsers |-> IF b \in s.there THEN "away" ELSE "absent"]
    /\ toSay = s.up
    /\ said = [b \in Browsers |-> <<>>]
    /\ heard = [b \in Browsers |-> <<>>]
    /\ conn = [b \in Browsers |-> "none"]
    /\ toFront = [b \in Browsers |-> <<>>]
    /\ buff = [b \in Browsers |-> <<>>]
    /\ taken = [b \in Browsers |-> 0]
    /\ toBrowser = [b \in Browsers |-> <<>>]
    /\ upstream = <<>>
    /\ codecBuff = <<>>
    /\ handled = <<>>
    /\ toTell = s.down
    /\ told = <<>>
    /\ downstream = <<>>
    /\ frontBuff = <<>>

-----------------------------------------------------------------------------
(* Messages as bytes: the name of the class, its fields and a checksum over*)
(* both (ProtobufMesssageEncode, fillEmptyBuffer; adler32 taken for an     *)
(* injection).  A message said with damage TRUE has another checksum.      *)

Encode(side, m) ==
  LET body == Write(side, m.type, m.data)
  IN  [name |-> m.type, body |-> body,
       sum |-> <<IF m.damage THEN "" ELSE m.type, body>>]

Parses(bytes) == bytes.sum = <<bytes.name, bytes.body>>
Decode(side, bytes) == [type |-> bytes.name, data |-> Read(side, bytes.name, bytes.body)]

Pieces(x) == <<x, x>>

\* The complete messages in a buffer, in order, and what is left without the
\* first n of them.
Whole(pieces) == [k \in 1..(Len(pieces) \div 2) |-> pieces[2 * k]]
Rest(pieces, n) == SubSeq(pieces, 2 * n + 1, Len(pieces))

\* The elements of a sequence that are in S, in their order.
Picked(seq, S) ==
  LET picked[n \in 0..Len(seq)] ==
        IF n = 0 THEN <<>>
        ELSE IF seq[n] \in S THEN Append(picked[n - 1], seq[n]) ELSE picked[n - 1]
  IN  picked[Len(seq)]

-----------------------------------------------------------------------------
(* The browser.                                                            *)

\* new WebSocket(config.address): the request for the handshake.
OpenSocket(b) ==
  /\ page[b] = "away"
  /\ page' = [page EXCEPT ![b] = "opening"]
  /\ conn' = [conn EXCEPT ![b] = "wait"]
  /\ toFront' = [toFront EXCEPT ![b] = Pieces([opcode |-> "HTTP"])]
  /\ UNCHANGED <<toSay, said, heard, buff, taken, toBrowser, upVars, downVars>>

\* sendMessage
Say(b) ==
  /\ page[b] = "open"
  /\ toSay[b] # <<>>
  /\ said' = [said EXCEPT ![b] = Append(@, Head(toSay[b]))]
  /\ toSay' = [toSay EXCEPT ![b] = Tail(@)]
  /\ toFront' = [toFront EXCEPT ![b] =
       @ \o Pieces([opcode |-> "BINARY", bytes |-> Encode(PageSide, Head(toSay[b]))])]
  /\ UNCHANGED <<page, heard, conn, buff, taken, toBrowser, upVars, downVars>>

\* The browser itself answers a ping; onmessage decodes the rest.
Hear(b) ==
  /\ page[b] \in {"opening", "open"}
  /\ toBrowser[b] # <<>>
  /\ toBrowser' = [toBrowser EXCEPT ![b] = Tail(@)]
  /\ LET f == Head(toBrowser[b])
     IN  \/ /\ f.opcode = "101"
            /\ page' = [page EXCEPT ![b] = "open"]
            /\ UNCHANGED <<heard, toFront>>
         \/ /\ f.opcode = "PING"
            /\ toFront' = [toFront EXCEPT ![b] = @ \o Pieces([opcode |-> "PONG"])]
            /\ UNCHANGED <<page, heard>>
         \/ /\ f.opcode = "BINARY"
            /\ heard' = IF Parses(f.bytes)
                          THEN [heard EXCEPT ![b] = Append(@, Decode(PageSide, f.bytes))]
                          ELSE heard
            /\ UNCHANGED <<page, toFront>>
  /\ UNCHANGED <<toSay, said, conn, buff, taken, upVars, downVars>>

\* The computer sleeps or loses its network: nothing is heard of it again.
GoSilent(b) ==
  /\ b \in MayFail
  /\ page[b] \in {"opening", "open"}
  /\ page' = [page EXCEPT ![b] = "silent"]
  /\ UNCHANGED <<toSay, said, heard, sockVars, upVars, downVars>>

-----------------------------------------------------------------------------
(* The front's websocket server.                                           *)

Send(b, f) == toBrowser' = [toBrowser EXCEPT ![b] = Append(@, f)]

\* prependInt16 and send; what comes from one browser joins the others'.
Forward(b, bytes) == upstream' = upstream \o Pieces([id |-> b, bytes |-> bytes])

HandleFrameLazily(b, f) ==
  /\ conn' = IF f.opcode = "BINARY" THEN conn ELSE [conn EXCEPT ![b] = "ping"]
  /\ \/ f.opcode = "HTTP" /\ Send(b, [opcode |-> "101"]) /\ UNCHANGED upstream
     \/ f.opcode = "PONG" /\ UNCHANGED <<toBrowser, upstream>>
     \/ f.opcode = "BINARY" /\ Forward(b, f.bytes) /\ UNCHANGED toBrowser

\* One frame; every one but a ping or a close starts the time to the next
\* ping afresh, whichever timer runs.
HandleFrame(b, f) ==
  /\ conn' = [conn EXCEPT ![b] = "ping"]
  /\ \/ f.opcode = "HTTP" /\ Send(b, [opcode |-> "101"]) /\ UNCHANGED upstream
     \/ f.opcode = "PONG" /\ UNCHANGED <<toBrowser, upstream>>
     \/ f.opcode = "BINARY" /\ Forward(b, f.bytes) /\ UNCHANGED toBrowser

ReadFrameAndForget(b, n) ==
  LET arrived == buff[b] \o SubSeq(toFront[b], 1, n)
      needed == 2 - taken[b]
  IN  IF Len(arrived) < needed
        THEN /\ taken' = [taken EXCEPT ![b] = @ + Len(arrived)]
             /\ buff' = [buff EXCEPT ![b] = <<>>]
             /\ UNCHANGED <<conn, toBrowser, upstream>>
        ELSE /\ taken' = [taken EXCEPT ![b] = 0]
             /\ buff' = [buff EXCEPT ![b] = <<>>]
             /\ HandleFrame(b, arrived[needed])

\* onMessage after a read of n pieces: decode to the end of one frame, or to
\* the end of what is there.
ReadFrame(b, n) ==
  LET arrived == buff[b] \o SubSeq(toFront[b], 1, n)
      needed == 2 - taken[b]
  IN  IF Len(arrived) < needed
        THEN /\ taken' = [taken EXCEPT ![b] = @ + Len(arrived)]
             /\ buff' = [buff EXCEPT ![b] = <<>>]
             /\ UNCHANGED <<conn, toBrowser, upstream>>
        ELSE /\ taken' = [taken EXCEPT ![b] = 0]
             /\ buff' = [buff EXCEPT ![b] = SubSeq(arrived, needed + 1, Len(arrived))]
             /\ HandleFrame(b, arrived[needed])

OnMessage(b) ==
  /\ conn[b] \in {"wait", "ping", "pong"}
  /\ \E n \in 1..Len(toFront[b]) :
       /\ ReadFrame(b, n)
       /\ toFront' = [toFront EXCEPT ![b] = SubSeq(@, n + 1, Len(@))]
  /\ UNCHANGED <<pageVars, codecBuff, handled, downVars>>

SendPingTimer(b) ==
  /\ conn[b] = "ping"
  /\ conn' = [conn EXCEPT ![b] = "pong"]
  /\ Send(b, [opcode |-> "PING"])
  /\ UNCHANGED <<pageVars, toFront, buff, taken, upVars, downVars>>

\* The deadlines are long enough for what is on its way: a ping and its pong
\* to travel (5 s), or the request for the handshake (20 s).
OnItsWay(b) ==
  \/ toFront[b] # <<>>
  \/ page[b] # "silent" /\ \E k \in DOMAIN toBrowser[b] : toBrowser[b][k].opcode = "PING"

\* As if sendPingTimer armed nothing.
DeadlineOfHandshake(b) ==
  /\ conn[b] = "wait"
  /\ ~OnItsWay(b)
  /\ conn' = [conn EXCEPT ![b] = "closed"]
  /\ UNCHANGED <<pageVars, toFront, buff, taken, toBrowser, upVars, downVars>>

\* responsePingTimer, or forceClose after waitConnTime_; the center hears of
\* it if the handshake was done (onClientConnection).
Deadline(b) ==
  /\ conn[b] \in {"wait", "pong"}
  /\ ~OnItsWay(b)
  /\ conn' = [conn EXCEPT ![b] = "closed"]
  /\ buff' = [buff EXCEPT ![b] = <<>>]
  /\ taken' = [taken EXCEPT ![b] = 0]
  /\ toBrowser' = [toBrowser EXCEPT ![b] = <<>>]
  /\ IF conn[b] = "pong"
       THEN Forward(b, Encode(ProtoSide, [type |-> "Disconnected", data |-> <<>>, damage |-> FALSE]))
       ELSE UNCHANGED upstream
  /\ UNCHANGED <<pageVars, toFront, codecBuff, handled, downVars>>

\* sendToClient: every complete message goes to the browser it names, if
\* that is still connected.
SendToClient ==
  \E n \in 1..Len(downstream) :
    LET arrived == frontBuff \o SubSeq(downstream, 1, n)
        whole == Whole(arrived)
        For(b) == Picked(whole, {x \in ToSet(whole) : x.id = b})
    IN  /\ downstream' = SubSeq(downstream, n + 1, Len(downstream))
        /\ frontBuff' = Rest(arrived, Len(whole))
        /\ toBrowser' = [b \in Browsers |->
             IF conn[b] \notin {"ping", "pong"} THEN toBrowser[b]
             ELSE toBrowser[b] \o [k \in DOMAIN For(b) |->
                                     [opcode |-> "BINARY", bytes |-> For(b)[k].bytes]]]
        /\ UNCHANGED <<pageVars, conn, toFront, buff, taken, upVars, toTell, told>>

-----------------------------------------------------------------------------
(* The center server.                                                      *)

\* ProtobufCodec::onMessage: handle what is complete, up to a message that
\* does not parse.  That one is not retrieved.
CodecOnMessage ==
  \E n \in 1..Len(upstream) :
    LET arrived == codecBuff \o SubSeq(upstream, 1, n)
        whole == Whole(arrived)
        good == {k \in 0..Len(whole) : \A j \in 1..k : Parses(whole[j].bytes)}
        most == CHOOSE k \in good : \A j \in good : j <= k
    IN  /\ upstream' = SubSeq(upstream, n + 1, Len(upstream))
        /\ codecBuff' = Rest(arrived, most)
        /\ handled' = handled \o [k \in 1..most |->
             <<whole[k].id, Decode(ProtoSide, whole[k].bytes)>>]
        /\ UNCHANGED <<pageVars, sockVars, downVars>>

\* ProtobufCodec::send
Tell ==
  /\ toTell # <<>>
  /\ LET b == Head(toTell)[1]
         m == Head(toTell)[2]
     IN  /\ conn[b] \in {"ping", "pong"}
         /\ told' = Append(told, Head(toTell))
         /\ toTell' = Tail(toTell)
         /\ downstream' = downstream \o Pieces([id |-> b, bytes |-> Encode(ProtoSide, m)])
  /\ UNCHANGED <<pageVars, sockVars, upVars, frontBuff>>

WireNext ==
  \/ \E b \in Browsers : \/ OpenSocket(b) \/ Say(b) \/ Hear(b) \/ GoSilent(b)
                         \/ OnMessage(b) \/ SendPingTimer(b) \/ Deadline(b)
  \/ SendToClient \/ CodecOnMessage \/ Tell

WireSpec == WireInit /\ [][WireNext]_wireVars

\* The loops read what has arrived and run their timers, and a browser that
\* is there answers.
WireFairSpec ==
  /\ WireSpec
  /\ \A b \in Browsers : /\ WF_wireVars(Hear(b))
                         /\ WF_wireVars(OnMessage(b))
                         /\ WF_wireVars(SendPingTimer(b))
                         /\ WF_wireVars(Deadline(b))
  /\ WF_wireVars(SendToClient)
  /\ WF_wireVars(CodecOnMessage)

-----------------------------------------------------------------------------
(* Properties.                                                             *)

\* What is read is what was written: the same message, and the same value in
\* every field that was set.
Understood(m, read) ==
  /\ read.type = m.type
  /\ \A f \in DOMAIN m.data : f \in DOMAIN read.data /\ read.data[f] = m.data[f]

HandledFrom(b) ==
  LET hs == Picked(handled, {h \in ToSet(handled) : h[1] = b /\ h[2].type # "Disconnected"})
  IN  [k \in DOMAIN hs |-> hs[k][2]]
ToldTo(b) == LET ts == Picked(told, {t \in ToSet(told) : t[1] = b}) IN [k \in DOMAIN ts |-> ts[k][2]]

\* The two sides understand each other: the k-th message the center handles
\* from a browser is the k-th its page said, the k-th a page hears is the
\* k-th it was told, field by field, however the streams are cut into reads
\* and whatever the others on the shared stream say (the codecs, the classes
\* of cchess_proto.js and cchess.proto, onMessage, sendToClient).
ReadAsWritten ==
  \A b \in Browsers :
    /\ Len(HandledFrom(b)) <= Len(said[b])
    /\ \A k \in DOMAIN HandledFrom(b) : Understood(said[b][k], HandledFrom(b)[k])
    /\ Len(heard[b]) <= Len(ToldTo(b))
    /\ \A k \in DOMAIN heard[b] : Understood(ToldTo(b)[k], heard[b][k])

\* A browser that answers its pings is never closed on: whatever waits in
\* its buffer, the frame decoded instead of its pong counts as well
\* (onMessage, sendPingTimer, responsePingTimer).
AnsweringIsKept == \A b \in Browsers : conn[b] = "closed" => page[b] = "silent"

\* A message no codec can parse has been said.
Damaged == \E b \in Browsers : \E k \in DOMAIN said[b] : said[b][k].damage

\* Every message is handled in the end, although a frame that shares a read
\* with another one stays in the buffer: the answer to the next ping brings
\* the read that decodes it.  Unless its connection is closed, or anybody's
\* damaged message blocks the stream all browsers share.
EveryMessageIsHandled ==
  \A b \in Browsers :
    said[b] # <<>> ~> (\/ Len(HandledFrom(b)) = Len(said[b])
                       \/ conn[b] = "closed"
                       \/ Damaged)

\* A browser that has fallen silent is given up, handshake or not.
SilentIsDropped == \A b \in Browsers : page[b] = "silent" ~> conn[b] = "closed"
=============================================================================
