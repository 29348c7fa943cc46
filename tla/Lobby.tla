------------------------------- MODULE Lobby -------------------------------
(***************************************************************************)
(* What the center server promises, without connection ids, maps, clocks   *)
(* or messages: where each user is, against whom it plays and who is on    *)
(* the move.  A game has two seats that are taken together and given up    *)
(* together; a player who is away keeps the seat, and leaves with it.      *)
(* CenterSession implements it (ImplementsLobby).                          *)
(***************************************************************************)
CONSTANTS Users, Nil

Places == {"none", "kOnline", "kMatching", "kPlaying", "kDisconnecteInPlaying"}
Seat == [opp : Users, onMove : BOOLEAN]

VARIABLES
  place,  \* where each user is
  seat    \* its seat in a game, or Nil

vars == <<place, seat>>

Init ==
  /\ place = [u \in Users |-> "none"]
  /\ seat = [u \in Users |-> Nil]

Goes(u, from, to) ==
  /\ place[u] = from
  /\ place' = [place EXCEPT ![u] = to]
  /\ UNCHANGED seat

Enter(u) == Goes(u, "none", "kOnline")
Leave(u) == Goes(u, "kOnline", "none") \/ Goes(u, "kMatching", "none")
Seek(u) == Goes(u, "kOnline", "kMatching")
Cancel(u) == Goes(u, "kMatching", "kOnline")
Drop(u) == Goes(u, "kPlaying", "kDisconnecteInPlaying")
Return(u) == Goes(u, "kDisconnecteInPlaying", "kPlaying")

\* Two who look for an opponent sit down; r has the first move.
Pair(r, b) ==
  /\ r # b
  /\ place[r] = "kMatching" /\ place[b] = "kMatching"
  /\ place' = [place EXCEPT ![r] = "kPlaying", ![b] = "kPlaying"]
  /\ seat' = [seat EXCEPT ![r] = [opp |-> b, onMove |-> TRUE],
                          ![b] = [opp |-> r, onMove |-> FALSE]]

Opponents(u, o) == seat[u] # Nil /\ seat[u].opp = o

\* u moves, or gives a move back.
PassTheMove(u, o) ==
  /\ Opponents(u, o)
  /\ seat[u].onMove
  /\ seat' = [seat EXCEPT ![u].onMove = FALSE, ![o].onMove = TRUE]
  /\ UNCHANGED place

AfterGame(u) == IF place[u] = "kPlaying" THEN "kOnline" ELSE "none"

End(u, o) ==
  /\ Opponents(u, o)
  /\ place' = [place EXCEPT ![u] = AfterGame(u), ![o] = AfterGame(o)]
  /\ seat' = [seat EXCEPT ![u] = Nil, ![o] = Nil]

Next ==
  \/ \E u \in Users : \/ Enter(u) \/ Leave(u) \/ Seek(u) \/ Cancel(u)
                      \/ Drop(u) \/ Return(u)
  \/ \E u, o \in Users : Pair(u, o) \/ PassTheMove(u, o) \/ End(u, o)

Spec == Init /\ [][Next]_vars
=============================================================================
