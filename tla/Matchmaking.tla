----------------------------- MODULE Matchmaking -----------------------------
(***************************************************************************)
(* The match server and the part of the center server that deals with it,  *)
(* over the one connection between them: a FIFO channel each way.  Of the  *)
(* center only the state of an Entry counts here; CenterServer has the     *)
(* rest.  A user that leaves while it waits is one that cancels: the       *)
(* center sends the same message, and a new login makes it kOnline again.  *)
(***************************************************************************)
EXTENDS MatchServer, Sequences

CONSTANTS
  MaxCancels,  \* bound on how often users cancel or leave while they wait
  MayHurry,    \* a game may be over before the worker that made it goes on
  MaxUnderWay  \* bound on the messages under way each way

ASSUME MatchmakingAssumption ==
  MaxCancels \in Nat /\ MayHurry \in BOOLEAN /\ MaxUnderWay \in Nat

VARIABLES
  state,     \* Entry::state_
  asked,     \* the pattern each user asked for last
  game,      \* the answer each user's game was made from
  cancels,   \* how often a user has cancelled or left
  toMatch,   \* requests under way
  toCenter   \* answers under way

centerVars == <<state, asked, game, cancels>>
vars == <<matchVars, centerVars, toMatch, toCenter>>

Messages == [kind : {"ask"}, user : Users, type : RoomTypes, score : Scores]
            \cup [kind : {"cancel"}, user : Users]

MatchmakingTypeOK ==
  /\ TypeOK
  /\ state \in [Users -> {"kOnline", "kMatching", "kPlaying"}]
  /\ asked \in [Users -> RoomTypes \cup {Nil}]
  /\ game \in [Users -> Response \cup {Nil}]
  /\ cancels \in 0..MaxCancels
  /\ toMatch \in Seq(Messages) /\ Len(toMatch) <= MaxUnderWay
  /\ toCenter \in Seq(Response) /\ Len(toCenter) <= MaxUnderWay
  /\ \A u \in Users : game[u] # Nil <=> state[u] = "kPlaying"

Link == \E c \in Conns : conn = c /\ conns = {c}

MatchmakingInit ==
  /\ MatchInit /\ Link
  /\ state = [u \in Users |-> "kOnline"]
  /\ asked = [u \in Users |-> Nil]
  /\ game = [u \in Users |-> Nil]
  /\ cancels = 0
  /\ toMatch = <<>> /\ toCenter = <<>>

-----------------------------------------------------------------------------
(* The center.                                                             *)

ToMatch(m) ==
  /\ Len(toMatch) < MaxUnderWay
  /\ toMatch' = Append(toMatch, m)

Request(u, type, score) ==
  ToMatch([kind |-> "ask", user |-> u, type |-> type, score |-> score])

\* onMatchRequest
AskMatch(u, type, score) ==
  /\ state[u] = "kOnline"
  /\ Request(u, type, score)
  /\ state' = [state EXCEPT ![u] = "kMatching"]
  /\ asked' = [asked EXCEPT ![u] = type]
  /\ UNCHANGED <<matchVars, game, cancels, toCenter>>

\* onCancelMatchRequest; onDisconnected of a user that waits.
CancelMatch(u) ==
  /\ cancels < MaxCancels
  /\ state[u] = "kMatching"
  /\ ToMatch([kind |-> "cancel", user |-> u])
  /\ state' = [state EXCEPT ![u] = "kOnline"]
  /\ cancels' = cancels + 1
  /\ UNCHANGED <<matchVars, asked, game, toCenter>>

\* Both users an answer names wait for a game.
FirstFits(a) == state[a.red] = "kMatching"
Fits(a) == state[a.red] = "kMatching" /\ state[a.black] = "kMatching"

\* onMatchBackendResponse: an answer that no longer fits is dropped.
Answer ==
  /\ toCenter # <<>>
  /\ toCenter' = Tail(toCenter)
  /\ LET a == Head(toCenter)
     IN  IF Fits(a)
           THEN /\ state' = [state EXCEPT ![a.red] = "kPlaying", ![a.black] = "kPlaying"]
                /\ game' = [game EXCEPT ![a.red] = a, ![a.black] = a]
           ELSE UNCHANGED <<state, game>>
  /\ UNCHANGED <<matchVars, asked, cancels, toMatch>>

\* A worker has told the center of these users and not yet forgotten them.
Lingering(u) == \E t \in RoomTypes : pc[t] = "erase" /\ u \in {user1[t].user, user2[t].user}

\* gameOver
GameOver(u) ==
  /\ state[u] = "kPlaying"
  /\ MayHurry \/ ~(Lingering(game[u].red) \/ Lingering(game[u].black))
  /\ LET two == {game[u].red, game[u].black}
     IN  /\ state' = [w \in Users |-> IF w \in two THEN "kOnline" ELSE state[w]]
         /\ game' = [w \in Users |-> IF w \in two THEN Nil ELSE game[w]]
  /\ UNCHANGED <<matchVars, asked, cancels, toMatch, toCenter>>

-----------------------------------------------------------------------------
(* The match server.                                                       *)

Deliver ==
  /\ toMatch # <<>>
  /\ toMatch' = Tail(toMatch)
  /\ LET m == Head(toMatch)
     IN  \/ m.kind = "ask" /\ OnMatchRequest(m.user, m.type, m.score)
         \/ m.kind = "cancel" /\ OnCancelMatchRequest(m.user)
  /\ UNCHANGED <<centerVars, toCenter>>

Run(step) ==
  /\ step
  /\ answer' # Nil => Len(toCenter) < MaxUnderWay
  /\ toCenter' = IF answer' = Nil THEN toCenter ELSE Append(toCenter, answer')
  /\ UNCHANGED <<centerVars, toMatch>>

RunLoop == Run(Push \/ Return)
RunWorker(t) == Run(Work(t))

MatchmakingNext ==
  \/ \E u \in Users, type \in RoomTypes, score \in Scores : AskMatch(u, type, score)
  \/ \E u \in Users : CancelMatch(u) \/ GameOver(u)
  \/ Answer \/ Deliver \/ RunLoop
  \/ \E t \in RoomTypes : RunWorker(t)

MatchmakingSpec == MatchmakingInit /\ [][MatchmakingNext]_vars

\* Both loops, the channels and the workers go on.
FairMatchmakingSpec ==
  /\ MatchmakingSpec
  /\ WF_vars(Answer) /\ WF_vars(Deliver) /\ WF_vars(RunLoop)
  /\ \A t \in RoomTypes : WF_vars(RunWorker(t))

-----------------------------------------------------------------------------
(* Properties.                                                             *)

\* A user the center has waiting is known to the match server, or will be
\* when the messages under way arrive, or an answer names it.
Named(u) == \E k \in DOMAIN toCenter : u \in {toCenter[k].red, toCenter[k].black}
Announced(u) == \E k \in DOMAIN toMatch : toMatch[k].kind = "ask" /\ toMatch[k].user = u
Known(u) == matchUserList[u] # Nil /\ Held(matchUserList[u]) /\ ~Lingering(u)
StillCounts(u) == Announced(u) \/ Known(u) \/ Named(u)

\* README: the match server pairs the users that wait.  So none of them is
\* forgotten, to wait until it gives up.
NobodyIsForgotten == \A u \in Users : state[u] = "kMatching" => StillCounts(u)

\* As long as nobody cancels, the two servers agree on who waits: none who
\* waits at the center is forgotten, and whoever counts at the match server
\* waits at the center, so that the opponent it is given gets a game
\* (onMatchRequest of both servers, theadRoutine, onMatchBackendResponse).
BothKnowWhoWaits ==
  cancels = 0 =>
    /\ NobodyIsForgotten
    /\ \A u \in Users : matchUserList[u] # Nil => state[u] = "kMatching" \/ Lingering(u)

\* Every game has the two players it was made for, each in that game and no
\* other: an answer that comes late, for a user that has cancelled or is in
\* another game by now, takes nobody out of a game (onMatchBackendResponse).
\* Its pattern is the one both asked for last, until somebody cancels; a late
\* answer may make a game of the pattern asked for before.
GamesAreWhole ==
  \A u \in Users : game[u] # Nil =>
    /\ u \in {game[u].red, game[u].black}
    /\ game[game[u].red] = game[u] /\ game[game[u].black] = game[u]
    /\ cancels = 0 => game[u].type = asked[u]

\* Two users that wait for the same pattern do not both wait for ever if nobody
\* ever cancels.  This is for three users: among more, two with lower scores
\* may come back again and again and be paired before them (onMatchRequest to
\* onMatchBackendResponse, by way of both workers).
WaitTogether(u, w) == state[u] = "kMatching" /\ state[w] = "kMatching" /\ asked[u] = asked[w]

SomeoneIsMatched ==
  [](cancels = 0) =>
    \A u, w \in Users : u # w => (WaitTogether(u, w) ~> ~WaitTogether(u, w))
=============================================================================
