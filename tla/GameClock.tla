------------------------------ MODULE GameClock ------------------------------
(***************************************************************************)
(* The time control of one game (RoomInfo, InGameInfo and the time helpers *)
(* of ServiceManager in center_server.cc).  CenterServer says which clock    *)
(* runs; this module says how long it runs and what is charged for it.     *)
(*                                                                         *)
(* The server keeps whole seconds and truncates every difference of two    *)
(* timestamps, so time passes here in ticks that are fractions of a second.*)
(* A timer may fire up to MaxLag ticks late, and whatever the event loop   *)
(* runs before it is served first.                                         *)
(***************************************************************************)
EXTENDS Integers

CONSTANTS
  GameTime, StepTime, EndStepTime,  \* of the room's pattern, in seconds
  TicksPerSecond,
  Start,     \* the tick the game starts at; a Timestamp never set is tick 0
  MaxLag,    \* ticks a timer may fire late
  MaxTime,   \* bound on the length of a game, in ticks
  MaxMoves   \* bound on the moves made, those taken back included

ASSUME ClockAssumption ==
  /\ GameTime \in Nat /\ StepTime \in Nat /\ EndStepTime \in Nat
  /\ EndStepTime <= StepTime /\ StepTime <= GameTime
  /\ TicksPerSecond \in Nat \ {0}
  /\ Start \in Nat \ {0}
  /\ MaxLag \in Nat /\ MaxTime \in Nat /\ MaxMoves \in Nat

Colors == {"kRed", "kBlack"}
Opp(c) == IF c = "kRed" THEN "kBlack" ELSE "kRed"

VARIABLES
  now,            \* Timestamp::now()
  totalSteps,     \* RoomInfo::totalSteps
  realStepTime,   \* RoomInfo::realStepTime, one for both players
  gameSpendTime,  \* InGameInfo::gameSpendTime of each player
  startTime,      \* InGameInfo::startTime of each player
  due,            \* when the armed timer expires
  over,           \* gameOver has been called
  \* What really happened, whatever the server makes of it:
  since,          \* when the player on the move got it
  used,           \* ticks each player has thought over the moves it made
  moves           \* moves each player made

clockVars == <<totalSteps, realStepTime, gameSpendTime, startTime, due, over>>
history == <<since, used, moves>>
timeVars == <<now, clockVars, history>>

\* isTurnToPlay
Turn == IF totalSteps % 2 = 0 THEN "kRed" ELSE "kBlack"

\* getStepSpendTime: the difference, as an int.
StepSpendTime(c) == (now - startTime[c]) \div TicksPerSecond

ClockTypeOK ==
  /\ now \in Nat /\ totalSteps \in Nat
  /\ realStepTime \in 0..StepTime
  /\ gameSpendTime \in [Colors -> Nat]
  /\ startTime \in [Colors -> Nat]
  /\ due \in Nat /\ over \in BOOLEAN
  /\ since \in Nat /\ used \in [Colors -> Nat] /\ moves \in [Colors -> Nat]

\* createRoom and startNewGame: only red's startTime is set.
ClockInit ==
  /\ now = Start
  /\ totalSteps = 0
  /\ realStepTime = StepTime
  /\ gameSpendTime = [c \in Colors |-> 0]
  /\ startTime = [c \in Colors |-> IF c = "kRed" THEN Start ELSE 0]
  /\ due = Start + StepTime * TicksPerSecond
  /\ over = FALSE
  /\ since = Start
  /\ used = [c \in Colors |-> 0]
  /\ moves = [c \in Colors |-> 0]

-----------------------------------------------------------------------------
Tick ==
  /\ ~over
  /\ now < due + MaxLag
  /\ now < Start + MaxTime
  /\ now' = now + 1
  /\ UNCHANGED <<clockVars, history>>

\* updateGameTime
Charge(c) == gameSpendTime' = [gameSpendTime EXCEPT ![c] = @ + StepSpendTime(c)]

\* updateRealStepTime, for a player that has spent so much: the step gets
\* shorter as the player's time runs out.  It is never set back.
RealStepTimeUncapped(spent) == IF spent >= GameTime THEN EndStepTime ELSE GameTime - spent
RealStepTime(spent) ==
  CASE spent >= GameTime -> EndStepTime
    [] spent < GameTime /\ GameTime - spent < StepTime -> GameTime - spent
    [] OTHER -> realStepTime

\* initStartGameTime and runAfter: o is on the move from now on.
StartClockOnly(o, step) ==
  /\ due' = now + step * TicksPerSecond
  /\ UNCHANGED startTime
StartClock(o, step) ==
  /\ startTime' = [startTime EXCEPT ![o] = now]
  /\ due' = now + step * TicksPerSecond

\* onMoveStep, a move that does not end the game.
Move(c) ==
  /\ ~over /\ c = Turn
  /\ moves["kRed"] + moves["kBlack"] < MaxMoves
  /\ Charge(c)
  /\ totalSteps' = totalSteps + 1
  /\ realStepTime' = RealStepTime(gameSpendTime'[c])
  /\ StartClock(Opp(c), realStepTime')
  /\ since' = now
  /\ used' = [used EXCEPT ![c] = @ + (now - since)]
  /\ moves' = [moves EXCEPT ![c] = @ + 1]
  /\ UNCHANGED <<now, over>>

\* onForgiveResponse: c, on the move, lets the opponent take its move back.
\* What c has thought so far is charged to nobody.
TakeBack(c) ==
  /\ ~over /\ c = Turn /\ totalSteps > 0
  /\ totalSteps' = totalSteps - 1
  /\ StartClock(Opp(c), realStepTime)
  /\ since' = now
  /\ UNCHANGED <<now, realStepTime, gameSpendTime, over, used, moves>>

\* gameOver(c, ...)
ClockGameOver(c) ==
  /\ ~over
  /\ Charge(c)
  /\ over' = TRUE
  /\ UNCHANGED <<now, totalSteps, realStepTime, startTime, due, history>>

WinningMove(c) == c = Turn /\ ClockGameOver(c)
GiveupOrDraw(c) == ClockGameOver(c)
TimeOut(c) == c = Turn /\ now >= due /\ ClockGameOver(c)

ClockNext ==
  \/ Tick
  \/ \E c \in Colors : \/ Move(c) \/ TakeBack(c)
                       \/ WinningMove(c) \/ GiveupOrDraw(c) \/ TimeOut(c)

ClockSpec == ClockInit /\ [][ClockNext]_timeVars

-----------------------------------------------------------------------------
(* Properties.                                                             *)

\* While the game runs, what a player is charged is what it has thought over
\* the moves it made, less the fraction of a second that each move loses to
\* the conversion to int (updateGameTime, initStartGameTime).
ChargedFairly ==
  ~over => \A c \in Colors :
             /\ gameSpendTime[c] * TicksPerSecond <= used[c]
             /\ used[c] <= gameSpendTime[c] * TicksPerSecond + moves[c] * (TicksPerSecond - 1)

\* Nobody is on the move for longer than stepTime and the lag of the timer,
\* however the move was got: by a move or by one that was taken back.
StepBounded ==
  ~over => now - since <= StepTime * TicksPerSecond + MaxLag
=============================================================================
