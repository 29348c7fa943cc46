-------------------------------- MODULE Page --------------------------------
(***************************************************************************)
(* The game as one player sees and plays it: the ChineseChess object       *)
(* (chinese_chess.js) with its board, its record list and its two clocks,  *)
(* and the UiDisplayer (displayer.js), which knows pictures only and is    *)
(* told of every change.  A square keeps one picture for ever; a move      *)
(* swaps the pictures of two squares and makes the start transparent.      *)
(* Whatever runs in a callback of the page is one step.  Sounds, board     *)
(* styles and the animation of a move are left out, and so are the total   *)
(* times the clocks show.                                                  *)
(***************************************************************************)
EXTENDS Rules

CONSTANTS Starts,       \* the positions a page may begin with
          Clicked,      \* the squares the player clicks on
          Replies,      \* the moves the opponent may make
          StepTime,     \* stepTime, in seconds
          MaxPlies      \* bound: the moves on the board

ASSUME StartsAssumption == \A b \in Starts : InPlay(b) /\ b.steps = <<>>
ASSUME MovesAssumption ==
  Clicked \subseteq Squares /\ Replies \subseteq {GetMove(a, z) : a \in Squares, z \in Squares}
ASSUME StepTimeAssumption == StepTime \in Nat \ {0}

VARIABLES board,        \* board_
          side,         \* side_
          history,      \* historyStepRecords_: what each move led to
          records,      \* the options of the record list
          chosen,       \* its selectedIndex, from 1; 0 for none
          watchMode,    \* watchMode_
          selectedPos,  \* selectedPos_
          switchPrompt, \* switchPrompt_
          shown,        \* displayer_
          timers,       \* selfPlayTimer_ and oppPlayTimer_
          curTimer,     \* curPlayTimer_
          disturbed     \* may the pictures be wrong, until they are set up again?

game == <<board, history, records>>
clocks == <<timers, curTimer>>
vars == <<board, side, history, records, chosen, watchMode, selectedPos,
          switchPrompt, shown, timers, curTimer, disturbed>>

-----------------------------------------------------------------------------
(* UiDisplayer: the squares with the picture of a man, those made          *)
(* transparent, and the marks, which are kept where they are on the        *)
(* screen: changePos turns the board for Black.                            *)
NoMark == -1
Screen(d, pos) == IF d.flip THEN FlipPos(pos) ELSE pos
InitResource(d, disableClick) ==
  [flip |-> d.flip, sel |-> NoMark, track |-> <<>>, prompts |-> {},
   clicks |-> ~disableClick, men |-> <<>>, clear |-> {}]
SetMode(d, watch) == InitResource(d, watch)
Reset(d) == SetMode([d EXCEPT !.flip = FALSE], FALSE)

AddPieces(d, position) ==
  [d EXCEPT !.men = [q \in DOMAIN position.men \cup DOMAIN @ |->
                       IF q \in DOMAIN position.men THEN position.men[q] ELSE @[q]]]

SelectPiece(d, pos) == [d EXCEPT !.sel = Screen(d, pos)]
UnSelectPiece(d) == [d EXCEPT !.sel = NoMark]
AddLastTrack(d, mv) ==
  [d EXCEPT !.track = <<Screen(d, StartOfMove(mv)), Screen(d, EndOfMove(mv))>>]
RemoveLastTrack(d) == [d EXCEPT !.track = <<>>]
ShowPrompt(d, mvs) == [d EXCEPT !.prompts = @ \cup {Screen(d, EndOfMove(mv)) : mv \in mvs}]
UnshowPrompt(d) == [d EXCEPT !.prompts = {}]

SwapImage(men, a, b) ==
  LET other(q) == CASE q = a -> b [] q = b -> a [] OTHER -> q
  IN  [q \in {p \in DOMAIN men \cup {a, b} : other(p) \in DOMAIN men} |-> men[other(q)]]
DisplayMoveOpaque(d, mv) ==
  [AddLastTrack(d, mv) EXCEPT !.men = SwapImage(@, StartOfMove(mv), EndOfMove(mv)),
                              !.clear = @ \ {EndOfMove(mv)}]
DisplayMove(d, mv) ==
  [AddLastTrack(d, mv) EXCEPT !.men = SwapImage(@, StartOfMove(mv), EndOfMove(mv)),
                              !.clear = (@ \ {EndOfMove(mv)}) \cup {StartOfMove(mv)}]
DisplayUndo(d, mv) ==
  [RemoveLastTrack(UnshowPrompt(d)) EXCEPT
     !.men = SwapImage(@, StartOfMove(mv), EndOfMove(mv)),
     !.clear = @ \ {StartOfMove(mv), EndOfMove(mv)}]

(* What a player sees where. *)
Seen(d) == [q \in DOMAIN d.men \ d.clear |-> d.men[q]]

-----------------------------------------------------------------------------
(* PlayTimer: an interval that counts, and a deadline that stops it.       *)
Start(t) == [t EXCEPT !.ticking = @ + 1]
Pause(t) == [left |-> StepTime, ticking |-> IF t.ticking > 0 THEN t.ticking - 1 ELSE 0]
Timer(spent) == [left |-> StepTime - spent, ticking |-> 0]

TimerOf(s, b) == IF s = b.cur THEN "self" ELSE "opp"
SwitchPlayTimerUnpaused(b) ==
  /\ curTimer' = TimerOf(side, b)
  /\ timers' = [timers EXCEPT ![curTimer'] = Start(@)]
SwitchPlayTimer(b) ==
  /\ curTimer' = TimerOf(side, b)
  /\ timers' = [[timers EXCEPT ![curTimer] = Pause(@)] EXCEPT ![curTimer'] = Start(@)]

(* The seconds of the clock that runs; at the last one the deadline stops  *)
(* it and sets the step time back.                                         *)
CountDown(t) == IF t.left = 1 THEN Pause(t) ELSE [t EXCEPT !.left = @ - 1]
Second(t) ==
  /\ timers[t].ticking > 0
  /\ timers' = [timers EXCEPT ![t] = CountDown(@)]
  /\ UNCHANGED <<game, side, chosen, watchMode, selectedPos, switchPrompt, shown,
                 curTimer, disturbed>>

-----------------------------------------------------------------------------
(* The constructor, for a new game or a resumed one, on a container that   *)
(* is empty or has been cleared.  For Black, flipBoard runs before         *)
(* selectedPos_ is set: it takes undefined for a selection and marks a     *)
(* square outside the board.  In a resumed game responseGameSituation then *)
(* marks the last move the center knows of.                                *)
Begin(b, s, spent, ticking, resumed, mv) ==
  LET flipped == s = Black
      fresh == InitResource([flip |-> flipped], FALSE)
      men == AddPieces(IF flipped THEN [fresh EXCEPT !.sel = 0] ELSE fresh, PositionOf(b))
      cur == TimerOf(s, b)
      stopped == [t \in {"self", "opp"} |->
                    [Timer(IF t = cur THEN spent ELSE 0) EXCEPT !.ticking = ticking[t]]]
  IN  /\ board' = b
      /\ side' = s
      /\ history' = <<>> /\ records' = <<>> /\ chosen' = 0
      /\ watchMode' = FALSE
      /\ selectedPos' = None
      /\ shown' = IF resumed THEN AddLastTrack(men, mv) ELSE men
      /\ curTimer' = cur
      /\ timers' = [stopped EXCEPT ![cur] = Start(@)]
      /\ disturbed' = FALSE

(* A page that has no game yet; its first step is the constructor.         *)
NoGame == [pieces |-> <<>>, at |-> <<>>, cur |-> Red, steps |-> <<>>]
Idle == [t \in {"self", "opp"} |-> [left |-> StepTime, ticking |-> 0]]

Init ==
  /\ board = NoGame /\ side = Red
  /\ history = <<>> /\ records = <<>> /\ chosen = 0
  /\ watchMode = FALSE /\ selectedPos = None /\ switchPrompt = TRUE
  /\ shown = InitResource([flip |-> FALSE], FALSE)
  /\ timers = Idle /\ curTimer = "self"
  /\ disturbed = FALSE

HasGame == board # NoGame

(* The lastMoveStep that comes with a position: the move that led to it,   *)
(* the one that has just been taken back, or -1 when there was none, which *)
(* marks squares outside the board.                                        *)
LastMoves(b) ==
  LET own(pos) == Has(b, pos) /\ PieceAt(b, pos).side = b.cur
      led(mv) == /\ Has(b, EndOfMove(mv)) /\ ~own(EndOfMove(mv))
                 /\ ~Has(b, StartOfMove(mv))
      undone(mv) == own(StartOfMove(mv)) /\ ~own(EndOfMove(mv))
  IN  {-1} \cup {mv \in Replies : led(mv) \/ undone(mv)}

(* MatchResponse, or GameSituation with the last move. *)
Enter ==
  /\ ~HasGame
  /\ \E b \in Starts, s \in {Red, Black}, spent \in 0..(StepTime - 1), resumed \in BOOLEAN :
       \E mv \in LastMoves(b) :
         Begin(b, s, spent, [t \in {"self", "opp"} |-> timers[t].ticking], resumed, mv)
  /\ UNCHANGED switchPrompt

(* The button of the result dialog: clear(), until the next game begins.   *)
Clear ==
  /\ HasGame
  /\ board' = NoGame                 \* no longer used: the next game makes its own
  /\ history' = <<>>
  /\ timers' = [timers EXCEPT ![curTimer] = Pause(@)]
  /\ records' = <<>> /\ chosen' = 0
  /\ shown' = Reset(shown)
  /\ watchMode' = FALSE /\ selectedPos' = None /\ disturbed' = FALSE
  /\ UNCHANGED <<side, switchPrompt, curTimer>>

(* play(mv), of a move of either side: refused, or made, recorded, timed   *)
(* and, unless an old position is being watched, displayed.                *)
PlayOnPageSelected(mv) ==
  /\ TryMovePiece(board, mv) \notin {"ILLEGAL", "KILLED"}
  /\ records' = Append(records, ToChineseMove(board, mv))
  /\ board' = Play(board, mv)
  /\ shown' = IF watchMode THEN shown ELSE DisplayMove(UnshowPrompt(shown), mv)
  /\ SwitchPlayTimer(board')
  /\ history' = Append(history, [fen |-> PositionOf(board'), mv |-> mv])
  /\ UNCHANGED <<side, chosen, watchMode, selectedPos, switchPrompt, disturbed>>
PlayOnPage(mv) ==
  /\ TryMovePiece(board, mv) \notin {"ILLEGAL", "KILLED"}
  /\ records' = Append(records, ToChineseMove(board, mv))
  /\ board' = Play(board, mv)
  /\ shown' = IF watchMode THEN shown
              ELSE DisplayMove(UnshowPrompt(UnSelectPiece(shown)), mv)
  /\ selectedPos' = None
  /\ SwitchPlayTimer(board')
  /\ history' = Append(history, [fen |-> PositionOf(board'), mv |-> mv])
  /\ UNCHANGED <<side, chosen, watchMode, switchPrompt, disturbed>>

Marked(d, pos) ==
  LET e == SelectPiece(d, pos)
  IN  IF switchPrompt THEN ShowPrompt(e, Prompt(board, pos)) ELSE e

(* clickPiece *)
ClickSelect(pos) ==
  /\ Has(board, pos) /\ PieceAt(board, pos).side = board.cur
  /\ IF selectedPos = pos
     THEN selectedPos' = None /\ shown' = UnSelectPiece(UnshowPrompt(shown))
     ELSE selectedPos' = pos /\ shown' = Marked(UnshowPrompt(shown), pos)
  /\ UNCHANGED <<game, side, chosen, watchMode, switchPrompt, clocks, disturbed>>
ClickMove(pos) ==
  /\ ~(Has(board, pos) /\ PieceAt(board, pos).side = board.cur)
  /\ selectedPos # None
  /\ Len(board.steps) < MaxPlies
  /\ PlayOnPage(GetMove(selectedPos, pos))
ClickPiece(pos) ==
  /\ HasGame /\ shown.clicks /\ side = board.cur
  /\ ClickSelect(pos) \/ ClickMove(pos)

(* responseMoveStep: the opponent has played, on its own page.             *)
ResponseMoveStep(mv) ==
  /\ HasGame /\ side # board.cur
  /\ Len(board.steps) < MaxPlies
  /\ Has(board, StartOfMove(mv)) /\ PieceAt(board, StartOfMove(mv)).side = board.cur
  /\ ~(Has(board, EndOfMove(mv)) /\ PieceAt(board, EndOfMove(mv)).side = board.cur)
  /\ PlayOnPage(mv)

(* onChangeStepRecords, skipToSituationForDisplay *)
Watch(k) ==
  /\ HasGame /\ chosen # k /\ chosen' = k
  /\ LET step == history[k]
         last == k = Len(records)
         again == IF last /\ selectedPos # None
                  THEN Marked(SetMode(shown, FALSE), selectedPos) ELSE SetMode(shown, ~last)
     IN  IF ~watchMode /\ last THEN UNCHANGED <<shown, watchMode, disturbed>>
         ELSE /\ watchMode' = ~last
              /\ shown' = AddLastTrack(AddPieces(again, step.fen), step.mv)
              /\ disturbed' = FALSE
  /\ UNCHANGED <<game, side, selectedPos, switchPrompt, clocks>>

(* onChangePieceStyle, changePieceStyle: initResource without an argument  *)
(* puts the handlers back that the watch mode had left out.                *)
ChangePieceStyle ==
  /\ HasGame
  /\ LET men == AddPieces(InitResource(shown, FALSE), PositionOf(board))
         tracked == IF GetLastMove(board) # None THEN AddLastTrack(men, GetLastMove(board)) ELSE men
     IN  shown' = IF selectedPos # None THEN Marked(tracked, selectedPos) ELSE tracked
  /\ disturbed' = watchMode
  /\ UNCHANGED <<game, side, chosen, watchMode, selectedPos, switchPrompt, clocks>>

TogglePrompt ==
  /\ HasGame
  /\ switchPrompt' = ~switchPrompt
  /\ shown' = IF switchPrompt THEN UnshowPrompt(shown) ELSE shown
  /\ UNCHANGED <<game, side, chosen, watchMode, selectedPos, clocks, disturbed>>

(* backStep, when either player has agreed to a take-back.  The option     *)
(* that leaves the list leaves the choice with it.                         *)
TakeBackUnrecorded ==
  /\ board.steps # <<>>
  /\ board' = BackStep(board)
  /\ selectedPos' = None
  /\ shown' = DisplayUndo(UnSelectPiece(shown), GetLastMove(board))
  /\ SwitchPlayTimer(board')
  /\ UNCHANGED <<side, disturbed, history, records, chosen, watchMode, switchPrompt>>
TakeBack ==
  /\ board.steps # <<>>
  /\ board' = BackStep(board)
  /\ selectedPos' = None
  /\ LET undone == DisplayUndo(UnSelectPiece(shown), GetLastMove(board))
         last == GetLastMove(board')
     IN  shown' = IF last # None THEN AddLastTrack(undone, last) ELSE undone
  /\ SwitchPlayTimer(board')
  /\ history' = Front(history) /\ records' = Front(records)
  /\ chosen' = IF chosen = Len(records) THEN 0 ELSE chosen
  /\ disturbed' = (disturbed \/ watchMode \/ \E step \in Range(board.steps) : step.endPiece # None)
  /\ UNCHANGED <<side, watchMode, switchPrompt>>
(* After a return the history is empty and undoMove throws. *)
TakeBackFails ==
  /\ HasGame /\ board.steps = <<>>
  /\ selectedPos' = None
  /\ shown' = UnSelectPiece(UnshowPrompt(shown))
  /\ UNCHANGED <<game, side, chosen, watchMode, switchPrompt, clocks, disturbed>>

Next ==
  \/ Enter \/ Clear \/ ChangePieceStyle \/ TogglePrompt \/ TakeBack \/ TakeBackFails
  \/ \E pos \in Clicked : ClickPiece(pos)
  \/ \E mv \in Replies : ResponseMoveStep(mv)
  \/ \E k \in 1..Len(records) : Watch(k)
  \/ \E t \in {"self", "opp"} : Second(t)

Spec == Init /\ [][Next]_vars

-----------------------------------------------------------------------------
(* The pictures tell the truth: of the board while playing, of the chosen  *)
(* step while watching, through the moves that arrive in either mode and   *)
(* through take-backs as long as nothing was captured.  Three things break *)
(* it until the pictures are set up again, and are named in `disturbed`: a *)
(* take-back after a capture (the captured man may show where it was not,  *)
(* or come back unseen), one while watching, and a new style while         *)
(* watching.                                                               *)
ScreenIsTrue ==
  HasGame /\ ~disturbed =>
    IF watchMode THEN Seen(shown) = history[chosen].fen.men
    ELSE Seen(shown) = PositionOf(board).men

(* A selection is a piece of the player's own and a turn of its own, after *)
(* any move, take-back or return from watching; the mark and the hints on  *)
(* the screen are those of the selection, the last track that of the last  *)
(* move.                                                                   *)
SelectionIsOwn ==
  /\ selectedPos # None =>
       /\ side = board.cur
       /\ Has(board, selectedPos) /\ PieceAt(board, selectedPos).side = side
  /\ ~watchMode =>
       /\ shown.sel \in Squares <=> selectedPos # None
       /\ selectedPos # None => shown.sel = Screen(shown, selectedPos)
       /\ shown.prompts # {} =>
            shown.prompts = {Screen(shown, EndOfMove(mv)) : mv \in Prompt(board, selectedPos)}
       /\ board.steps # <<>> =>
            shown.track = <<Screen(shown, StartOfMove(GetLastMove(board))),
                            Screen(shown, EndOfMove(GetLastMove(board)))>>

(* The record list, the page's history and the board's history are three   *)
(* lists kept by three pieces of code; they go together, and the last step *)
(* is the position.                                                        *)
RecordsAgree ==
  /\ Len(history) = Len(records) /\ Len(history) = Len(board.steps)
  /\ \A k \in 1..Len(history) : history[k].mv = board.steps[k].mv
  /\ history # <<>> => Last(history).fen = PositionOf(board)
  /\ chosen \in 0..Len(records)

(* One clock counts at a time, that of the player to move, and the other   *)
(* shows a whole step; over games, take-backs and deadlines.               *)
ClockFollowsTurn ==
  /\ HasGame => curTimer = TimerOf(side, board)
  /\ \A t \in {"self", "opp"} :
       /\ timers[t].left \in 1..StepTime
       /\ timers[t].ticking <= (IF HasGame /\ t = curTimer THEN 1 ELSE 0)
       /\ timers[t].ticking = 0 => timers[t].left = StepTime
=============================================================================
