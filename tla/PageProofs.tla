---------------------------- MODULE PageProofs ----------------------------
(***************************************************************************)
(* What is proved of a page: for every set of positions in play a game may *)
(* begin with, all clicks and replies, any step time and any number of     *)
(* moves.                                                                  *)
(***************************************************************************)
EXTENDS Page, RulesProofs

Positions == {PositionOf(b) : b \in Boards}
Heads == {ToChineseMove(b, mv) : b \in Boards, mv \in Nat}
Entries == [fen : Positions, mv : Nat]

(* The boards of a game, from the one it was entered with to the present   *)
(* one: each follows from the one before by the move of the page's         *)
(* history, which keeps its position.                                      *)
Line(line) ==
  /\ line \in Seq(Boards)
  /\ Len(line) = Len(history) + 1 /\ line[Len(line)] = board
  /\ \A k \in 1..Len(line) :
       /\ InPlay(line[k]) /\ Len(line[k].steps) = k - 1
       /\ \A j \in 1..(k - 1) : line[k].steps[j].mv = history[j].mv
  /\ \A k \in 1..Len(history) :
       /\ Accepted(line[k], history[k].mv) /\ line[k + 1] = Play(line[k], history[k].mv)
       /\ history[k].fen = PositionOf(line[k + 1])

GameInv ==
  /\ side \in {Red, Black} /\ watchMode \in BOOLEAN
  /\ history \in Seq(Entries) /\ records \in Seq(Heads) /\ Len(records) = Len(history)
  /\ chosen \in 0..Len(records)
  /\ HasGame => \E line : Line(line)
  /\ ~HasGame => history = <<>> /\ selectedPos = None /\ watchMode = FALSE
  /\ selectedPos # None =>
       /\ selectedPos \in Squares /\ side = board.cur
       /\ Has(board, selectedPos) /\ PieceAt(board, selectedPos).side = side

(* Boards in play are no NoGame. *)
LEMMA InPlayIsGame == ASSUME NEW b, InPlay(b) PROVE b # NoGame
PROOF
<1>1. OneKing(b, Red)
  BY DEF InPlay
<1>2. DOMAIN b.pieces # {}
  BY <1>1 DEF OneKing
<1>3. DOMAIN NoGame.pieces = {}
  BY DEF NoGame
<1> QED
  BY <1>2, <1>3

(* The present board of a game. *)
LEMMA PresentBoard ==
  ASSUME NEW line, GameInv, Line(line)
  PROVE  /\ InPlay(board) /\ HasGame /\ board \in Boards
         /\ Len(history) \in Nat /\ Len(board.steps) = Len(history)
         /\ \A j \in 1..Len(history) : board.steps[j].mv = history[j].mv
PROOF
<1>1. Len(history) \in Nat
  BY DEF GameInv
<1>2. PICK k \in 1..Len(line) : k = Len(history) + 1 /\ line[k] = board
  BY <1>1 DEF Line
<1>3. /\ InPlay(line[k]) /\ Len(line[k].steps) = k - 1
      /\ \A j \in 1..(k - 1) : line[k].steps[j].mv = history[j].mv
  BY DEF Line
<1>4. InPlay(board) /\ Len(board.steps) = Len(history)
      /\ \A j \in 1..Len(history) : board.steps[j].mv = history[j].mv
  BY <1>1, <1>2, <1>3
<1>5. HasGame
  BY <1>4, InPlayIsGame DEF HasGame
<1>6. board \in Boards
  BY <1>4, BoardInBoards DEF InPlay
<1> QED
  BY <1>1, <1>4, <1>5, <1>6

(* The present board of a game, and its history beside that of the page. *)
LEMMA GameBoard ==
  ASSUME GameInv, HasGame
  PROVE  /\ InPlay(board) /\ board \in Boards
         /\ Len(history) \in Nat /\ Len(board.steps) = Len(history)
         /\ \A j \in 1..Len(history) : board.steps[j].mv = history[j].mv
  BY PresentBoard DEF GameInv

(* The moves that play accepts on a page are moves of the side to move. *)
Plays(mv) == HasGame /\ mv \in Nat /\ Accepted(board, mv) /\ PlayOnPage(mv)
Selects(pos) == HasGame /\ pos \in Squares /\ side = board.cur /\ ClickSelect(pos)
PageStep ==
  \/ Enter \/ Clear \/ ChangePieceStyle \/ TogglePrompt \/ TakeBack \/ TakeBackFails
  \/ \E pos : Selects(pos)
  \/ \E mv : Plays(mv)
  \/ \E k \in 1..Len(records) : Watch(k)
  \/ \E t \in {"self", "opp"} : Second(t)
  \/ UNCHANGED vars

(* Every step of the page is one of PageStep: a click moves a piece of the *)
(* player's own, and the opponent's move is tried before it is played.     *)
LEMMA StepsOfPage == ASSUME GameInv, [Next]_vars PROVE PageStep
PROOF
<1>1. ASSUME NEW pos \in Clicked, ClickPiece(pos)
      PROVE  PageStep
  <2>1. HasGame /\ side = board.cur /\ pos \in Squares
    BY <1>1, MovesAssumption DEF ClickPiece
  <2>2. CASE ClickSelect(pos)
    BY <2>1, <2>2 DEF PageStep, Selects
  <2>3. CASE ClickMove(pos)
    <3>1. PICK mv : mv = GetMove(selectedPos, pos)
      OBVIOUS
    <3>2. /\ selectedPos \in Squares /\ Has(board, selectedPos)
          /\ PieceAt(board, selectedPos).side = board.cur
          /\ ~(Has(board, pos) /\ PieceAt(board, pos).side = board.cur) /\ PlayOnPage(mv)
      BY <2>1, <2>3, <3>1 DEF ClickMove, GameInv
    <3>3. mv \in Nat /\ StartOfMove(mv) = selectedPos /\ EndOfMove(mv) = pos
      BY <3>1, <3>2, <2>1, MoveSquares
    <3>4. Tries(board, mv)
      BY <2>1, <3>2, <3>3 DEF Tries
    <3>5. TryMovePiece(board, mv) \notin {"ILLEGAL", "KILLED"}
      BY <3>2 DEF PlayOnPage
    <3> QED
      BY <2>1, <3>2, <3>3, <3>4, <3>5 DEF PageStep, Plays, Accepted
  <2> QED
    BY <1>1, <2>2, <2>3 DEF ClickPiece
<1>2. ASSUME NEW mv \in Replies, ResponseMoveStep(mv)
      PROVE  PageStep
  <2>1. PICK a \in Squares, z \in Squares : mv = GetMove(a, z)
    BY MovesAssumption
  <2>2. mv \in Nat /\ EndOfMove(mv) \in Squares
    BY <2>1, MoveSquares
  <2>3. Tries(board, mv) /\ HasGame /\ PlayOnPage(mv)
    BY <1>2, <2>2 DEF ResponseMoveStep, Tries
  <2>4. TryMovePiece(board, mv) \notin {"ILLEGAL", "KILLED"}
    BY <2>3 DEF PlayOnPage
  <2> QED
    BY <2>2, <2>3, <2>4 DEF PageStep, Plays, Accepted
<1> QED
  BY <1>1, <1>2 DEF Next, PageStep

-----------------------------------------------------------------------------
(* The line after a move. *)
LEMMA LineGrows ==
  ASSUME GameInv, NEW line, Line(line), NEW mv, Plays(mv)
  PROVE  \E l : Line(l)'
PROOF
<1>1. /\ InPlay(board) /\ Len(history) \in Nat /\ Len(board.steps) = Len(history)
      /\ \A j \in 1..Len(history) : board.steps[j].mv = history[j].mv
  BY PresentBoard
<1>2. /\ board' = Play(board, mv) /\ Accepted(board, mv) /\ mv \in Nat
      /\ history' = Append(history, [fen |-> PositionOf(board'), mv |-> mv])
  BY DEF Plays, PlayOnPage
<1>3. /\ InPlay(board')
      /\ board'.steps = Append(board.steps, [mv |-> mv, endPiece |-> Taken(board, mv)])
  BY <1>1, <1>2, PlayedInPlay
<1>4. board' \in Boards
  BY <1>3, BoardInBoards DEF InPlay
<1>5. PICK n \in Nat : n = Len(history)
  BY <1>1
<1>6. /\ Len(board'.steps) = n + 1 /\ board'.steps[n + 1].mv = mv
      /\ \A j \in 1..n : board'.steps[j].mv = history[j].mv
  <2>1. board.steps \in Seq([mv : Nat, endPiece : Nat])
    BY <1>1, BoardTyping DEF InPlay
  <2>2. PICK x : x = [mv |-> mv, endPiece |-> Taken(board, mv)]
    OBVIOUS
  <2>3. x.mv = mv
    BY <2>2
  <2>4. board'.steps = Append(board.steps, x)
    BY <1>3, <2>2
  <2>5. /\ Len(board'.steps) = n + 1 /\ board'.steps[n + 1] = x
        /\ \A j \in 1..n : board'.steps[j] = board.steps[j]
    BY <1>1, <1>5, <2>1, <2>4
  <2> QED
    BY <1>1, <1>5, <2>3, <2>5
<1>7. /\ Len(history') = n + 1 /\ history'[n + 1].mv = mv
      /\ history'[n + 1].fen = PositionOf(board')
      /\ \A j \in 1..n : history'[j] = history[j]
  <2>1. history \in Seq(Entries)
    BY DEF GameInv
  <2>2. PICK x : x = [fen |-> PositionOf(board'), mv |-> mv]
    OBVIOUS
  <2>3. x.fen = PositionOf(board') /\ x.mv = mv
    BY <2>2
  <2>4. history' = Append(history, x)
    BY <1>2, <2>2
  <2>5. /\ Len(history') = n + 1 /\ history'[n + 1] = x
        /\ \A j \in 1..n : history'[j] = history[j]
    BY <1>5, <2>1, <2>4
  <2> QED
    BY <2>3, <2>5
<1>8. PICK l : l = Append(line, board')
  OBVIOUS
<1>9. /\ l \in Seq(Boards) /\ Len(l) = n + 2 /\ l[n + 2] = board' /\ l[n + 1] = board
      /\ \A k \in 1..(n + 1) : l[k] = line[k]
  BY <1>4, <1>5, <1>8 DEF Line
<1>10. ASSUME NEW k \in 1..Len(l)
       PROVE  /\ InPlay(l[k]) /\ Len(l[k].steps) = k - 1
              /\ \A j \in 1..(k - 1) : l[k].steps[j].mv = history'[j].mv
  <2>1. CASE k \in 1..(n + 1)
    <3>1. k \in 1..Len(line)
      BY <2>1, <1>5 DEF Line
    <3>2. /\ InPlay(line[k]) /\ Len(line[k].steps) = k - 1
          /\ \A j \in 1..(k - 1) : line[k].steps[j].mv = history[j].mv
      BY <3>1 DEF Line
    <3>3. \A j \in 1..(k - 1) : history'[j] = history[j]
      BY <2>1, <1>7
    <3> QED
      BY <2>1, <3>2, <3>3, <1>9
  <2>2. CASE k = n + 2
    <3>1. \A j \in 1..(n + 1) : board'.steps[j].mv = history'[j].mv
      <4> SUFFICES ASSUME NEW j \in 1..(n + 1)
                   PROVE  board'.steps[j].mv = history'[j].mv
        OBVIOUS
      <4>1. CASE j = n + 1
        BY <4>1, <1>6, <1>7
      <4>2. CASE j \in 1..n
        BY <4>2, <1>6, <1>7
      <4> QED
        BY <4>1, <4>2
    <3> QED
      BY <2>2, <3>1, <1>3, <1>6, <1>9
  <2> QED
    BY <2>1, <2>2, <1>9
<1>11. ASSUME NEW k \in 1..Len(history')
       PROVE  /\ Accepted(l[k], history'[k].mv) /\ l[k + 1] = Play(l[k], history'[k].mv)
              /\ history'[k].fen = PositionOf(l[k + 1])
  <2>1. CASE k \in 1..n
    <3>1. /\ Accepted(line[k], history[k].mv) /\ line[k + 1] = Play(line[k], history[k].mv)
          /\ history[k].fen = PositionOf(line[k + 1])
      BY <2>1, <1>5 DEF Line
    <3>2. l[k] = line[k] /\ l[k + 1] = line[k + 1] /\ history'[k] = history[k]
      BY <2>1, <1>7, <1>9
    <3> QED
      BY <3>1, <3>2
  <2>2. CASE k = n + 1
    <3>1. l[k] = board /\ l[k + 1] = board'
      BY <2>2, <1>9
    <3>2. history'[k].mv = mv /\ history'[k].fen = PositionOf(board')
      BY <2>2, <1>7
    <3> QED
      BY <3>1, <3>2, <1>2
  <2> QED
    BY <2>1, <2>2, <1>7
<1>12. /\ Len(l) = Len(history') + 1 /\ l[Len(l)] = board'
  BY <1>7, <1>9
<1>13. Line(l)'
  BY <1>9, <1>10, <1>11, <1>12 DEF Line
<1> QED
  BY <1>13

(* The line after a move taken back. *)
LEMMA LineShrinks ==
  ASSUME GameInv, NEW line, Line(line), TakeBack
  PROVE  \E l : Line(l)'
PROOF
<1>1. /\ InPlay(board) /\ Len(history) \in Nat /\ Len(board.steps) = Len(history)
  BY PresentBoard
<1>2. board.steps # <<>> /\ board' = BackStep(board) /\ history' = Front(history)
  BY DEF TakeBack
<1>3. Len(history) > 0
  <2>1. board.steps \in Seq([mv : Nat, endPiece : Nat])
    BY <1>1, BoardTyping DEF InPlay
  <2> QED
    BY <2>1, <1>1, <1>2
<1>4. PICK n \in Nat : Len(history) = n + 1
  BY <1>1, <1>3
<1>5. /\ Len(history') = n /\ \A j \in 1..n : history'[j] = history[j]
  BY <1>2, <1>4 DEF GameInv, Front
<1>6. PICK l : l = Front(line)
  OBVIOUS
<1>7. /\ l \in Seq(Boards) /\ Len(l) = n + 1 /\ \A k \in 1..(n + 1) : l[k] = line[k]
  BY <1>4, <1>6 DEF Line, Front
<1>8. board' = line[n + 1]
  <2>1. /\ InPlay(line[n + 1]) /\ Accepted(line[n + 1], history[n + 1].mv)
        /\ line[n + 2] = Play(line[n + 1], history[n + 1].mv) /\ line[n + 2] = board
    BY <1>4 DEF Line
  <2>2. PICK b, mv : b = line[n + 1] /\ mv = history[n + 1].mv
    OBVIOUS
  <2>3. BackStep(Play(b, mv)) = b
    BY <2>1, <2>2, PlayedInPlay
  <2> QED
    BY <2>1, <2>2, <2>3, <1>2
<1>9. ASSUME NEW k \in 1..Len(l)
      PROVE  /\ InPlay(l[k]) /\ Len(l[k].steps) = k - 1
             /\ \A j \in 1..(k - 1) : l[k].steps[j].mv = history'[j].mv
  <2>1. /\ InPlay(line[k]) /\ Len(line[k].steps) = k - 1
        /\ \A j \in 1..(k - 1) : line[k].steps[j].mv = history[j].mv
    BY <1>4, <1>7 DEF Line
  <2>2. \A j \in 1..(k - 1) : history'[j] = history[j]
    BY <1>5, <1>7
  <2> QED
    BY <2>1, <2>2, <1>7
<1>10. ASSUME NEW k \in 1..Len(history')
       PROVE  /\ Accepted(l[k], history'[k].mv) /\ l[k + 1] = Play(l[k], history'[k].mv)
              /\ history'[k].fen = PositionOf(l[k + 1])
  <2>1. /\ Accepted(line[k], history[k].mv) /\ line[k + 1] = Play(line[k], history[k].mv)
        /\ history[k].fen = PositionOf(line[k + 1])
    BY <1>4, <1>5 DEF Line
  <2>2. l[k] = line[k] /\ l[k + 1] = line[k + 1] /\ history'[k] = history[k]
    BY <1>5, <1>7
  <2> QED
    BY <2>1, <2>2
<1>11. /\ Len(l) = Len(history') + 1 /\ l[Len(l)] = board'
  BY <1>5, <1>7, <1>8
<1>12. Line(l)'
  BY <1>7, <1>9, <1>10, <1>11 DEF Line
<1> QED
  BY <1>12

(* The line of a game just entered. *)
LEMMA LineBegins ==
  ASSUME NEW b \in Starts, board' = b, history' = <<>>
  PROVE  \E l : Line(l)'
PROOF
<1>1. InPlay(b) /\ b.steps = <<>>
  BY StartsAssumption
<1>2. b \in Boards
  BY <1>1, BoardInBoards DEF InPlay
<1>3. PICK l : l = <<b>>
  OBVIOUS
<1>4. l \in Seq(Boards) /\ Len(l) = 1 /\ l[1] = b /\ Len(history') = 0 /\ Len(b.steps) = 0
  BY <1>1, <1>2, <1>3
<1>5. Line(l)'
  BY <1>1, <1>4 DEF Line
<1> QED
  BY <1>5

(* The invariant holds of a page without a game. *)
LEMMA GameInvInit == Init => GameInv
PROOF
<1> SUFFICES ASSUME Init PROVE GameInv
  OBVIOUS
<1>1. ~HasGame /\ history = <<>> /\ records = <<>> /\ chosen = 0 /\ watchMode = FALSE
      /\ selectedPos = None /\ side = Red
  BY DEF Init, HasGame
<1>2. history \in Seq(Entries) /\ records \in Seq(Heads) /\ Len(records) = 0 /\ Len(history) = 0
  BY <1>1
<1>3. side \in {Red, Black} /\ watchMode \in BOOLEAN /\ chosen \in 0..Len(records)
  <2>1. chosen \in 0..Len(records)
    BY <1>1, <1>2
  <2>2. side \in {Red, Black} /\ watchMode \in BOOLEAN
    BY <1>1, Zenon
  <2> QED
    BY <2>1, <2>2
<1> QED
  BY <1>1, <1>2, <1>3, Zenon DEF GameInv

(* What a move does to the lists, and what a take-back does. *)
LEMMA ListsGrow ==
  ASSUME GameInv, NEW mv, Plays(mv)
  PROVE  /\ history' \in Seq(Entries) /\ records' \in Seq(Heads) /\ Len(records') = Len(history')
         /\ Len(records') = Len(records) + 1 /\ chosen \in 0..Len(records')
PROOF
<1>1. InPlay(board) /\ board \in Boards
  BY GameBoard DEF Plays
<1>2. /\ board' = Play(board, mv) /\ Accepted(board, mv) /\ mv \in Nat
      /\ history' = Append(history, [fen |-> PositionOf(board'), mv |-> mv])
      /\ records' = Append(records, ToChineseMove(board, mv))
  BY DEF Plays, PlayOnPage
<1>3. board' \in Boards
  BY <1>1, <1>2, PlayedInPlay, BoardInBoards DEF InPlay
<1>4. ToChineseMove(board, mv) \in Heads
  BY <1>1, <1>2 DEF Heads
<1>5. PICK x : x = [fen |-> PositionOf(board'), mv |-> mv]
  OBVIOUS
<1>6. PositionOf(board') \in Positions
  BY <1>3 DEF Positions
<1>7. x \in Entries
  BY <1>2, <1>5, <1>6 DEF Entries
<1>8. history' \in Seq(Entries) /\ Len(history') = Len(history) + 1
  BY <1>2, <1>5, <1>7 DEF GameInv
<1>9. records' \in Seq(Heads) /\ Len(records') = Len(records) + 1
  BY <1>2, <1>4 DEF GameInv
<1> QED
  BY <1>8, <1>9 DEF GameInv

(* The lists of the page after a take-back. *)
LEMMA ListsShrink ==
  ASSUME GameInv, HasGame, TakeBack
  PROVE  /\ history' \in Seq(Entries) /\ records' \in Seq(Heads) /\ Len(records') = Len(history')
         /\ Len(records) = Len(records') + 1 /\ chosen' \in 0..Len(records')
PROOF
<1>1. /\ InPlay(board) /\ Len(history) \in Nat /\ Len(board.steps) = Len(history)
  BY GameBoard
<1>2. /\ board.steps # <<>> /\ history' = Front(history) /\ records' = Front(records)
      /\ chosen' = IF chosen = Len(records) THEN 0 ELSE chosen
  BY DEF TakeBack
<1>3. Len(history) > 0
  <2>1. board.steps \in Seq([mv : Nat, endPiece : Nat])
    BY <1>1, BoardTyping DEF InPlay
  <2> QED
    BY <2>1, <1>1, <1>2
<1>4. PICK n \in Nat : Len(history) = n + 1 /\ Len(records) = n + 1
  BY <1>1, <1>3 DEF GameInv
<1>5. history' \in Seq(Entries) /\ Len(history') = n
  BY <1>2, <1>4 DEF GameInv, Front
<1>6. records' \in Seq(Heads) /\ Len(records') = n
  BY <1>2, <1>4 DEF GameInv, Front
<1> QED
  BY <1>2, <1>4, <1>5, <1>6 DEF GameInv

(* A game goes on through moves and take-backs; and the board before one   *)
(* taken back.                                                             *)
LEMMA PlayGoesOn == ASSUME GameInv, NEW mv, Plays(mv) PROVE HasGame' /\ InPlay(board')
PROOF
<1>1. InPlay(board')
  BY GameBoard, PlayedInPlay DEF Plays, PlayOnPage
<1> QED
  BY <1>1, InPlayIsGame DEF HasGame

(* The board that a take-back leaves is one from which the last move was   *)
(* accepted.                                                               *)
LEMMA TakenBackFrom ==
  ASSUME GameInv, TakeBack
  PROVE  /\ HasGame /\ InPlay(board')
         /\ \E mv \in Nat : Accepted(board', mv) /\ board = Play(board', mv)
PROOF
<1>1. HasGame
  BY DEF TakeBack, HasGame, NoGame
<1>2. PICK line : Line(line)
  BY <1>1 DEF GameInv
<1>3. PICK n \in Nat : Len(history) = n + 1
  <2>1. Len(history') \in Nat /\ Len(history) = Len(history') + 1
    BY <1>1, ListsShrink DEF GameInv
  <2> QED
    BY <2>1
<1>4. PICK b, mv : b = line[n + 1] /\ mv = history[n + 1].mv
  OBVIOUS
<1>5. InPlay(b) /\ Accepted(b, mv) /\ board = Play(b, mv)
  BY <1>2, <1>3, <1>4 DEF Line
<1>6. BackStep(Play(b, mv)) = b
  BY <1>5, PlayedInPlay
<1>7. board' = b
  BY <1>5, <1>6 DEF TakeBack
<1>8. mv \in Nat
  BY <1>5 DEF Accepted, Tries
<1> QED
  BY <1>1, <1>5, <1>7, <1>8

(* A game goes on after a take-back. *)
LEMMA TakeBackGoesOn == ASSUME GameInv, TakeBack PROVE HasGame'
  BY TakenBackFrom, InPlayIsGame DEF HasGame

(* Every step keeps the lists, the line and the selection together. *)
LEMMA GameInvStep == GameInv /\ [Next]_vars => GameInv'
PROOF
<1> SUFFICES ASSUME GameInv, PageStep
             PROVE  GameInv'
  BY StepsOfPage
<1>t. /\ side \in {Red, Black} /\ watchMode \in BOOLEAN
      /\ history \in Seq(Entries) /\ records \in Seq(Heads) /\ Len(records) = Len(history)
      /\ chosen \in 0..Len(records) /\ Len(records) \in Nat
      /\ HasGame => \E line : Line(line)
      /\ ~HasGame => history = <<>> /\ selectedPos = None /\ watchMode = FALSE
      /\ selectedPos # None =>
           /\ selectedPos \in Squares /\ side = board.cur
           /\ Has(board, selectedPos) /\ PieceAt(board, selectedPos).side = side
  BY DEF GameInv
(* A step that leaves the game, the side and the selection alone. *)
<1>k. ASSUME UNCHANGED <<board, history, records, side>>, chosen' \in 0..Len(records),
             watchMode' \in BOOLEAN, ~HasGame => watchMode' = FALSE,
             ~HasGame => selectedPos' = None,
             selectedPos' # None =>
               /\ selectedPos' \in Squares /\ side = board.cur
               /\ Has(board, selectedPos') /\ PieceAt(board, selectedPos').side = side
      PROVE  GameInv'
  <2>1. board' = board /\ history' = history /\ records' = records /\ side' = side
    BY <1>k
  <2>2. HasGame' <=> HasGame
    BY <2>1 DEF HasGame
  <2>3. \A line : Line(line)' <=> Line(line)
    BY <2>1 DEF Line
  <2>4. HasGame' => (\E line : Line(line))'
    BY <2>2, <2>3, <1>t
  <2> QED
    BY <2>1, <2>2, <2>4, <1>k, <1>t, Zenon DEF GameInv
<1>1. CASE Enter
  <2>1. PICK b \in Starts, s \in {Red, Black} :
          /\ board' = b /\ side' = s /\ history' = <<>> /\ records' = <<>> /\ chosen' = 0
          /\ watchMode' = FALSE /\ selectedPos' = None
    BY <1>1 DEF Enter, Begin
  <2>2. \E l : Line(l)'
    BY <2>1, LineBegins
  <2>3. InPlay(board')
    BY <2>1, StartsAssumption
  <2>4. HasGame'
    BY <2>3, InPlayIsGame DEF HasGame
  <2>5. /\ history' \in Seq(Entries) /\ records' \in Seq(Heads) /\ Len(records') = Len(history')
        /\ chosen' \in 0..Len(records')
    BY <2>1
  <2>6. side' \in {Red, Black} /\ watchMode' \in BOOLEAN
    BY <2>1
  <2> QED
    BY <2>1, <2>2, <2>4, <2>5, <2>6, Zenon DEF GameInv
<1>2. CASE Clear
  <2>1. /\ board' = NoGame /\ side' = side /\ history' = <<>> /\ records' = <<>> /\ chosen' = 0
        /\ watchMode' = FALSE /\ selectedPos' = None
    BY <1>2 DEF Clear
  <2>2. ~HasGame'
    BY <2>1 DEF HasGame
  <2>3. /\ history' \in Seq(Entries) /\ records' \in Seq(Heads) /\ Len(records') = Len(history')
        /\ chosen' \in 0..Len(records')
    BY <2>1
  <2>4. side' \in {Red, Black} /\ watchMode' \in BOOLEAN
    BY <2>1, <1>t
  <2> QED
    BY <2>1, <2>2, <2>3, <2>4, Zenon DEF GameInv
<1>3. CASE ChangePieceStyle
  <2>1. UNCHANGED <<board, history, records, side, chosen, watchMode, selectedPos>>
    BY <1>3 DEF ChangePieceStyle, game
  <2> QED
    BY <2>1, <1>t, <1>k
<1>4. CASE TogglePrompt
  <2>1. UNCHANGED <<board, history, records, side, chosen, watchMode, selectedPos>>
    BY <1>4 DEF TogglePrompt, game
  <2> QED
    BY <2>1, <1>t, <1>k
<1>5. CASE TakeBack
  <2>1. HasGame
    BY <1>5 DEF TakeBack, HasGame, NoGame
  <2>2. /\ history' \in Seq(Entries) /\ records' \in Seq(Heads) /\ Len(records') = Len(history')
        /\ chosen' \in 0..Len(records')
    BY <1>5, <2>1, ListsShrink
  <2>3. \E l : Line(l)'
    BY <1>5, <2>1, <1>t, LineShrinks
  <2>4. /\ selectedPos' = None /\ side' = side /\ watchMode' = watchMode
    BY <1>5 DEF TakeBack
  <2>5. HasGame'
    BY <1>5, TakeBackGoesOn
  <2>6. side' \in {Red, Black} /\ watchMode' \in BOOLEAN
    BY <2>4, <1>t
  <2> QED
    BY <2>2, <2>3, <2>4, <2>5, <2>6, Zenon DEF GameInv
<1>6. CASE TakeBackFails
  <2>1. UNCHANGED <<board, history, records, side, chosen, watchMode>> /\ selectedPos' = None
    BY <1>6 DEF TakeBackFails, game
  <2> QED
    BY <2>1, <1>t, <1>k
<1>7. ASSUME NEW pos, Selects(pos)
      PROVE  GameInv'
  <2>1. /\ UNCHANGED <<board, history, records, side, chosen, watchMode>>
        /\ selectedPos' = None \/ selectedPos' = pos
        /\ Has(board, pos) /\ PieceAt(board, pos).side = board.cur
    BY <1>7 DEF Selects, ClickSelect, game
  <2>2. HasGame /\ side = board.cur /\ pos \in Squares
    BY <1>7 DEF Selects
  <2> QED
    BY <2>1, <2>2, <1>t, <1>k
<1>8. ASSUME NEW mv, Plays(mv)
      PROVE  GameInv'
  <2>1. HasGame
    BY <1>8 DEF Plays
  <2>2. /\ history' \in Seq(Entries) /\ records' \in Seq(Heads) /\ Len(records') = Len(history')
        /\ chosen \in 0..Len(records')
    BY <1>8, ListsGrow
  <2>3. \E l : Line(l)'
    BY <1>8, <2>1, <1>t, LineGrows
  <2>4. selectedPos' = None /\ side' = side /\ watchMode' = watchMode /\ chosen' = chosen
        /\ board' = Play(board, mv)
    BY <1>8 DEF Plays, PlayOnPage
  <2>5. HasGame'
    BY <1>8, PlayGoesOn
  <2>6. side' \in {Red, Black} /\ watchMode' \in BOOLEAN
    BY <2>4, <1>t
  <2> QED
    BY <2>2, <2>3, <2>4, <2>5, <2>6, Zenon DEF GameInv
<1>9. ASSUME NEW k \in 1..Len(records), Watch(k)
      PROVE  GameInv'
  <2>1. /\ UNCHANGED <<board, history, records, side, selectedPos>> /\ HasGame /\ chosen' = k
        /\ watchMode' = watchMode \/ watchMode' = ~(k = Len(records))
    BY <1>9 DEF Watch, game
  <2>2. watchMode' \in BOOLEAN
    <3>1. (~(k = Len(records))) \in BOOLEAN
      OBVIOUS
    <3> QED
      BY <2>1, <3>1, <1>t, Zenon
  <2>3. chosen' \in 0..Len(records)
    BY <2>1, <1>t
  <2> QED
    BY <2>1, <2>2, <2>3, <1>t, <1>k
<1>10. ASSUME NEW t \in {"self", "opp"}, Second(t)
       PROVE  GameInv'
  <2>1. UNCHANGED <<board, history, records, side, chosen, watchMode, selectedPos>>
    BY <1>10 DEF Second, game
  <2> QED
    BY <2>1, <1>t, <1>k
<1>11. CASE UNCHANGED vars
  <2>1. UNCHANGED <<board, history, records, side, chosen, watchMode, selectedPos>>
    BY <1>11 DEF vars
  <2> QED
    BY <2>1, <1>t, <1>k
<1> QED
  BY <1>1, <1>2, <1>3, <1>4, <1>5, <1>6, <1>7, <1>8, <1>9, <1>10, <1>11 DEF PageStep

(* RecordsAgree: the record list, the page's history and the board's, from *)
(* the invariant that the history tells the whole line of boards.          *)
LEMMA GameInvRecords == GameInv => RecordsAgree
PROOF
<1> SUFFICES ASSUME GameInv PROVE RecordsAgree
  OBVIOUS
<1>1. /\ Len(history) = Len(records) /\ chosen \in 0..Len(records) /\ history \in Seq(Entries)
  BY DEF GameInv
<1>2. CASE HasGame
  <2>1. PICK line : Line(line)
    BY <1>2 DEF GameInv
  <2>2. /\ Len(history) \in Nat /\ Len(board.steps) = Len(history)
        /\ \A j \in 1..Len(history) : board.steps[j].mv = history[j].mv
    BY <1>2, GameBoard
  <2>3. ASSUME history # <<>>
        PROVE  Last(history).fen = PositionOf(board)
    <3>1. PICK n \in 1..Len(history) : n = Len(history)
      BY <2>2, <2>3, <1>1
    <3>2. history[n].fen = PositionOf(line[n + 1]) /\ line[n + 1] = board
      BY <2>1, <3>1 DEF Line
    <3> QED
      BY <3>1, <3>2 DEF Last
  <2> QED
    BY <1>1, <2>2, <2>3 DEF RecordsAgree
<1>3. CASE ~HasGame
  <2>1. history = <<>> /\ board.steps = <<>>
    BY <1>3 DEF GameInv, HasGame, NoGame
  <2> QED
    BY <1>1, <2>1 DEF RecordsAgree
<1> QED
  BY <1>2, <1>3

(* RecordsAgree: the record list, the history of the page and that of the  *)
(* board tell the same moves, and the last entry the present position.     *)
THEOREM PageRecordsAgree == Spec => []RecordsAgree
  BY GameInvInit, GameInvStep, GameInvRecords, PTL DEF Spec

-----------------------------------------------------------------------------
(* The clocks: one that stands shows a whole step, one that counts has an  *)
(* interval of its own and something left.                                 *)
Clocks == {"self", "opp"}
Stopped == [left |-> StepTime, ticking |-> 0]
Counting == [left : 1..StepTime, ticking : {1}]
Reading == {Stopped} \cup Counting

(* What a reading is: the step time bounds what is left, at most one       *)
(* interval counts, and without one a whole step is left.                  *)
LEMMA ReadingFields ==
  ASSUME NEW r \in Reading
  PROVE  /\ r.left \in 1..StepTime
         /\ r.ticking \in {0, 1}
         /\ r.ticking = 0 => r = Stopped
         /\ r.ticking = 1 => r \in Counting
PROOF
<1>1. CASE r = Stopped
  BY <1>1, StepTimeAssumption DEF Stopped
<1>2. CASE r \in Counting
  BY <1>2, StepTimeAssumption DEF Counting
<1> QED
  BY <1>1, <1>2 DEF Reading

(* A clock that stands is a reading of a whole step. *)
LEMMA StoppedReads == Stopped \in Reading /\ Stopped.left = StepTime /\ Stopped.ticking = 0
  BY DEF Stopped, Reading

(* PlayTimer: pause sets the step time back, start makes it count, and a   *)
(* second leaves it counting or, the last one, stops it.                   *)
LEMMA PauseStops ==
  ASSUME NEW r \in Reading
  PROVE  Pause(r) = Stopped
  BY ReadingFields DEF Pause, Stopped

(* start makes a clock count from what it shows. *)
LEMMA StartCounts ==
  ASSUME NEW l \in 1..StepTime
  PROVE  Start([left |-> l, ticking |-> 0]) \in Counting
  BY DEF Start, Counting

(* A second leaves the clock counting or, the last one, stops it. *)
LEMMA SecondCounts ==
  ASSUME NEW r \in Counting
  PROVE  CountDown(r) \in Reading
PROOF
<1>1. CASE r.left = 1
  BY <1>1, PauseStops, StoppedReads DEF CountDown, Reading
<1>2. CASE r.left # 1
  <2>1. r.left \in 1..StepTime /\ r.left - 1 \in 1..StepTime
    BY <1>2, StepTimeAssumption DEF Counting
  <2>2. [r EXCEPT !.left = r.left - 1] \in Counting
    BY <2>1 DEF Counting
  <2> QED
    BY <1>2, <2>2 DEF CountDown, Reading
<1> QED
  BY <1>1, <1>2

(* The clock of a player is one of the two. *)
LEMMA TimerOfClocks == ASSUME NEW s, NEW b PROVE TimerOf(s, b) \in Clocks
  BY DEF TimerOf, Clocks

(* Only the current clock counts. *)
OneClock(cs, cur) ==
  /\ cur \in Clocks
  /\ cs \in [Clocks -> Reading]
  /\ \A t \in Clocks : t # cur => cs[t] = Stopped
AllStopped(cs) == cs = [t \in Clocks |-> Stopped]
ClockInv ==
  /\ OneClock(timers, curTimer)
  /\ HasGame => curTimer = TimerOf(side, board)
  /\ ~HasGame => AllStopped(timers)

(* Clocks that all stand, but for one that is set going. *)
LEMMA OneClockStarted ==
  ASSUME NEW c \in Clocks, NEW r \in Reading, NEW cs,
         cs = [[t \in Clocks |-> Stopped] EXCEPT ![c] = r]
  PROVE  OneClock(cs, c)
  BY StoppedReads DEF OneClock

(* The clock that counts, counted down or stopped by its deadline. *)
LEMMA OneClockCounts ==
  ASSUME OneClock(timers, curTimer), NEW t \in Clocks, Second(t)
  PROVE  OneClock(timers, curTimer)' /\ t = curTimer
PROOF
<1>1. /\ curTimer \in Clocks /\ timers \in [Clocks -> Reading]
      /\ \A x \in Clocks : x # curTimer => timers[x] = Stopped
  BY DEF OneClock
<1>2. timers[t].ticking > 0 /\ curTimer' = curTimer
  BY DEF Second
<1>3. timers[t] \in Reading /\ timers[t].ticking # 0 /\ timers[t] # Stopped
  BY <1>1, <1>2, StoppedReads
<1>4. t = curTimer
  BY <1>1, <1>3
<1>5. timers[t] \in Counting
  BY <1>3 DEF Reading
<1>6. PICK r : r = CountDown(timers[t])
  OBVIOUS
<1>7. timers' = [timers EXCEPT ![t] = r]
  BY <1>6 DEF Second
<1>8. r \in Reading
  BY <1>3, <1>5, <1>6, SecondCounts
<1>9. timers' \in [Clocks -> Reading] /\ \A x \in Clocks : x # t => timers'[x] = timers[x]
  BY <1>1, <1>7, <1>8
<1> QED
  BY <1>1, <1>2, <1>4, <1>9 DEF OneClock

(* Pausing the current clock makes both stand. *)
LEMMA BothStand ==
  ASSUME OneClock(timers, curTimer)
  PROVE  AllStopped([timers EXCEPT ![curTimer] = Pause(timers[curTimer])])
PROOF
<1>1. /\ curTimer \in Clocks /\ timers \in [Clocks -> Reading]
      /\ \A x \in Clocks : x # curTimer => timers[x] = Stopped
  BY DEF OneClock
<1>2. Pause(timers[curTimer]) = Stopped
  BY <1>1, PauseStops
<1> QED
  BY <1>1, <1>2 DEF AllStopped

(* The clocks after switchPlayTimer: stopped, the new one started. *)
LEMMA OneClockSwitches ==
  ASSUME OneClock(timers, curTimer), NEW b, SwitchPlayTimer(b)
  PROVE  OneClock(timers, curTimer)' /\ curTimer' = TimerOf(side, b)
PROOF
<1>1. PICK c \in Clocks : c = curTimer' /\ curTimer' = TimerOf(side, b)
  BY TimerOfClocks DEF SwitchPlayTimer
<1>2. PICK half : half = [timers EXCEPT ![curTimer] = Pause(timers[curTimer])]
  OBVIOUS
<1>3. half = [t \in Clocks |-> Stopped]
  BY <1>2, BothStand DEF AllStopped
<1>4. timers' = [half EXCEPT ![c] = Start(half[c])]
  BY <1>1, <1>2 DEF SwitchPlayTimer
<1>5. Start(half[c]) \in Reading
  BY <1>3, StartCounts, StepTimeAssumption DEF Reading, Stopped
<1>6. OneClock(timers', c)
  BY <1>3, <1>4, <1>5, OneClockStarted
<1> QED
  BY <1>1, <1>6

(* The clocks of a game just entered: the one of the player to move counts *)
(* from what its player has left.                                          *)
LEMMA OneClockBegins ==
  ASSUME AllStopped(timers), Enter
  PROVE  OneClock(timers, curTimer)' /\ curTimer' = TimerOf(side', board')
PROOF
<1>1. \A t \in Clocks : timers[t].ticking = 0
  BY StoppedReads DEF AllStopped
<1>2. PICK b \in Starts, s \in {Red, Black}, spent \in 0..(StepTime - 1), resumed \in BOOLEAN :
        \E mv \in LastMoves(b) :
          Begin(b, s, spent, [t \in {"self", "opp"} |-> timers[t].ticking], resumed, mv)
  BY DEF Enter
<1>m. PICK mv \in LastMoves(b) :
        Begin(b, s, spent, [t \in {"self", "opp"} |-> timers[t].ticking], resumed, mv)
  BY <1>2
<1>3. PICK c \in Clocks : c = TimerOf(s, b)
  BY TimerOfClocks
<1>4. PICK l \in 1..StepTime : l = StepTime - spent
  BY StepTimeAssumption
<1>5. PICK stopped : stopped = [t \in Clocks |-> [Timer(IF t = c THEN spent ELSE 0) EXCEPT !.ticking = timers[t].ticking]]
  OBVIOUS
<1>6. /\ board' = b /\ side' = s /\ curTimer' = c
      /\ timers' = [stopped EXCEPT ![c] = Start(stopped[c])]
  BY <1>m, <1>3, <1>5 DEF Begin, Clocks
<1>7. stopped[c] = [left |-> l, ticking |-> 0]
  BY <1>1, <1>4, <1>5 DEF Timer
<1>8. ASSUME NEW t \in Clocks, t # c
      PROVE  stopped[t] = Stopped
  BY <1>1, <1>5, <1>8, StepTimeAssumption DEF Timer, Stopped
<1>9. timers' = [[t \in Clocks |-> Stopped] EXCEPT ![c] = Start(stopped[c])]
  BY <1>5, <1>6, <1>8
<1>10. Start(stopped[c]) \in Reading
  BY <1>7, StartCounts DEF Reading
<1>11. OneClock(timers', c)
  BY <1>9, <1>10, OneClockStarted
<1> QED
  BY <1>3, <1>6, <1>11

(* clear() stops the clock that counts. *)
LEMMA ClocksStop ==
  ASSUME OneClock(timers, curTimer), Clear
  PROVE  OneClock(timers, curTimer)' /\ AllStopped(timers)'
PROOF
<1>1. curTimer' = curTimer /\ timers' = [timers EXCEPT ![curTimer] = Pause(timers[curTimer])]
  BY DEF Clear
<1>2. timers' = [t \in Clocks |-> Stopped]
  BY <1>1, BothStand DEF AllStopped
<1>3. curTimer \in Clocks
  BY DEF OneClock
<1> QED
  BY <1>1, <1>2, <1>3, StoppedReads DEF OneClock, AllStopped

(* Both clocks stand on a page without a game. *)
LEMMA ClockInvInit == Init => ClockInv
PROOF
<1> SUFFICES ASSUME Init PROVE ClockInv
  OBVIOUS
<1>1. timers = [t \in Clocks |-> Stopped] /\ curTimer \in Clocks /\ ~HasGame
  BY DEF Init, Idle, Clocks, Stopped, HasGame
<1> QED
  BY <1>1, StoppedReads DEF ClockInv, OneClock, AllStopped

(* Every step keeps one clock counting, that of the player to move. *)
LEMMA ClockInvStep == GameInv /\ GameInv' /\ ClockInv /\ [Next]_vars => ClockInv'
PROOF
<1> SUFFICES ASSUME GameInv, GameInv', ClockInv, PageStep
             PROVE  ClockInv'
  BY StepsOfPage
<1>t. /\ OneClock(timers, curTimer)
      /\ HasGame => curTimer = TimerOf(side, board)
      /\ ~HasGame => AllStopped(timers)
  BY DEF ClockInv
<1>k. ASSUME UNCHANGED <<board, side, timers, curTimer>>
      PROVE  ClockInv'
  BY <1>k, <1>t DEF ClockInv, OneClock, AllStopped, HasGame, TimerOf
<1>1. CASE Enter
  <2>1. OneClock(timers, curTimer)' /\ curTimer' = TimerOf(side', board')
    BY <1>1, <1>t, OneClockBegins DEF Enter
  <2>2. HasGame'
    <3>1. PICK b \in Starts : board' = b
      BY <1>1 DEF Enter, Begin
    <3>2. InPlay(board')
      BY <3>1, StartsAssumption
    <3> QED
      BY <3>2, InPlayIsGame DEF HasGame
  <2> QED
    BY <2>1, <2>2 DEF ClockInv
<1>2. CASE Clear
  <2>1. ~HasGame'
    BY <1>2 DEF Clear, HasGame
  <2> QED
    BY <1>2, <1>t, <2>1, ClocksStop DEF ClockInv
<1>3. CASE ChangePieceStyle
  BY <1>3, <1>k DEF ChangePieceStyle, game, clocks
<1>4. CASE TogglePrompt
  BY <1>4, <1>k DEF TogglePrompt, game, clocks
<1>s. ASSUME SwitchPlayTimer(board'), side' = side, HasGame'
      PROVE  ClockInv'
  <2>1. PICK b : b = board'
    OBVIOUS
  <2>2. OneClock(timers, curTimer)' /\ curTimer' = TimerOf(side, b)
    BY <1>s, <1>t, <2>1, OneClockSwitches
  <2>3. curTimer' = TimerOf(side', board')
    BY <2>1, <2>2, <1>s
  <2> QED
    BY <2>2, <2>3, <1>s DEF ClockInv
<1>5. CASE TakeBack
  <2>1. SwitchPlayTimer(board') /\ side' = side
    BY <1>5 DEF TakeBack
  <2>2. HasGame'
    BY <1>5, TakeBackGoesOn
  <2> QED
    BY <2>1, <2>2, <1>s
<1>6. CASE TakeBackFails
  BY <1>6, <1>k DEF TakeBackFails, game, clocks
<1>7. ASSUME NEW pos, Selects(pos)
      PROVE  ClockInv'
  BY <1>7, <1>k DEF Selects, ClickSelect, game, clocks
<1>8. ASSUME NEW mv, Plays(mv)
      PROVE  ClockInv'
  <2>1. SwitchPlayTimer(board') /\ side' = side
    BY <1>8 DEF Plays, PlayOnPage
  <2>2. HasGame'
    BY <1>8, PlayGoesOn
  <2> QED
    BY <2>1, <2>2, <1>s
<1>9. ASSUME NEW k \in 1..Len(records), Watch(k)
      PROVE  ClockInv'
  BY <1>9, <1>k DEF Watch, game, clocks
<1>10. ASSUME NEW t \in {"self", "opp"}, Second(t)
       PROVE  ClockInv'
  <2>1. OneClock(timers, curTimer)' /\ t = curTimer
    BY <1>10, <1>t, OneClockCounts DEF Clocks
  <2>2. UNCHANGED <<board, side, curTimer>>
    BY <1>10 DEF Second, game
  <2>3. timers[t].ticking > 0 /\ t \in Clocks
    BY <1>10 DEF Second, Clocks
  <2>4. HasGame
    BY <2>3, <1>t, StoppedReads DEF AllStopped
  <2>5. HasGame' /\ curTimer' = TimerOf(side', board')
    BY <2>2, <2>4, <1>t DEF HasGame, TimerOf
  <2> QED
    BY <2>1, <2>5 DEF ClockInv
<1>11. CASE UNCHANGED vars
  BY <1>11, <1>k DEF vars
<1> QED
  BY <1>1, <1>2, <1>3, <1>4, <1>5, <1>6, <1>7, <1>8, <1>9, <1>10, <1>11 DEF PageStep

(* ClockFollowsTurn: one clock counts, the one of the player to move.      *)
LEMMA ClockInvFollows == ClockInv => ClockFollowsTurn
PROOF
<1> SUFFICES ASSUME ClockInv PROVE ClockFollowsTurn
  OBVIOUS
<1>1. HasGame => curTimer = TimerOf(side, board)
  BY DEF ClockInv
<1>2. ASSUME NEW t \in Clocks
      PROVE  /\ timers[t].left \in 1..StepTime
             /\ timers[t].ticking <= (IF HasGame /\ t = curTimer THEN 1 ELSE 0)
             /\ timers[t].ticking = 0 => timers[t].left = StepTime
  <2>1. timers[t] \in Reading /\ (t # curTimer => timers[t] = Stopped)
    BY DEF ClockInv, OneClock
  <2>2. ~HasGame => timers[t] = Stopped
    BY DEF ClockInv, AllStopped
  <2>3. timers[t].left \in 1..StepTime /\ timers[t].ticking \in {0, 1}
    BY <2>1, ReadingFields
  <2>4. timers[t].ticking = 0 => timers[t] = Stopped
    BY <2>1, ReadingFields
  <2>5. ~(HasGame /\ t = curTimer) => timers[t].ticking = 0
    BY <2>1, <2>2, StoppedReads
  <2> QED
    BY <2>3, <2>4, <2>5, StoppedReads
<1> QED
  BY <1>1, <1>2 DEF ClockFollowsTurn, Clocks

(* ClockFollowsTurn: over moves, take-backs, deadlines and games, one      *)
(* clock counts, that of the player to move, and one that stands shows a   *)
(* whole step.                                                             *)
THEOREM PageClockFollowsTurn == Spec => []ClockFollowsTurn
  BY GameInvInit, GameInvStep, ClockInvInit, ClockInvStep, ClockInvFollows, PTL DEF Spec

-----------------------------------------------------------------------------
(* What a displayer shows, part by part.                                   *)
Look(d, f, s, t, p, c, m, k) ==
  d = [flip |-> f, sel |-> s, track |-> t, prompts |-> p, clicks |-> c, men |-> m, clear |-> k]
IsShown(d) == Look(d, d.flip, d.sel, d.track, d.prompts, d.clicks, d.men, d.clear)
OnScreen(f, pos) == IF f THEN FlipPos(pos) ELSE pos

(* The parts of what a displayer shows, by name. *)
LEMMA LookParts ==
  ASSUME NEW d, NEW f, NEW s, NEW t, NEW p, NEW c, NEW m, NEW k, Look(d, f, s, t, p, c, m, k)
  PROVE  /\ IsShown(d)
         /\ d.flip = f /\ d.sel = s /\ d.track = t /\ d.prompts = p /\ d.clicks = c
         /\ d.men = m /\ d.clear = k
  BY DEF Look, IsShown

(* What the operations of the displayer change. *)
LEMMA Fresh ==
  ASSUME NEW d, NEW off \in BOOLEAN
  PROVE  Look(InitResource(d, off), d.flip, NoMark, <<>>, {}, ~off, <<>>, {})
  BY DEF InitResource, Look

(* The mark of a selection is put down and taken away. *)
LEMMA Selected ==
  ASSUME NEW d, NEW f, NEW s, NEW t, NEW p, NEW c, NEW m, NEW k, Look(d, f, s, t, p, c, m, k), NEW pos
  PROVE  /\ Look(SelectPiece(d, pos), f, OnScreen(f, pos), t, p, c, m, k)
         /\ Look(UnSelectPiece(d), f, NoMark, t, p, c, m, k)
PROOF
<1>1. d = [flip |-> f, sel |-> s, track |-> t, prompts |-> p, clicks |-> c, men |-> m, clear |-> k]
  BY DEF Look
<1>2. Screen(d, pos) = OnScreen(f, pos)
  BY <1>1 DEF Screen, OnScreen
<1>3. PICK x : x = OnScreen(f, pos)
  OBVIOUS
<1>4. \A y : [d EXCEPT !.sel = y] = [flip |-> f, sel |-> y, track |-> t, prompts |-> p,
                                     clicks |-> c, men |-> m, clear |-> k]
  BY <1>1
<1> QED
  BY <1>2, <1>4 DEF SelectPiece, UnSelectPiece, Look

(* The marks of the last move are put down and taken away. *)
LEMMA Tracked ==
  ASSUME NEW d, NEW f, NEW s, NEW t, NEW p, NEW c, NEW m, NEW k, Look(d, f, s, t, p, c, m, k), NEW mv
  PROVE  /\ Look(AddLastTrack(d, mv), f, s, <<OnScreen(f, StartOfMove(mv)), OnScreen(f, EndOfMove(mv))>>, p, c, m, k)
         /\ Look(RemoveLastTrack(d), f, s, <<>>, p, c, m, k)
PROOF
<1>1. d = [flip |-> f, sel |-> s, track |-> t, prompts |-> p, clicks |-> c, men |-> m, clear |-> k]
  BY DEF Look
<1>2. \A pos : Screen(d, pos) = OnScreen(f, pos)
  BY <1>1 DEF Screen, OnScreen
<1>4. \A y : [d EXCEPT !.track = y] = [flip |-> f, sel |-> s, track |-> y, prompts |-> p,
                                     clicks |-> c, men |-> m, clear |-> k]
  BY <1>1
<1> QED
  BY <1>2, <1>4 DEF AddLastTrack, RemoveLastTrack, Look

(* The hints are put down and taken away. *)
LEMMA Prompted ==
  ASSUME NEW d, NEW f, NEW s, NEW t, NEW p, NEW c, NEW m, NEW k, Look(d, f, s, t, p, c, m, k), NEW mvs
  PROVE  /\ Look(ShowPrompt(d, mvs), f, s, t, p \cup {OnScreen(f, EndOfMove(mv)) : mv \in mvs}, c, m, k)
         /\ Look(UnshowPrompt(d), f, s, t, {}, c, m, k)
PROOF
<1>1. d = [flip |-> f, sel |-> s, track |-> t, prompts |-> p, clicks |-> c, men |-> m, clear |-> k]
  BY DEF Look
<1>2. \A pos : Screen(d, pos) = OnScreen(f, pos)
  BY <1>1 DEF Screen, OnScreen
<1>3. {Screen(d, EndOfMove(mv)) : mv \in mvs} = {OnScreen(f, EndOfMove(mv)) : mv \in mvs}
  BY <1>2
<1>4. \A y : [d EXCEPT !.prompts = y] = [flip |-> f, sel |-> s, track |-> t, prompts |-> y,
                                     clicks |-> c, men |-> m, clear |-> k]
  BY <1>1
<1>5. d.prompts = p
  BY <1>1
<1>6. ShowPrompt(d, mvs) = [d EXCEPT !.prompts = p \cup {OnScreen(f, EndOfMove(mv)) : mv \in mvs}]
  BY <1>3, <1>5 DEF ShowPrompt
<1> QED
  BY <1>4, <1>6 DEF UnshowPrompt, Look
Pieces(men, old) == [q \in DOMAIN men \cup DOMAIN old |-> IF q \in DOMAIN men THEN men[q] ELSE old[q]]

(* Men put over those that were there. *)
LEMMA Pieced ==
  ASSUME NEW d, NEW f, NEW s, NEW t, NEW p, NEW c, NEW m, NEW k, Look(d, f, s, t, p, c, m, k), NEW position
  PROVE  Look(AddPieces(d, position), f, s, t, p, c, Pieces(position.men, m), k)
PROOF
<1>1. d = [flip |-> f, sel |-> s, track |-> t, prompts |-> p, clicks |-> c, men |-> m, clear |-> k]
  BY DEF Look
<1>4. \A y : [d EXCEPT !.men = y] = [flip |-> f, sel |-> s, track |-> t, prompts |-> p,
                                     clicks |-> c, men |-> y, clear |-> k]
  BY <1>1
<1>5. d.men = m
  BY <1>1
<1>6. AddPieces(d, position) = [d EXCEPT !.men = Pieces(position.men, m)]
  BY <1>5 DEF AddPieces, Pieces
<1> QED
  BY <1>4, <1>6 DEF Look
(* Men put on an empty board. *)
LEMMA PiecesAlone == ASSUME NEW b PROVE Pieces(PositionOf(b).men, <<>>) = PositionOf(b).men
  BY DEF Pieces, PositionOf

(* Pictures and their visibility changed together. *)
LEMMA TwoChanged ==
  ASSUME NEW d, NEW f, NEW s, NEW t, NEW p, NEW c, NEW m, NEW k, Look(d, f, s, t, p, c, m, k),
         NEW x, NEW y, NEW g, g = [d EXCEPT !.men = x, !.clear = y]
  PROVE  Look(g, f, s, t, p, c, x, y)
PROOF
<1>1. d = [flip |-> f, sel |-> s, track |-> t, prompts |-> p, clicks |-> c, men |-> m, clear |-> k]
  BY DEF Look
<1>2. /\ g.flip = f /\ g.sel = s /\ g.track = t /\ g.prompts = p /\ g.clicks = c
      /\ g.men = x /\ g.clear = y
  BY <1>1
<1>3. g = [flip |-> g.flip, sel |-> g.sel, track |-> g.track, prompts |-> g.prompts,
           clicks |-> g.clicks, men |-> g.men, clear |-> g.clear]
  BY <1>1
<1> QED
  BY <1>2, <1>3 DEF Look

(* A move displayed, and one taken back. *)
LEMMA MovedOnScreen ==
  ASSUME NEW d, NEW f, NEW s, NEW t, NEW p, NEW c, NEW m, NEW k, Look(d, f, s, t, p, c, m, k),
         NEW mv, NEW a, a = StartOfMove(mv), NEW z, z = EndOfMove(mv)
  PROVE  Look(DisplayMove(d, mv), f, s, <<OnScreen(f, a), OnScreen(f, z)>>, p, c,
              SwapImage(m, a, z), (k \ {z}) \cup {a})
PROOF
<1>1. PICK e : e = AddLastTrack(d, mv)
  OBVIOUS
<1>2. PICK tr : tr = <<OnScreen(f, a), OnScreen(f, z)>>
  OBVIOUS
<1>3. Look(e, f, s, tr, p, c, m, k)
  BY <1>1, <1>2, Tracked
<1>4. e = [flip |-> f, sel |-> s, track |-> tr, prompts |-> p, clicks |-> c, men |-> m, clear |-> k]
  BY <1>3 DEF Look
<1>5. DisplayMove(d, mv) = [e EXCEPT !.men = SwapImage(m, a, z), !.clear = (k \ {z}) \cup {a}]
  BY <1>1, <1>4 DEF DisplayMove
<1>6. PICK x, y, g : x = SwapImage(m, a, z) /\ y = (k \ {z}) \cup {a} /\ g = DisplayMove(d, mv)
  OBVIOUS
<1>7. Look(g, f, s, tr, p, c, x, y)
  BY <1>3, <1>5, <1>6, TwoChanged
<1> QED
  BY <1>2, <1>6, <1>7

(* What DisplayUndo changes: the pictures go back, both are seen, the      *)
(* track and the hints go.                                                 *)
LEMMA UndoneOnScreen ==
  ASSUME NEW d, NEW f, NEW s, NEW t, NEW p, NEW c, NEW m, NEW k, Look(d, f, s, t, p, c, m, k),
         NEW mv, NEW a, a = StartOfMove(mv), NEW z, z = EndOfMove(mv)
  PROVE  Look(DisplayUndo(d, mv), f, s, <<>>, {}, c, SwapImage(m, a, z), k \ {a, z})
PROOF
<1>0. PICK u : u = UnshowPrompt(d)
  OBVIOUS
<1>1. PICK e : e = RemoveLastTrack(u)
  OBVIOUS
<1>2. Look(u, f, s, t, {}, c, m, k)
  BY <1>0, Prompted
<1>3. Look(e, f, s, <<>>, {}, c, m, k)
  BY <1>1, <1>2, Tracked
<1>4. e = [flip |-> f, sel |-> s, track |-> <<>>, prompts |-> {}, clicks |-> c, men |-> m, clear |-> k]
  BY <1>3 DEF Look
<1>5. DisplayUndo(d, mv) = [e EXCEPT !.men = SwapImage(m, a, z), !.clear = k \ {a, z}]
  BY <1>0, <1>1, <1>4 DEF DisplayUndo
<1>6. PICK x, y, g : x = SwapImage(m, a, z) /\ y = k \ {a, z} /\ g = DisplayUndo(d, mv)
  OBVIOUS
<1>7. Look(g, f, s, <<>>, {}, c, x, y)
  BY <1>3, <1>5, <1>6, TwoChanged
<1> QED
  BY <1>6, <1>7
(* A selection marked, with its hints if they are wanted. *)
Hints(f, b, pos) == {OnScreen(f, EndOfMove(mv)) : mv \in Prompt(b, pos)}

(* What Marked changes: the mark, and the hints if they are wanted. *)
LEMMA MarkedOnScreen ==
  ASSUME NEW d, NEW f, NEW s, NEW t, NEW c, NEW m, NEW k, Look(d, f, s, t, {}, c, m, k), NEW pos
  PROVE  \E p : /\ p = {} \/ p = Hints(f, board, pos)
                /\ Look(Marked(d, pos), f, OnScreen(f, pos), t, p, c, m, k)
PROOF
<1>1. PICK e : e = SelectPiece(d, pos)
  OBVIOUS
<1>2. PICK s2 : s2 = OnScreen(f, pos)
  OBVIOUS
<1>3. Look(e, f, s2, t, {}, c, m, k)
  BY <1>1, <1>2, Selected
<1>4. CASE switchPrompt
  <2>1. PICK mvs : mvs = Prompt(board, pos)
    OBVIOUS
  <2>2. Look(ShowPrompt(e, mvs), f, s2, t, {} \cup {OnScreen(f, EndOfMove(mv)) : mv \in mvs}, c, m, k)
    BY <1>3, Prompted
  <2>3. {} \cup {OnScreen(f, EndOfMove(mv)) : mv \in mvs} = Hints(f, board, pos)
    BY <2>1 DEF Hints
  <2>4. Look(ShowPrompt(e, mvs), f, s2, t, Hints(f, board, pos), c, m, k)
    BY <2>2, <2>3
  <2>5. Marked(d, pos) = ShowPrompt(e, mvs)
    BY <1>1, <1>4, <2>1 DEF Marked
  <2> QED
    BY <1>2, <2>4, <2>5
<1>5. CASE ~switchPrompt
  <2>1. Marked(d, pos) = e
    BY <1>1, <1>5 DEF Marked
  <2> QED
    BY <1>2, <1>3, <2>1
<1> QED
  BY <1>4, <1>5

-----------------------------------------------------------------------------
(* What every step shows. *)
Track(f, mv) == <<OnScreen(f, StartOfMove(mv)), OnScreen(f, EndOfMove(mv))>>
(* The mark and the hints of a selection, if there is one. *)
Chosen(f, s, p, b, pos) ==
  IF pos = None THEN s \notin Squares /\ p = {}
  ELSE s = OnScreen(f, pos) /\ (p = {} \/ p = Hints(f, b, pos))

(* Neither no mark, no square, nor the 0 that flipBoard marks is a square. *)
LEMMA NoMarkIsNoSquare == NoMark \notin Squares /\ None \notin Squares /\ 0 \notin Squares
PROOF
<1>1. \A q \in Squares : q > 0
  BY SquareBounds
<1> QED
  BY <1>1 DEF NoMark, None

(* The screen of a game just entered: its men, no selection on the board,  *)
(* and a track if it is a resumed one.                                     *)
LEMMA ShownByEnter ==
  ASSUME Enter
  PROVE  \E f, s, t : s \notin Squares /\ Look(shown', f, s, t, {}, TRUE, PositionOf(board').men, {})
PROOF
<1>1. PICK b \in Starts, s \in {Red, Black}, spent \in 0..(StepTime - 1), resumed \in BOOLEAN :
        \E mv \in LastMoves(b) :
          Begin(b, s, spent, [t \in {"self", "opp"} |-> timers[t].ticking], resumed, mv)
  BY DEF Enter
<1>m. PICK mv \in LastMoves(b) :
        Begin(b, s, spent, [t \in {"self", "opp"} |-> timers[t].ticking], resumed, mv)
  BY <1>1
<1>2. PICK f : f = (s = Black)
  OBVIOUS
<1>3. PICK r : r = [flip |-> f]
  OBVIOUS
<1>4. PICK fresh : fresh = InitResource(r, FALSE)
  OBVIOUS
<1>5. PICK men : /\ men = AddPieces(IF f THEN [fresh EXCEPT !.sel = 0] ELSE fresh, PositionOf(b))
                 /\ board' = b /\ shown' = IF resumed THEN AddLastTrack(men, mv) ELSE men
  BY <1>m, <1>2, <1>3, <1>4 DEF Begin
<1>6. Look(fresh, f, NoMark, <<>>, {}, TRUE, <<>>, {})
  <2>1. Look(fresh, r.flip, NoMark, <<>>, {}, ~FALSE, <<>>, {})
    BY <1>4, Fresh
  <2>2. r.flip = f /\ ~FALSE = TRUE
    BY <1>3
  <2> QED
    BY <2>1, <2>2
<1>7. PICK d, s2 : /\ d = (IF f THEN [fresh EXCEPT !.sel = 0] ELSE fresh)
                   /\ s2 = (IF f THEN 0 ELSE NoMark)
  OBVIOUS
<1>8. Look(d, f, s2, <<>>, {}, TRUE, <<>>, {})
  <2>1. CASE f
    <3>1. d = [fresh EXCEPT !.sel = 0] /\ s2 = 0
      BY <1>7, <2>1
    <3> QED
      BY <3>1, <1>6 DEF Look
  <2>2. CASE ~f
    BY <1>6, <1>7, <2>2
  <2> QED
    BY <2>1, <2>2
<1>9. Look(men, f, s2, <<>>, {}, TRUE, Pieces(PositionOf(b).men, <<>>), {})
  <2>1. men = AddPieces(d, PositionOf(b))
    BY <1>5, <1>7
  <2> QED
    BY <2>1, <1>8, Pieced
<1>10. PICK t : Look(shown', f, s2, t, {}, TRUE, Pieces(PositionOf(b).men, <<>>), {})
  <2>1. CASE resumed
    <3>1. shown' = AddLastTrack(men, mv)
      BY <1>5, <2>1
    <3> QED
      BY <3>1, <1>9, Tracked
  <2>2. CASE ~resumed
    BY <1>5, <1>9, <2>2
  <2> QED
    BY <2>1, <2>2
<1>11. s2 \notin Squares
  BY <1>7, NoMarkIsNoSquare
<1> QED
  BY <1>5, <1>10, <1>11, PiecesAlone

(* The screen of a game put away is bare. *)
LEMMA ShownByClear ==
  ASSUME IsShown(shown), Clear
  PROVE  Look(shown', FALSE, NoMark, <<>>, {}, TRUE, <<>>, {})
PROOF
<1>1. PICK d : d = [shown EXCEPT !.flip = FALSE]
  OBVIOUS
<1>2. d.flip = FALSE
  BY <1>1 DEF IsShown, Look
<1>3. shown' = InitResource(d, FALSE)
  BY <1>1 DEF Clear, Reset, SetMode
<1>4. Look(shown', d.flip, NoMark, <<>>, {}, ~FALSE, <<>>, {})
  BY <1>3, Fresh
<1>5. ~FALSE = TRUE
  OBVIOUS
<1> QED
  BY <1>2, <1>4, <1>5

(* The screen after a click on an own piece: the marks of the new          *)
(* selection, or none.                                                     *)
LEMMA ShownBySelects ==
  ASSUME NEW f, NEW s, NEW t, NEW p, NEW c, NEW m, NEW k, Look(shown, f, s, t, p, c, m, k),
         NEW pos, Selects(pos)
  PROVE  \E s2, p2 : /\ Look(shown', f, s2, t, p2, c, m, k)
                     /\ Chosen(f, s2, p2, board, selectedPos')
PROOF
<1>1. PICK u : u = UnshowPrompt(shown)
  OBVIOUS
<1>2. Look(u, f, s, t, {}, c, m, k)
  BY <1>1, Prompted
<1>3. pos \in Squares /\ pos # None
  BY NoMarkIsNoSquare DEF Selects
<1>4. CASE selectedPos = pos
  <2>1. selectedPos' = None /\ shown' = UnSelectPiece(u)
    BY <1>1, <1>4 DEF Selects, ClickSelect
  <2>2. Look(shown', f, NoMark, t, {}, c, m, k)
    BY <1>2, <2>1, Selected
  <2> QED
    BY <2>1, <2>2, NoMarkIsNoSquare DEF Chosen
<1>5. CASE selectedPos # pos
  <2>1. selectedPos' = pos /\ shown' = Marked(u, pos)
    BY <1>1, <1>5 DEF Selects, ClickSelect
  <2>2. PICK p2 : /\ p2 = {} \/ p2 = Hints(f, board, pos)
                  /\ Look(shown', f, OnScreen(f, pos), t, p2, c, m, k)
    BY <1>2, <2>1, MarkedOnScreen
  <2> QED
    BY <1>3, <2>1, <2>2 DEF Chosen
<1> QED
  BY <1>4, <1>5

(* The screen after a move, unless an old position is watched. *)
LEMMA ShownByPlays ==
  ASSUME NEW f, NEW s, NEW t, NEW p, NEW c, NEW m, NEW k, Look(shown, f, s, t, p, c, m, k),
         NEW mv, Plays(mv), ~watchMode, NEW a, a = StartOfMove(mv), NEW z, z = EndOfMove(mv)
  PROVE  Look(shown', f, NoMark, Track(f, mv), {}, c, SwapImage(m, a, z), (k \ {z}) \cup {a})
PROOF
<1>1. PICK u : u = UnSelectPiece(shown)
  OBVIOUS
<1>2. PICK v : v = UnshowPrompt(u)
  OBVIOUS
<1>3. Look(u, f, NoMark, t, p, c, m, k)
  BY <1>1, Selected
<1>4. Look(v, f, NoMark, t, {}, c, m, k)
  BY <1>2, <1>3, Prompted
<1>5. shown' = DisplayMove(v, mv)
  BY <1>1, <1>2 DEF Plays, PlayOnPage
<1>6. Look(shown', f, NoMark, <<OnScreen(f, a), OnScreen(f, z)>>, {}, c,
           SwapImage(m, a, z), (k \ {z}) \cup {a})
  BY <1>4, <1>5, MovedOnScreen
<1> QED
  BY <1>6 DEF Track

(* The screen after a take-back: the move before the one taken back is     *)
(* marked.                                                                 *)
LEMMA ShownByTakeBack ==
  ASSUME NEW f, NEW s, NEW t, NEW p, NEW c, NEW m, NEW k, Look(shown, f, s, t, p, c, m, k),
         TakeBack, NEW mv, mv = GetLastMove(board), NEW a, a = StartOfMove(mv), NEW z, z = EndOfMove(mv)
  PROVE  \E t2 : /\ GetLastMove(board') # None => t2 = Track(f, GetLastMove(board'))
                 /\ Look(shown', f, NoMark, t2, {}, c, SwapImage(m, a, z), k \ {a, z})
PROOF
<1>1. PICK u : u = UnSelectPiece(shown)
  OBVIOUS
<1>2. PICK v : v = DisplayUndo(u, mv)
  OBVIOUS
<1>3. PICK last : last = GetLastMove(board')
  OBVIOUS
<1>4. Look(u, f, NoMark, t, p, c, m, k)
  BY <1>1, Selected
<1>5. Look(v, f, NoMark, <<>>, {}, c, SwapImage(m, a, z), k \ {a, z})
  BY <1>2, <1>4, UndoneOnScreen
<1>6. shown' = IF last # None THEN AddLastTrack(v, last) ELSE v
  BY <1>1, <1>2, <1>3 DEF TakeBack
<1>7. CASE last # None
  <2>1. Look(shown', f, NoMark, <<OnScreen(f, StartOfMove(last)), OnScreen(f, EndOfMove(last))>>,
             {}, c, SwapImage(m, a, z), k \ {a, z})
    BY <1>5, <1>6, <1>7, Tracked
  <2> QED
    BY <2>1, <1>3 DEF Track
<1>8. CASE last = None
  BY <1>3, <1>5, <1>6, <1>8
<1> QED
  BY <1>7, <1>8

(* The screen after a take-back that finds no move: the selection is gone. *)
LEMMA ShownByTakeBackFails ==
  ASSUME NEW f, NEW s, NEW t, NEW p, NEW c, NEW m, NEW k, Look(shown, f, s, t, p, c, m, k), TakeBackFails
  PROVE  Look(shown', f, NoMark, t, {}, c, m, k)
PROOF
<1>1. PICK u : u = UnshowPrompt(shown)
  OBVIOUS
<1>2. Look(u, f, s, t, {}, c, m, k)
  BY <1>1, Prompted
<1>3. shown' = UnSelectPiece(u)
  BY <1>1 DEF TakeBackFails
<1> QED
  BY <1>2, <1>3, Selected

(* The screen after the hints are switched: only hints may go. *)
LEMMA ShownByToggle ==
  ASSUME NEW f, NEW s, NEW t, NEW p, NEW c, NEW m, NEW k, Look(shown, f, s, t, p, c, m, k), TogglePrompt
  PROVE  \E p2 : (p2 = p \/ p2 = {}) /\ Look(shown', f, s, t, p2, c, m, k)
PROOF
<1>1. shown' = UnshowPrompt(shown) \/ shown' = shown
  BY DEF TogglePrompt
<1>2. Look(UnshowPrompt(shown), f, s, t, {}, c, m, k)
  BY Prompted
<1> QED
  BY <1>1, <1>2

(* A position of the list, and the present one anew. *)
LEMMA ShownByWatch ==
  ASSUME NEW f, NEW s, NEW t, NEW p, NEW c, NEW m, NEW k, Look(shown, f, s, t, p, c, m, k),
         NEW n, Watch(n), watchMode \/ n # Len(records), history[n].fen \in Positions
  PROVE  \E s2, p2, c2 :
           /\ Look(shown', f, s2, Track(f, history[n].mv), p2, c2, history[n].fen.men, {})
           /\ n = Len(records) => Chosen(f, s2, p2, board, selectedPos)
PROOF
<1>1. PICK last \in BOOLEAN : last = (n = Len(records))
  OBVIOUS
<1>2. PICK again : again = IF last /\ selectedPos # None
                           THEN Marked(SetMode(shown, FALSE), selectedPos) ELSE SetMode(shown, ~last)
  OBVIOUS
<1>3. PICK step : step = history[n]
  OBVIOUS
<1>4. PICK d : d = AddPieces(again, step.fen)
  OBVIOUS
<1>5. shown' = AddLastTrack(d, step.mv)
  BY <1>1, <1>2, <1>3, <1>4 DEF Watch
<1>6. \E s2, p2, c2 : /\ Look(again, f, s2, <<>>, p2, c2, <<>>, {})
                      /\ last => Chosen(f, s2, p2, board, selectedPos)
  <2>0. shown.flip = f
    BY LookParts
  <2>1. CASE last /\ selectedPos # None
    <3>1. Look(SetMode(shown, FALSE), f, NoMark, <<>>, {}, ~FALSE, <<>>, {})
      BY <2>0, Fresh DEF SetMode
    <3>2. again = Marked(SetMode(shown, FALSE), selectedPos)
      BY <1>2, <2>1
    <3>3. PICK p2 : /\ p2 = {} \/ p2 = Hints(f, board, selectedPos)
                    /\ Look(again, f, OnScreen(f, selectedPos), <<>>, p2, ~FALSE, <<>>, {})
      BY <3>1, <3>2, MarkedOnScreen
    <3>4. Chosen(f, OnScreen(f, selectedPos), p2, board, selectedPos)
      BY <2>1, <3>3 DEF Chosen
    <3> QED
      BY <3>3, <3>4
  <2>2. CASE ~(last /\ selectedPos # None)
    <3>1. again = InitResource(shown, ~last) /\ (~last) \in BOOLEAN
      BY <1>2, <2>2 DEF SetMode
    <3>2. Look(again, f, NoMark, <<>>, {}, ~(~last), <<>>, {})
      BY <2>0, <3>1, Fresh
    <3>3. last => Chosen(f, NoMark, {}, board, selectedPos)
      BY <2>2, NoMarkIsNoSquare DEF Chosen
    <3> QED
      BY <3>2, <3>3
  <2> QED
    BY <2>1, <2>2
<1>7. PICK s2, p2, c2 : /\ Look(again, f, s2, <<>>, p2, c2, <<>>, {})
                        /\ last => Chosen(f, s2, p2, board, selectedPos)
  BY <1>6
<1>8. Pieces(step.fen.men, <<>>) = step.fen.men
  BY <1>3, PiecesAlone DEF Positions
<1>9. Look(d, f, s2, <<>>, p2, c2, step.fen.men, {})
  <2>1. Look(d, f, s2, <<>>, p2, c2, Pieces(step.fen.men, <<>>), {})
    BY <1>4, <1>7, Pieced
  <2> QED
    BY <2>1, <1>8
<1>10. Look(shown', f, s2, <<OnScreen(f, StartOfMove(step.mv)), OnScreen(f, EndOfMove(step.mv))>>,
            p2, c2, step.fen.men, {})
  BY <1>5, <1>9, Tracked
<1> QED
  BY <1>1, <1>3, <1>7, <1>10 DEF Track

(* The screen set up anew for another style. *)
LEMMA ShownByStyle ==
  ASSUME NEW f, NEW s, NEW t, NEW p, NEW c, NEW m, NEW k, Look(shown, f, s, t, p, c, m, k), ChangePieceStyle
  PROVE  \E s2, t2, p2 :
           /\ Look(shown', f, s2, t2, p2, TRUE, PositionOf(board).men, {})
           /\ GetLastMove(board) # None => t2 = Track(f, GetLastMove(board))
           /\ Chosen(f, s2, p2, board, selectedPos)
PROOF
<1>1. PICK fresh : fresh = InitResource(shown, FALSE)
  OBVIOUS
<1>2. PICK d : d = AddPieces(fresh, PositionOf(board))
  OBVIOUS
<1>3. PICK last : last = GetLastMove(board)
  OBVIOUS
<1>4. PICK e : e = IF last # None THEN AddLastTrack(d, last) ELSE d
  OBVIOUS
<1>5. shown' = IF selectedPos # None THEN Marked(e, selectedPos) ELSE e
  BY <1>1, <1>2, <1>3, <1>4 DEF ChangePieceStyle
<1>6. Look(fresh, f, NoMark, <<>>, {}, TRUE, <<>>, {})
  <2>1. shown.flip = f
    BY LookParts
  <2>2. Look(fresh, f, NoMark, <<>>, {}, ~FALSE, <<>>, {})
    BY <1>1, <2>1, Fresh
  <2>3. ~FALSE = TRUE
    OBVIOUS
  <2> QED
    BY <2>2, <2>3
<1>7. PICK men : men = PositionOf(board).men
  OBVIOUS
<1>8. Look(d, f, NoMark, <<>>, {}, TRUE, men, {})
  <2>1. Look(d, f, NoMark, <<>>, {}, TRUE, Pieces(PositionOf(board).men, <<>>), {})
    BY <1>2, <1>6, Pieced
  <2> QED
    BY <2>1, <1>7, PiecesAlone
<1>9. \E t2 : /\ Look(e, f, NoMark, t2, {}, TRUE, men, {})
              /\ last # None => t2 = Track(f, last)
  <2>1. CASE last # None
    <3>1. Look(e, f, NoMark, <<OnScreen(f, StartOfMove(last)), OnScreen(f, EndOfMove(last))>>, {}, TRUE, men, {})
      BY <1>4, <1>8, <2>1, Tracked
    <3> QED
      BY <3>1 DEF Track
  <2>2. CASE last = None
    BY <1>4, <1>8, <2>2
  <2> QED
    BY <2>1, <2>2
<1>10. PICK t2 : /\ Look(e, f, NoMark, t2, {}, TRUE, men, {})
                 /\ last # None => t2 = Track(f, last)
  BY <1>9
<1>11. CASE selectedPos # None
  <2>1. PICK p2 : /\ p2 = {} \/ p2 = Hints(f, board, selectedPos)
                  /\ Look(shown', f, OnScreen(f, selectedPos), t2, p2, TRUE, men, {})
    BY <1>5, <1>10, <1>11, MarkedOnScreen
  <2>2. Chosen(f, OnScreen(f, selectedPos), p2, board, selectedPos)
    BY <1>11, <2>1 DEF Chosen
  <2> QED
    BY <1>3, <1>7, <1>10, <2>1, <2>2
<1>12. CASE selectedPos = None
  <2>1. shown' = e
    BY <1>5, <1>12
  <2>2. Chosen(f, NoMark, {}, board, selectedPos)
    BY <1>12, NoMarkIsNoSquare DEF Chosen
  <2> QED
    BY <1>3, <1>7, <1>10, <2>1, <2>2
<1> QED
  BY <1>11, <1>12

-----------------------------------------------------------------------------
(* The last move of a board is none only before the first one. *)
LEMMA AcceptedIsMove ==
  ASSUME NEW b, NEW mv, Accepted(b, mv)
  PROVE  mv # None
PROOF
<1>1. EndOfMove(mv) \in Squares
  BY DEF Accepted, Tries
<1>2. EndOfMove(None) = 0
  BY DEF EndOfMove, None
<1> QED
  BY <1>1, <1>2, NoMarkIsNoSquare

(* The history after a move: one entry more, the move. *)
LEMMA LastOfPlay ==
  ASSUME NEW b, InPlay(b), NEW mv, Accepted(b, mv)
  PROVE  /\ Play(b, mv).steps # <<>> /\ GetLastMove(Play(b, mv)) = mv
         /\ Len(Play(b, mv).steps) = Len(b.steps) + 1
         /\ \A j \in 1..Len(b.steps) : Play(b, mv).steps[j] = b.steps[j]
PROOF
<1>1. b.steps \in Seq([mv : Nat, endPiece : Nat])
  BY BoardTyping DEF InPlay
<1>2. PICK x : x = [mv |-> mv, endPiece |-> Taken(b, mv)]
  OBVIOUS
<1>3. PICK d : d = Play(b, mv)
  OBVIOUS
<1>4. d.steps = Append(b.steps, x)
  BY <1>2, <1>3, PlayedInPlay
<1>5. d.steps # <<>> /\ Len(d.steps) = Len(b.steps) + 1 /\ d.steps[Len(d.steps)] = x
      /\ \A j \in 1..Len(b.steps) : d.steps[j] = b.steps[j]
  BY <1>1, <1>4
<1>6. GetLastMove(d) = mv
  <2>1. GetLastMove(d) = d.steps[Len(d.steps)].mv
    BY <1>5 DEF GetLastMove, Last
  <2> QED
    BY <2>1, <1>2, <1>5
<1> QED
  BY <1>3, <1>5, <1>6

(* No entry of the board's history is the null move. *)
LEMMA MovesAreMoves ==
  ASSUME GameInv, HasGame
  PROVE  \A j \in 1..Len(board.steps) : board.steps[j].mv # None
PROOF
<1>1. PICK line : Line(line)
  BY DEF GameInv
<1>2. \A j \in 1..Len(history) : Accepted(line[j], history[j].mv)
  BY <1>1 DEF Line
<1>3. \A j \in 1..Len(history) : history[j].mv # None
  BY <1>2, AcceptedIsMove
<1> QED
  BY <1>3, GameBoard

(* Nor is the last move after a take-back. *)
LEMMA LastMoveThen ==
  ASSUME GameInv, TakeBack, board'.steps # <<>>
  PROVE  GetLastMove(board') # None
PROOF
<1>1. HasGame /\ InPlay(board') /\ \E mv \in Nat : Accepted(board', mv) /\ board = Play(board', mv)
  BY TakenBackFrom
<1>2. PICK b : b = board'
  OBVIOUS
<1>3. PICK mv \in Nat : Accepted(b, mv) /\ board = Play(b, mv)
  BY <1>1, <1>2
<1>4. /\ Len(board.steps) = Len(b.steps) + 1
      /\ \A j \in 1..Len(b.steps) : board.steps[j] = b.steps[j]
  BY <1>1, <1>2, <1>3, LastOfPlay
<1>5. b.steps \in Seq([mv : Nat, endPiece : Nat]) /\ b.steps # <<>>
  BY <1>1, <1>2, BoardTyping DEF InPlay
<1>6. PICK n \in 1..Len(b.steps) : n = Len(b.steps)
  BY <1>5
<1>7. GetLastMove(b) = b.steps[n].mv
  BY <1>5, <1>6 DEF GetLastMove, Last
<1>8. board.steps[n].mv # None
  <2>1. n \in 1..Len(board.steps)
    BY <1>4, <1>5, <1>6
  <2> QED
    BY <2>1, <1>1, MovesAreMoves
<1> QED
  BY <1>2, <1>4, <1>6, <1>7, <1>8

(* The last move of the board is that of the page's last entry. *)
LEMMA LastMoveNow ==
  ASSUME GameInv, HasGame, board.steps # <<>>
  PROVE  /\ GetLastMove(board) # None
         /\ Len(history) \in Nat \ {0} /\ history[Len(history)].mv = GetLastMove(board)
PROOF
<1>1. /\ InPlay(board) /\ Len(history) \in Nat /\ Len(board.steps) = Len(history)
      /\ \A j \in 1..Len(history) : board.steps[j].mv = history[j].mv
  BY GameBoard
<1>2. board.steps \in Seq([mv : Nat, endPiece : Nat])
  BY <1>1, BoardTyping DEF InPlay
<1>3. PICK n \in 1..Len(history) : n = Len(history)
  BY <1>1, <1>2
<1>4. GetLastMove(board) = board.steps[n].mv
  BY <1>1, <1>3 DEF GetLastMove, Last
<1> QED
  BY <1>1, <1>3, <1>4, MovesAreMoves

-----------------------------------------------------------------------------
(* The marks: unless an old position is watched, those of the selection    *)
(* and of the last move.                                                   *)
Marks(f, s, t, p, b, pos) ==
  /\ Chosen(f, s, p, b, pos)
  /\ b.steps # <<>> => t = Track(f, GetLastMove(b))
MarksInv ==
  /\ IsShown(shown)
  /\ ~watchMode => Marks(shown.flip, shown.sel, shown.track, shown.prompts, board, selectedPos)

(* A look that has the marks. *)
LEMMA MarksShown ==
  ASSUME NEW d, NEW f, NEW s, NEW t, NEW p, NEW c, NEW m, NEW k, Look(d, f, s, t, p, c, m, k),
         NEW b, NEW pos, Marks(f, s, t, p, b, pos)
  PROVE  IsShown(d) /\ Marks(d.flip, d.sel, d.track, d.prompts, b, pos)
PROOF
<1>1. IsShown(d) /\ d.flip = f /\ d.sel = s /\ d.track = t /\ d.prompts = p
  BY LookParts
<1> QED
  BY <1>1

(* A page without a game has no marks. *)
LEMMA MarksInvInit == Init => MarksInv
PROOF
<1> SUFFICES ASSUME Init PROVE MarksInv
  OBVIOUS
<1>1. PICK r : r = [flip |-> FALSE]
  OBVIOUS
<1>2. shown = InitResource(r, FALSE) /\ selectedPos = None /\ board = NoGame
  BY <1>1 DEF Init
<1>3. Look(shown, r.flip, NoMark, <<>>, {}, ~FALSE, <<>>, {})
  BY <1>2, Fresh
<1>4. Marks(r.flip, NoMark, <<>>, {}, board, selectedPos)
  BY <1>2, NoMarkIsNoSquare DEF Marks, Chosen, NoGame
<1> QED
  BY <1>3, <1>4, MarksShown DEF MarksInv

(* Every step leaves the marks of the selection and of the last move,      *)
(* through watching, styles and take-backs.                                *)
LEMMA MarksInvStep == GameInv /\ GameInv' /\ MarksInv /\ [Next]_vars => MarksInv'
PROOF
<1> SUFFICES ASSUME GameInv, GameInv', MarksInv, PageStep
             PROVE  MarksInv'
  BY StepsOfPage
<1>0. PICK f, s, t, p, c, m, k : Look(shown, f, s, t, p, c, m, k)
  BY DEF MarksInv, IsShown
<1>t. ~watchMode => Marks(f, s, t, p, board, selectedPos)
  <2>1. shown.flip = f /\ shown.sel = s /\ shown.track = t /\ shown.prompts = p
    BY <1>0, LookParts
  <2> QED
    BY <2>1 DEF MarksInv
<1>k. ASSUME UNCHANGED <<shown, board, selectedPos, watchMode>>
      PROVE  MarksInv'
  BY <1>k DEF MarksInv
(* The marks of a look shown. *)
<1>s. ASSUME NEW f2, NEW s2, NEW t2, NEW p2, NEW c2, NEW m2, NEW k2,
             Look(shown', f2, s2, t2, p2, c2, m2, k2),
             ~watchMode' => Marks(f2, s2, t2, p2, board', selectedPos')
      PROVE  MarksInv'
  <2>1. IsShown(shown')
    BY <1>s, LookParts
  <2>2. CASE watchMode'
    BY <2>1, <2>2 DEF MarksInv
  <2>3. CASE ~watchMode'
    <3>1. PICK d, b, pos : d = shown' /\ b = board' /\ pos = selectedPos'
      OBVIOUS
    <3>2. Look(d, f2, s2, t2, p2, c2, m2, k2) /\ Marks(f2, s2, t2, p2, b, pos)
      BY <1>s, <2>3, <3>1
    <3>3. Marks(d.flip, d.sel, d.track, d.prompts, b, pos)
      BY <3>2, MarksShown
    <3>4. Marks(shown.flip, shown.sel, shown.track, shown.prompts, board, selectedPos)'
      BY <3>1, <3>3 DEF Marks
    <3> QED
      BY <2>1, <3>4 DEF MarksInv
  <2> QED
    BY <2>2, <2>3
<1>1. CASE Enter
  <2>1. PICK f2, s2, t2 : s2 \notin Squares /\ Look(shown', f2, s2, t2, {}, TRUE, PositionOf(board').men, {})
    BY <1>1, ShownByEnter
  <2>2. PICK b \in Starts : board' = b /\ selectedPos' = None
    BY <1>1 DEF Enter, Begin
  <2>3. board'.steps = <<>>
    BY <2>2, StartsAssumption
  <2>4. Marks(f2, s2, t2, {}, board', selectedPos')
    BY <2>1, <2>2, <2>3 DEF Marks, Chosen
  <2> QED
    BY <2>1, <2>4, <1>s
<1>2. CASE Clear
  <2>1. Look(shown', FALSE, NoMark, <<>>, {}, TRUE, <<>>, {})
    BY <1>2, ShownByClear DEF MarksInv
  <2>2. board'.steps = <<>> /\ selectedPos' = None
    BY <1>2 DEF Clear, NoGame
  <2>3. Marks(FALSE, NoMark, <<>>, {}, board', selectedPos')
    BY <2>2, NoMarkIsNoSquare DEF Marks, Chosen
  <2> QED
    BY <2>1, <2>3, <1>s
<1>3. CASE ChangePieceStyle
  <2>1. PICK s2, t2, p2 :
          /\ Look(shown', f, s2, t2, p2, TRUE, PositionOf(board).men, {})
          /\ GetLastMove(board) # None => t2 = Track(f, GetLastMove(board))
          /\ Chosen(f, s2, p2, board, selectedPos)
    BY <1>0, <1>3, ShownByStyle
  <2>2. board' = board /\ selectedPos' = selectedPos /\ HasGame
    BY <1>3 DEF ChangePieceStyle, game
  <2>3. Marks(f, s2, t2, p2, board, selectedPos)
    BY <2>1, <2>2, LastMoveNow DEF Marks
  <2>4. Marks(f, s2, t2, p2, board', selectedPos')
    BY <2>2, <2>3
  <2> QED
    BY <2>1, <2>4, <1>s
<1>4. CASE TogglePrompt
  <2>1. PICK p2 : (p2 = p \/ p2 = {}) /\ Look(shown', f, s, t, p2, c, m, k)
    BY <1>0, <1>4, ShownByToggle
  <2>2. board' = board /\ selectedPos' = selectedPos /\ watchMode' = watchMode
    BY <1>4 DEF TogglePrompt, game
  <2>3. ~watchMode => Marks(f, s, t, p2, board, selectedPos)
    BY <1>t, <2>1 DEF Marks, Chosen
  <2>4. ~watchMode' => Marks(f, s, t, p2, board', selectedPos')
    BY <2>2, <2>3
  <2> QED
    BY <2>1, <2>4, <1>s
<1>5. CASE TakeBack
  <2>1. PICK mv, a, z : mv = GetLastMove(board) /\ a = StartOfMove(mv) /\ z = EndOfMove(mv)
    OBVIOUS
  <2>2. PICK t2 : /\ GetLastMove(board') # None => t2 = Track(f, GetLastMove(board'))
                  /\ Look(shown', f, NoMark, t2, {}, c, SwapImage(m, a, z), k \ {a, z})
    BY <1>0, <1>5, <2>1, ShownByTakeBack
  <2>3. selectedPos' = None
    BY <1>5 DEF TakeBack
  <2>4. board'.steps # <<>> => GetLastMove(board') # None
    BY <1>5, LastMoveThen
  <2>5. Marks(f, NoMark, t2, {}, board', selectedPos')
    BY <2>2, <2>3, <2>4, NoMarkIsNoSquare DEF Marks, Chosen
  <2> QED
    BY <2>2, <2>5, <1>s
<1>6. CASE TakeBackFails
  <2>1. Look(shown', f, NoMark, t, {}, c, m, k)
    BY <1>0, <1>6, ShownByTakeBackFails
  <2>2. board' = board /\ selectedPos' = None /\ board.steps = <<>>
    BY <1>6 DEF TakeBackFails, game
  <2>3. Marks(f, NoMark, t, {}, board', selectedPos')
    BY <2>2, NoMarkIsNoSquare DEF Marks, Chosen
  <2> QED
    BY <2>1, <2>3, <1>s
<1>7. ASSUME NEW pos, Selects(pos)
      PROVE  MarksInv'
  <2>1. PICK s2, p2 : Look(shown', f, s2, t, p2, c, m, k) /\ Chosen(f, s2, p2, board, selectedPos')
    BY <1>0, <1>7, ShownBySelects
  <2>2. board' = board /\ watchMode' = watchMode
    BY <1>7 DEF Selects, ClickSelect, game
  <2>3. ~watchMode' => Marks(f, s2, t, p2, board', selectedPos')
    BY <1>t, <2>1, <2>2 DEF Marks
  <2> QED
    BY <2>1, <2>3, <1>s
<1>8. ASSUME NEW mv, Plays(mv)
      PROVE  MarksInv'
  <2>0. watchMode' = watchMode /\ selectedPos' = None /\ board' = Play(board, mv) /\ Accepted(board, mv)
        /\ HasGame /\ (watchMode => shown' = shown)
    BY <1>8 DEF Plays, PlayOnPage
  <2>1. CASE watchMode
    BY <2>0, <2>1, <1>0, <1>s
  <2>2. CASE ~watchMode
    <3>1. PICK a, z : a = StartOfMove(mv) /\ z = EndOfMove(mv)
      OBVIOUS
    <3>2. Look(shown', f, NoMark, Track(f, mv), {}, c, SwapImage(m, a, z), (k \ {z}) \cup {a})
      BY <1>0, <1>8, <2>2, <3>1, ShownByPlays
    <3>3. GetLastMove(board') = mv
      BY <2>0, GameBoard, LastOfPlay
    <3>4. Marks(f, NoMark, Track(f, mv), {}, board', selectedPos')
      BY <2>0, <3>3, NoMarkIsNoSquare DEF Marks, Chosen
    <3> QED
      BY <3>2, <3>4, <1>s
  <2> QED
    BY <2>1, <2>2
<1>9. ASSUME NEW n \in 1..Len(records), Watch(n)
      PROVE  MarksInv'
  <2>0. /\ HasGame /\ board' = board /\ selectedPos' = selectedPos
        /\ history[n].fen \in Positions
    <3>1. n \in 1..Len(history) /\ history \in Seq(Entries)
      BY DEF GameInv
    <3>2. PICK x \in Entries : x = history[n]
      BY <3>1
    <3>3. x.fen \in Positions
      BY DEF Entries
    <3> QED
      BY <1>9, <3>2, <3>3 DEF Watch, game
  <2>1. CASE ~watchMode /\ n = Len(records)
    <3>1. shown' = shown /\ watchMode' = watchMode
      BY <1>9, <2>1 DEF Watch
    <3> QED
      BY <2>0, <3>1, <1>k
  <2>2. CASE watchMode \/ n # Len(records)
    <3>1. PICK s2, p2, c2 :
            /\ Look(shown', f, s2, Track(f, history[n].mv), p2, c2, history[n].fen.men, {})
            /\ n = Len(records) => Chosen(f, s2, p2, board, selectedPos)
      BY <1>0, <1>9, <2>0, <2>2, ShownByWatch
    <3>2. watchMode' = ~(n = Len(records))
      BY <1>9, <2>2 DEF Watch
    <3>3. n = Len(records) /\ board.steps # <<>> => history[n].mv = GetLastMove(board)
      <4>1. Len(records) = Len(history)
        BY DEF GameInv
      <4> QED
        BY <4>1, <2>0, LastMoveNow
    <3>4. n = Len(records) => Marks(f, s2, Track(f, history[n].mv), p2, board, selectedPos)
      BY <3>1, <3>3 DEF Marks
    <3>5. ~watchMode' => Marks(f, s2, Track(f, history[n].mv), p2, board', selectedPos')
      BY <2>0, <3>2, <3>4
    <3> QED
      BY <3>1, <3>5, <1>s
  <2> QED
    BY <2>1, <2>2
<1>10. ASSUME NEW x \in {"self", "opp"}, Second(x)
       PROVE  MarksInv'
  BY <1>10, <1>k DEF Second, game
<1>11. CASE UNCHANGED vars
  BY <1>11, <1>k DEF vars
<1> QED
  BY <1>1, <1>2, <1>3, <1>4, <1>5, <1>6, <1>7, <1>8, <1>9, <1>10, <1>11 DEF PageStep

(* SelectionIsOwn: the selection from GameInv, the marks from MarksInv.    *)
LEMMA MarksInvOwn == GameInv /\ MarksInv => SelectionIsOwn
PROOF
<1> SUFFICES ASSUME GameInv, MarksInv PROVE SelectionIsOwn
  OBVIOUS
<1>1. selectedPos # None =>
        /\ side = board.cur /\ selectedPos \in Squares
        /\ Has(board, selectedPos) /\ PieceAt(board, selectedPos).side = side
  BY DEF GameInv
<1>2. \A pos : OnScreen(shown.flip, pos) = Screen(shown, pos)
  BY DEF OnScreen, Screen
<1>3. ASSUME ~watchMode
      PROVE  /\ shown.sel \in Squares <=> selectedPos # None
             /\ selectedPos # None => shown.sel = Screen(shown, selectedPos)
             /\ shown.prompts # {} =>
                  shown.prompts = {Screen(shown, EndOfMove(mv)) : mv \in Prompt(board, selectedPos)}
             /\ board.steps # <<>> =>
                  shown.track = <<Screen(shown, StartOfMove(GetLastMove(board))),
                                  Screen(shown, EndOfMove(GetLastMove(board)))>>
  <2>1. Marks(shown.flip, shown.sel, shown.track, shown.prompts, board, selectedPos)
    BY <1>3 DEF MarksInv
  <2>2. Chosen(shown.flip, shown.sel, shown.prompts, board, selectedPos)
    BY <2>1 DEF Marks
  <2>3. ASSUME selectedPos # None
        PROVE  /\ shown.sel = Screen(shown, selectedPos) /\ shown.sel \in Squares
               /\ shown.prompts = {} \/ shown.prompts = Hints(shown.flip, board, selectedPos)
    <3>1. /\ shown.sel = OnScreen(shown.flip, selectedPos)
          /\ shown.prompts = {} \/ shown.prompts = Hints(shown.flip, board, selectedPos)
      BY <2>2, <2>3 DEF Chosen
    <3>2. selectedPos \in Squares /\ FlipPos(selectedPos) \in Squares
      BY <1>1, <2>3, SquareBounds
    <3>3. OnScreen(shown.flip, selectedPos) \in Squares
      BY <3>2 DEF OnScreen
    <3> QED
      BY <3>1, <3>3, <1>2
  <2>4. selectedPos = None => shown.sel \notin Squares /\ shown.prompts = {}
    BY <2>2 DEF Chosen
  <2>5. Hints(shown.flip, board, selectedPos) =
          {Screen(shown, EndOfMove(mv)) : mv \in Prompt(board, selectedPos)}
    BY <1>2 DEF Hints
  <2>6. board.steps # <<>> =>
          shown.track = <<Screen(shown, StartOfMove(GetLastMove(board))),
                          Screen(shown, EndOfMove(GetLastMove(board)))>>
    BY <2>1, <1>2 DEF Marks, Track
  <2> QED
    BY <2>3, <2>4, <2>5, <2>6
<1> QED
  BY <1>1, <1>3 DEF SelectionIsOwn

(* The selection is the player's own and on its turn, and the marks on the *)
(* screen are those of the selection and of the last move.                 *)
THEOREM PageSelectionIsOwn == Spec => []SelectionIsOwn
  BY GameInvInit, GameInvStep, MarksInvInit, MarksInvStep, MarksInvOwn, PTL DEF Spec

-----------------------------------------------------------------------------
(* The pictures. *)
Shows(m, k, men) == [q \in DOMAIN m \ k |-> m[q]] = men
Men(b) == PositionOf(b).men

(* The two pictures that change places. *)
LEMMA Swapped ==
  ASSUME NEW m, NEW a, NEW z, a # z, NEW g, g = SwapImage(m, a, z)
  PROVE  /\ \A q : q \in DOMAIN g <=> IF q = a THEN z \in DOMAIN m
                                      ELSE IF q = z THEN a \in DOMAIN m ELSE q \in DOMAIN m
         /\ a \in DOMAIN m => g[z] = m[a]
         /\ z \in DOMAIN m => g[a] = m[z]
         /\ \A q \in DOMAIN m \ {a, z} : g[q] = m[q]
PROOF
<1> DEFINE other(q) == CASE q = a -> z [] q = z -> a [] OTHER -> q
<1>1. g = [q \in {p \in DOMAIN m \cup {a, z} : other(p) \in DOMAIN m} |-> m[other(q)]]
  BY DEF SwapImage
<1>2. other(a) = z /\ other(z) = a /\ \A q : q # a /\ q # z => other(q) = q
  OBVIOUS
<1> HIDE DEF other
<1>3. DOMAIN g = {p \in DOMAIN m \cup {a, z} : other(p) \in DOMAIN m}
  BY <1>1
<1>4. \A q : q \in DOMAIN g <=> IF q = a THEN z \in DOMAIN m
                                ELSE IF q = z THEN a \in DOMAIN m ELSE q \in DOMAIN m
  BY <1>2, <1>3
<1>5. \A q \in DOMAIN g : g[q] = m[other(q)]
  BY <1>1, <1>3
<1> QED
  BY <1>2, <1>4, <1>5

(* What a move played does to the men. *)
PlaysMen(men, men2, a, z) ==
  /\ a \in DOMAIN men /\ a # z
  /\ DOMAIN men2 = (DOMAIN men \ {a, z}) \cup {z}
  /\ men2[z] = men[a]
  /\ \A q \in DOMAIN men \ {a, z} : men2[q] = men[q]

(* The men of a board, square by square. *)
LEMMA MenOfBoard ==
  ASSUME NEW b
  PROVE  /\ DOMAIN Men(b) = DOMAIN b.at
         /\ \A q \in DOMAIN b.at : Men(b)[q] = [type |-> b.pieces[b.at[q]].type, side |-> b.pieces[b.at[q]].side]
         /\ Men(b) = [q \in DOMAIN Men(b) |-> Men(b)[q]]
  BY DEF Men, PositionOf, PieceAt

(* A move accepted moves one man and puts it over what was there. *)
LEMMA MenPlayed ==
  ASSUME NEW b, InPlay(b), NEW mv, Accepted(b, mv), NEW a, a = StartOfMove(mv), NEW z, z = EndOfMove(mv)
  PROVE  PlaysMen(Men(b), Men(Play(b, mv)), a, z)
PROOF
<1>1. IsBoard(b) /\ Tries(b, mv)
  BY DEF InPlay, Accepted
<1>2. PICK s, e, n, t : Moved(b, mv, s, e, n, t, MakeMove(b, mv))
  BY <1>1, MadeMove
<1>3. PICK c : c = MakeMove(b, mv) /\ Moved(b, mv, s, e, n, t, c)
  BY <1>2
<1>4. MovedParts(b, mv, s, e, n, t, c) /\ MovedPieces(b, mv, s, e, n, t, c)
      /\ MovedRecord(b, mv, s, e, n, t, c)
  BY <1>1, <1>3, MovedHasParts, MovedHasPieces, MovedHasRecord
<1>5. s = a /\ e = z /\ a \in DOMAIN b.at /\ a # z /\ n = b.at[a] /\ n \in DOMAIN b.pieces
  BY <1>3 DEF Moved
<1>6. /\ DOMAIN c.at = (DOMAIN b.at \ {a, z}) \cup {z} /\ c.at[z] = n
      /\ \A q \in DOMAIN b.at \ {a, z} : c.at[q] = b.at[q]
  BY <1>3, <1>5, MovedSquares
<1>7. \A i \in DOMAIN b.pieces : c.pieces[i].type = b.pieces[i].type /\ c.pieces[i].side = b.pieces[i].side
  BY <1>4 DEF MovedPieces
<1>8. PICK d : d = Play(b, mv)
  OBVIOUS
<1>9. d.at = c.at /\ d.pieces = c.pieces
  <2>1. c = [pieces |-> c.pieces, at |-> c.at, cur |-> c.cur, steps |-> c.steps]
    BY <1>4 DEF MovedRecord
  <2>2. d = [c EXCEPT !.cur = Opp(@)]
    BY <1>3, <1>8 DEF Play, ChangeSide
  <2> QED
    BY <2>1, <2>2
<1>10. /\ DOMAIN Men(b) = DOMAIN b.at /\ DOMAIN Men(d) = DOMAIN d.at
       /\ \A q \in DOMAIN b.at : Men(b)[q] = [type |-> b.pieces[b.at[q]].type, side |-> b.pieces[b.at[q]].side]
       /\ \A q \in DOMAIN d.at : Men(d)[q] = [type |-> d.pieces[d.at[q]].type, side |-> d.pieces[d.at[q]].side]
  BY MenOfBoard
<1>11. Men(d)[z] = Men(b)[a]
  <2>1. z \in DOMAIN d.at /\ d.at[z] = n
    BY <1>6, <1>9
  <2>2. Men(d)[z] = [type |-> d.pieces[n].type, side |-> d.pieces[n].side]
    BY <1>10, <2>1
  <2>3. Men(b)[a] = [type |-> b.pieces[n].type, side |-> b.pieces[n].side]
    BY <1>5, <1>10
  <2> QED
    BY <2>2, <2>3, <1>5, <1>7, <1>9
<1>12. ASSUME NEW q \in DOMAIN b.at \ {a, z}
       PROVE  Men(d)[q] = Men(b)[q]
  <2>1. q \in DOMAIN d.at /\ d.at[q] = b.at[q] /\ b.at[q] \in DOMAIN b.pieces
    BY <1>1, <1>6, <1>9, BoardTyping
  <2>2. PICK i \in DOMAIN b.pieces : i = b.at[q]
    BY <2>1
  <2>3. Men(d)[q] = [type |-> d.pieces[i].type, side |-> d.pieces[i].side]
    BY <1>10, <2>1, <2>2
  <2>4. Men(b)[q] = [type |-> b.pieces[i].type, side |-> b.pieces[i].side]
    BY <1>10, <2>2
  <2> QED
    BY <2>3, <2>4, <1>7, <1>9
<1> QED
  BY <1>5, <1>6, <1>8, <1>9, <1>10, <1>11, <1>12 DEF PlaysMen

(* A move displayed shows the men after it, whatever lies unseen. *)
LEMMA PlayShows ==
  ASSUME NEW m, NEW k, NEW men, NEW men2, NEW a, NEW z, Shows(m, k, men), PlaysMen(men, men2, a, z),
         men2 = [q \in DOMAIN men2 |-> men2[q]]
  PROVE  Shows(SwapImage(m, a, z), (k \ {z}) \cup {a}, men2)
PROOF
<1>1. DOMAIN men = DOMAIN m \ k /\ \A q \in DOMAIN m \ k : men[q] = m[q]
  BY DEF Shows
<1>2. /\ a \in DOMAIN men /\ a # z /\ DOMAIN men2 = (DOMAIN men \ {a, z}) \cup {z}
      /\ men2[z] = men[a] /\ \A q \in DOMAIN men \ {a, z} : men2[q] = men[q]
  BY DEF PlaysMen
<1>3. PICK g : g = SwapImage(m, a, z)
  OBVIOUS
<1>4. PICK k2 : k2 = (k \ {z}) \cup {a}
  OBVIOUS
<1>5. /\ \A q : q \in DOMAIN g <=> IF q = a THEN z \in DOMAIN m
                                   ELSE IF q = z THEN a \in DOMAIN m ELSE q \in DOMAIN m
      /\ a \in DOMAIN m => g[z] = m[a]
      /\ \A q \in DOMAIN m \ {a, z} : g[q] = m[q]
  BY <1>2, <1>3, Swapped
<1>6. DOMAIN g \ k2 = DOMAIN men2
  BY <1>1, <1>2, <1>4, <1>5
<1>7. \A q \in DOMAIN men2 : g[q] = men2[q]
  BY <1>1, <1>2, <1>5
<1>8. [q \in DOMAIN g \ k2 |-> g[q]] = men2
  BY <1>6, <1>7
<1> QED
  BY <1>3, <1>4, <1>8 DEF Shows

(* One taken back shows the men before it, if nothing was ever taken.      *)
LEMMA UndoShows ==
  ASSUME NEW m, NEW k, NEW men, NEW men2, NEW a, NEW z, Shows(m, k, men2), PlaysMen(men, men2, a, z),
         DOMAIN m = DOMAIN men2, z \notin DOMAIN men, men = [q \in DOMAIN men |-> men[q]]
  PROVE  /\ Shows(SwapImage(m, a, z), k \ {a, z}, men)
         /\ DOMAIN SwapImage(m, a, z) = DOMAIN men
PROOF
<1>1. DOMAIN men2 = DOMAIN m \ k /\ \A q \in DOMAIN m \ k : men2[q] = m[q]
  BY DEF Shows
<1>2. /\ a \in DOMAIN men /\ a # z /\ DOMAIN men2 = (DOMAIN men \ {a, z}) \cup {z}
      /\ men2[z] = men[a] /\ \A q \in DOMAIN men \ {a, z} : men2[q] = men[q]
  BY DEF PlaysMen
<1>3. PICK g : g = SwapImage(m, a, z)
  OBVIOUS
<1>4. PICK k2 : k2 = k \ {a, z}
  OBVIOUS
<1>5. /\ \A q : q \in DOMAIN g <=> IF q = a THEN z \in DOMAIN m
                                   ELSE IF q = z THEN a \in DOMAIN m ELSE q \in DOMAIN m
      /\ z \in DOMAIN m => g[a] = m[z]
      /\ \A q \in DOMAIN m \ {a, z} : g[q] = m[q]
  BY <1>2, <1>3, Swapped
<1>6. DOMAIN g = DOMAIN men
  BY <1>2, <1>5
<1>7. \A q \in DOMAIN men : q \notin k2
  BY <1>1, <1>2, <1>4
<1>8. \A q \in DOMAIN men : g[q] = men[q]
  BY <1>1, <1>2, <1>5
<1>9. DOMAIN g \ k2 = DOMAIN men
  BY <1>6, <1>7
<1>10. [q \in DOMAIN g \ k2 |-> g[q]] = men
  BY <1>8, <1>9
<1> QED
  BY <1>3, <1>4, <1>6, <1>10 DEF Shows
(* All pictures set up. *)
LEMMA MenShown ==
  ASSUME NEW b
  PROVE  Shows(PositionOf(b).men, {}, PositionOf(b).men) /\ DOMAIN PositionOf(b).men = DOMAIN b.at
PROOF
<1>1. PICK men : men = Men(b)
  OBVIOUS
<1>2. men = [q \in DOMAIN men |-> men[q]] /\ DOMAIN men = DOMAIN b.at
  BY <1>1, MenOfBoard
<1>3. DOMAIN men \ {} = DOMAIN men
  OBVIOUS
<1>4. Shows(men, {}, men)
  BY <1>2, <1>3 DEF Shows
<1> QED
  BY <1>1, <1>2, <1>4 DEF Men

-----------------------------------------------------------------------------
(* What the pictures show: the men of the chosen step or of the board, and *)
(* as long as nothing was taken there is no picture out of sight, which is *)
(* why a take-back can then be trusted.                                    *)
Quiet(b) == \A j \in 1..Len(b.steps) : b.steps[j].endPiece = None
BoardShown(m, k, b) ==
  /\ Shows(m, k, Men(b))
  /\ Quiet(b) => DOMAIN m = DOMAIN b.at
StepShown(m, k) ==
  chosen \in 1..Len(history) /\ Shows(m, k, history[chosen].fen.men)
Truthful(m, k) == IF watchMode THEN StepShown(m, k) ELSE BoardShown(m, k, board)
PicturesInv == HasGame /\ ~disturbed => Truthful(shown.men, shown.clear)

(* A board just set up is shown. *)
LEMMA BoardSetUp == ASSUME NEW b PROVE BoardShown(PositionOf(b).men, {}, b)
  BY MenShown DEF BoardShown, Men

(* Without a game there is nothing to show. *)
LEMMA PicturesInvInit == Init => PicturesInv
  BY DEF Init, PicturesInv, HasGame

(* After a move, and after one taken back. *)
LEMMA BoardShownPlayed ==
  ASSUME NEW b, InPlay(b), NEW mv, Accepted(b, mv), NEW a, a = StartOfMove(mv), NEW z, z = EndOfMove(mv),
         NEW m, NEW k, BoardShown(m, k, b)
  PROVE  BoardShown(SwapImage(m, a, z), (k \ {z}) \cup {a}, Play(b, mv))
PROOF
<1>1. PICK d : d = Play(b, mv)
  OBVIOUS
<1>2. PICK men, men2 : men = Men(b) /\ men2 = Men(d)
  OBVIOUS
<1>3. PlaysMen(men, men2, a, z)
  BY <1>1, <1>2, MenPlayed
<1>4. /\ men2 = [q \in DOMAIN men2 |-> men2[q]]
      /\ DOMAIN men = DOMAIN b.at /\ DOMAIN men2 = DOMAIN d.at
  BY <1>2, MenOfBoard
<1>5. Shows(m, k, men)
  BY <1>2 DEF BoardShown
<1>6. Shows(SwapImage(m, a, z), (k \ {z}) \cup {a}, men2)
  BY <1>3, <1>4, <1>5, PlayShows
<1>7. ASSUME Quiet(d)
      PROVE  DOMAIN SwapImage(m, a, z) = DOMAIN d.at
  <2>1. /\ Len(d.steps) = Len(b.steps) + 1
        /\ \A j \in 1..Len(b.steps) : d.steps[j] = b.steps[j]
    BY <1>1, LastOfPlay
  <2>2. b.steps \in Seq([mv : Nat, endPiece : Nat]) /\ Len(b.steps) \in Nat
    BY BoardTyping DEF InPlay
  <2>3. Quiet(b)
    <3> SUFFICES ASSUME NEW j \in 1..Len(b.steps)
                 PROVE  b.steps[j].endPiece = None
      BY DEF Quiet
    <3>1. j \in 1..Len(d.steps) /\ d.steps[j] = b.steps[j]
      BY <2>1, <2>2
    <3>2. d.steps[j].endPiece = None
      BY <1>7, <3>1 DEF Quiet
    <3> QED
      BY <3>1, <3>2
  <2>4. Taken(b, mv) = None
    <3>1. PICK x : x = [mv |-> mv, endPiece |-> Taken(b, mv)]
      OBVIOUS
    <3>2. d.steps = Append(b.steps, x)
      BY <1>1, <3>1, PlayedInPlay
    <3>3. PICK j \in 1..Len(d.steps) : j = Len(b.steps) + 1
      BY <2>1, <2>2
    <3>4. d.steps[j] = x
      BY <2>2, <3>2, <3>3
    <3> QED
      BY <1>7, <3>1, <3>3, <3>4 DEF Quiet
  <2>5. z \notin DOMAIN b.at
    <3>1. IsBoard(b) /\ Tries(b, mv)
      BY DEF InPlay, Accepted
    <3> QED
      BY <2>4, <3>1, BoardTyping DEF Taken
  <2>6. DOMAIN m = DOMAIN b.at
    BY <2>3 DEF BoardShown
  <2>7. a \in DOMAIN men /\ a # z /\ DOMAIN men2 = (DOMAIN men \ {a, z}) \cup {z}
    BY <1>3 DEF PlaysMen
  <2>8. \A q : q \in DOMAIN SwapImage(m, a, z) <=>
               IF q = a THEN z \in DOMAIN m ELSE IF q = z THEN a \in DOMAIN m ELSE q \in DOMAIN m
    BY <2>7, Swapped
  <2> QED
    BY <1>4, <2>5, <2>6, <2>7, <2>8
<1> QED
  BY <1>1, <1>2, <1>6, <1>7 DEF BoardShown

(* A board on which nothing was taken is shown after its last move is      *)
(* taken back.                                                             *)
LEMMA BoardShownTakenBack ==
  ASSUME NEW b, InPlay(b), NEW mv, Accepted(b, mv), NEW a, a = StartOfMove(mv), NEW z, z = EndOfMove(mv),
         NEW m, NEW k, BoardShown(m, k, Play(b, mv)), Quiet(Play(b, mv))
  PROVE  BoardShown(SwapImage(m, a, z), k \ {a, z}, b)
PROOF
<1>1. PICK d : d = Play(b, mv)
  OBVIOUS
<1>2. PICK men, men2 : men = Men(b) /\ men2 = Men(d)
  OBVIOUS
<1>3. PlaysMen(men, men2, a, z)
  BY <1>1, <1>2, MenPlayed
<1>4. /\ men = [q \in DOMAIN men |-> men[q]]
      /\ DOMAIN men = DOMAIN b.at /\ DOMAIN men2 = DOMAIN d.at
  BY <1>2, MenOfBoard
<1>5. Shows(m, k, men2) /\ DOMAIN m = DOMAIN d.at
  BY <1>1, <1>2 DEF BoardShown
<1>6. z \notin DOMAIN b.at
  <2>1. Len(b.steps) \in Nat /\ b.steps \in Seq([mv : Nat, endPiece : Nat])
    BY BoardTyping DEF InPlay
  <2>2. PICK x : x = [mv |-> mv, endPiece |-> Taken(b, mv)]
    OBVIOUS
  <2>3. d.steps = Append(b.steps, x)
    BY <1>1, <2>2, PlayedInPlay
  <2>4. PICK j \in 1..Len(d.steps) : j = Len(b.steps) + 1
    BY <2>1, <2>3
  <2>5. d.steps[j] = x
    BY <2>1, <2>3, <2>4
  <2>6. Taken(b, mv) = None
    BY <1>1, <2>2, <2>4, <2>5 DEF Quiet
  <2>7. IsBoard(b)
    BY DEF InPlay
  <2> QED
    BY <2>6, <2>7, BoardTyping DEF Taken
<1>7. /\ Shows(SwapImage(m, a, z), k \ {a, z}, men)
      /\ DOMAIN SwapImage(m, a, z) = DOMAIN men
  BY <1>3, <1>4, <1>5, <1>6, UndoShows
<1> QED
  BY <1>2, <1>4, <1>7 DEF BoardShown

(* Every step keeps the pictures true, or says that it may not have. *)
LEMMA PicturesInvStep ==
  GameInv /\ GameInv' /\ MarksInv /\ PicturesInv /\ [Next]_vars => PicturesInv'
PROOF
<1> SUFFICES ASSUME GameInv, GameInv', MarksInv, PicturesInv, PageStep, HasGame', ~disturbed'
             PROVE  Truthful(shown.men, shown.clear)'
  BY StepsOfPage DEF PicturesInv
<1>0. PICK f, s, t, p, c, m, k : Look(shown, f, s, t, p, c, m, k)
  BY DEF MarksInv, IsShown
<1>t. /\ shown.men = m /\ shown.clear = k
      /\ HasGame /\ ~disturbed => Truthful(m, k)
  <2>1. shown.men = m /\ shown.clear = k
    BY <1>0, LookParts
  <2> QED
    BY <2>1 DEF PicturesInv
(* The pictures stay. *)
<1>k. ASSUME UNCHANGED <<board, history, chosen, watchMode, disturbed>>,
             NEW f2, NEW s2, NEW t2, NEW p2, NEW c2, Look(shown', f2, s2, t2, p2, c2, m, k)
      PROVE  Truthful(shown.men, shown.clear)'
  <2>1. shown'.men = m /\ shown'.clear = k
    BY <1>k, LookParts
  <2>2. Truthful(m, k)
    BY <1>k, <1>t DEF HasGame
  <2> QED
    BY <2>1, <2>2, <1>k DEF Truthful, StepShown, BoardShown, Quiet, Men
(* The pictures of the board. *)
<1>b. ASSUME ~watchMode', NEW b, board' = b,
             NEW f2, NEW s2, NEW t2, NEW p2, NEW c2, NEW m2, NEW k2,
             Look(shown', f2, s2, t2, p2, c2, m2, k2), BoardShown(m2, k2, b)
      PROVE  Truthful(shown.men, shown.clear)'
  <2>1. shown'.men = m2 /\ shown'.clear = k2
    BY <1>b, LookParts
  <2>2. BoardShown(shown.men, shown.clear, board)'
    BY <2>1, <1>b DEF BoardShown, Quiet, Men
  <2> QED
    BY <2>2, <1>b DEF Truthful
<1>1. CASE Enter
  <2>1. PICK f2, s2, t2 : Look(shown', f2, s2, t2, {}, TRUE, PositionOf(board').men, {})
    BY <1>1, ShownByEnter
  <2>2. PICK b : board' = b
    OBVIOUS
  <2>3. ~watchMode'
    BY <1>1 DEF Enter, Begin
  <2> QED
    BY <2>1, <2>2, <2>3, <1>b, BoardSetUp
<1>2. CASE Clear
  BY <1>2 DEF Clear, HasGame
<1>3. CASE ChangePieceStyle
  <2>1. PICK s2, t2, p2 : Look(shown', f, s2, t2, p2, TRUE, PositionOf(board).men, {})
    BY <1>0, <1>3, ShownByStyle
  <2>2. board' = board /\ watchMode' = watchMode /\ disturbed' = watchMode
    BY <1>3 DEF ChangePieceStyle, game
  <2> QED
    BY <2>1, <2>2, <1>b, BoardSetUp
<1>4. CASE TogglePrompt
  <2>1. PICK p2 : Look(shown', f, s, t, p2, c, m, k)
    BY <1>0, <1>4, ShownByToggle
  <2>2. UNCHANGED <<board, history, chosen, watchMode, disturbed>>
    BY <1>4 DEF TogglePrompt, game
  <2> QED
    BY <2>1, <2>2, <1>k
<1>5. CASE TakeBack
  <2>1. PICK last, a, z : last = GetLastMove(board) /\ a = StartOfMove(last) /\ z = EndOfMove(last)
    OBVIOUS
  <2>2. PICK t2 : Look(shown', f, NoMark, t2, {}, c, SwapImage(m, a, z), k \ {a, z})
    BY <1>0, <1>5, <2>1, ShownByTakeBack
  <2>3. PICK b : b = board'
    OBVIOUS
  <2>4. HasGame /\ InPlay(b) /\ \E mv \in Nat : Accepted(b, mv) /\ board = Play(b, mv)
    BY <1>5, <2>3, TakenBackFrom
  <2>5. PICK mv \in Nat : Accepted(b, mv) /\ board = Play(b, mv)
    BY <2>4
  <2>6. last = mv
    BY <2>1, <2>4, <2>5, LastOfPlay
  <2>7. /\ ~disturbed /\ ~watchMode /\ watchMode' = watchMode
        /\ \A step \in Range(board.steps) : step.endPiece = None
    BY <1>5 DEF TakeBack
  <2>8. Quiet(board)
    <3>1. board.steps \in Seq([mv : Nat, endPiece : Nat])
      BY <2>4, GameBoard, BoardTyping DEF InPlay
    <3>2. \A j \in 1..Len(board.steps) : board.steps[j] \in Range(board.steps)
      BY <3>1 DEF Range
    <3> QED
      BY <2>7, <3>2 DEF Quiet
  <2>9. BoardShown(m, k, board)
    BY <1>t, <2>4, <2>7 DEF Truthful
  <2>10. BoardShown(SwapImage(m, a, z), k \ {a, z}, b)
    BY <2>1, <2>4, <2>5, <2>6, <2>8, <2>9, BoardShownTakenBack
  <2> QED
    BY <2>2, <2>3, <2>7, <2>10, <1>b
<1>6. CASE TakeBackFails
  <2>1. Look(shown', f, NoMark, t, {}, c, m, k)
    BY <1>0, <1>6, ShownByTakeBackFails
  <2>2. UNCHANGED <<board, history, chosen, watchMode, disturbed>>
    BY <1>6 DEF TakeBackFails, game
  <2> QED
    BY <2>1, <2>2, <1>k
<1>7. ASSUME NEW pos, Selects(pos)
      PROVE  Truthful(shown.men, shown.clear)'
  <2>1. PICK s2, p2 : Look(shown', f, s2, t, p2, c, m, k)
    BY <1>0, <1>7, ShownBySelects
  <2>2. UNCHANGED <<board, history, chosen, watchMode, disturbed>>
    BY <1>7 DEF Selects, ClickSelect, game
  <2> QED
    BY <2>1, <2>2, <1>k
<1>8. ASSUME NEW mv, Plays(mv)
      PROVE  Truthful(shown.men, shown.clear)'
  <2>0. /\ watchMode' = watchMode /\ chosen' = chosen /\ disturbed' = disturbed
        /\ board' = Play(board, mv) /\ Accepted(board, mv) /\ HasGame
        /\ (watchMode => shown' = shown)
        /\ history' = Append(history, [fen |-> PositionOf(board'), mv |-> mv])
    BY <1>8 DEF Plays, PlayOnPage
  <2>t. Truthful(m, k)
    BY <2>0, <1>t
  <2>1. CASE watchMode
    <3>1. StepShown(m, k) /\ shown'.men = m /\ shown'.clear = k
      BY <2>0, <2>1, <2>t, <1>t DEF Truthful
    <3>2. PICK x : x = [fen |-> PositionOf(board'), mv |-> mv]
      OBVIOUS
    <3>3. history' = Append(history, x) /\ history \in Seq(Entries)
      BY <2>0, <3>2 DEF GameInv
    <3>4. chosen \in 1..Len(history) /\ Shows(m, k, history[chosen].fen.men)
      BY <3>1 DEF StepShown
    <3>5. chosen \in 1..Len(history') /\ history'[chosen] = history[chosen]
      BY <3>3, <3>4
    <3>6. StepShown(shown.men, shown.clear)'
      BY <2>0, <3>1, <3>4, <3>5 DEF StepShown
    <3> QED
      BY <2>0, <2>1, <3>6 DEF Truthful
  <2>2. CASE ~watchMode
    <3>1. PICK a, z : a = StartOfMove(mv) /\ z = EndOfMove(mv)
      OBVIOUS
    <3>2. Look(shown', f, NoMark, Track(f, mv), {}, c, SwapImage(m, a, z), (k \ {z}) \cup {a})
      BY <1>0, <1>8, <2>2, <3>1, ShownByPlays
    <3>3. BoardShown(m, k, board)
      BY <2>2, <2>t DEF Truthful
    <3>4. BoardShown(SwapImage(m, a, z), (k \ {z}) \cup {a}, Play(board, mv))
      BY <2>0, <3>1, <3>3, GameBoard, BoardShownPlayed
    <3> QED
      BY <2>0, <2>2, <3>2, <3>4, <1>b
  <2> QED
    BY <2>1, <2>2
<1>9. ASSUME NEW n \in 1..Len(records), Watch(n)
      PROVE  Truthful(shown.men, shown.clear)'
  <2>0. /\ HasGame /\ board' = board /\ history' = history /\ chosen' = n
        /\ n \in 1..Len(history) /\ history[n].fen \in Positions
    <3>1. n \in 1..Len(history) /\ history \in Seq(Entries)
      BY DEF GameInv
    <3>2. PICK x \in Entries : x = history[n]
      BY <3>1
    <3>3. x.fen \in Positions
      BY DEF Entries
    <3> QED
      BY <1>9, <3>1, <3>2, <3>3 DEF Watch, game
  <2>1. CASE ~watchMode /\ n = Len(records)
    <3>1. shown' = shown /\ watchMode' = watchMode /\ disturbed' = disturbed
      BY <1>9, <2>1 DEF Watch
    <3>2. BoardShown(m, k, board)
      BY <1>t, <2>0, <2>1, <3>1 DEF Truthful
    <3> QED
      BY <1>0, <2>0, <2>1, <3>1, <3>2, <1>b
  <2>2. CASE watchMode \/ n # Len(records)
    <3>1. PICK s2, p2, c2 :
            Look(shown', f, s2, Track(f, history[n].mv), p2, c2, history[n].fen.men, {})
      BY <1>0, <1>9, <2>0, <2>2, ShownByWatch
    <3>2. watchMode' = ~(n = Len(records))
      BY <1>9, <2>2 DEF Watch
    <3>3. CASE n = Len(records)
      <4>1. history[n].fen = PositionOf(board)
        <5>1. PICK line : Line(line)
          BY <2>0 DEF GameInv
        <5>2. n = Len(history) /\ Len(line) = Len(history) + 1
          BY <3>3, <5>1 DEF GameInv, Line
        <5>3. history[n].fen = PositionOf(line[n + 1]) /\ line[n + 1] = board
          BY <2>0, <5>1, <5>2 DEF Line
        <5> QED
          BY <5>3
      <4>2. BoardShown(history[n].fen.men, {}, board)
        BY <4>1, BoardSetUp
      <4> QED
        BY <2>0, <3>1, <3>2, <3>3, <4>2, <1>b
    <3>4. CASE n # Len(records)
      <4>1. PICK b \in Boards : history[n].fen = PositionOf(b)
        BY <2>0 DEF Positions
      <4>2. Shows(history[n].fen.men, {}, history[n].fen.men)
        BY <4>1, MenShown
      <4>3. shown'.men = history[n].fen.men /\ shown'.clear = {}
        BY <3>1, LookParts
      <4>4. StepShown(shown.men, shown.clear)'
        BY <2>0, <4>2, <4>3 DEF StepShown
      <4> QED
        BY <3>2, <3>4, <4>4 DEF Truthful
    <3> QED
      BY <3>3, <3>4
  <2> QED
    BY <2>1, <2>2
<1>10. ASSUME NEW x \in {"self", "opp"}, Second(x)
       PROVE  Truthful(shown.men, shown.clear)'
  <2>1. UNCHANGED <<board, history, chosen, watchMode, disturbed>> /\ shown' = shown
    BY <1>10 DEF Second, game
  <2> QED
    BY <2>1, <1>0, <1>k
<1>11. CASE UNCHANGED vars
  <2>1. UNCHANGED <<board, history, chosen, watchMode, disturbed>> /\ shown' = shown
    BY <1>11 DEF vars
  <2> QED
    BY <2>1, <1>0, <1>k
<1> QED
  BY <1>1, <1>2, <1>3, <1>4, <1>5, <1>6, <1>7, <1>8, <1>9, <1>10, <1>11 DEF PageStep

(* ScreenIsTrue, from the pictures and what is out of sight. *)
LEMMA PicturesInvTrue == PicturesInv => ScreenIsTrue
PROOF
<1> SUFFICES ASSUME PicturesInv, HasGame, ~disturbed
             PROVE  IF watchMode THEN Seen(shown) = history[chosen].fen.men
                    ELSE Seen(shown) = PositionOf(board).men
  BY DEF ScreenIsTrue
<1>1. Truthful(shown.men, shown.clear)
  BY DEF PicturesInv
<1> QED
  BY <1>1 DEF Truthful, StepShown, BoardShown, Shows, Men, Seen

(* The pictures are those of the board, or of the step that is watched.    *)
THEOREM PageScreenIsTrue == Spec => []ScreenIsTrue
  BY GameInvInit, GameInvStep, MarksInvInit, MarksInvStep, PicturesInvInit, PicturesInvStep,
     PicturesInvTrue, PTL DEF Spec
=============================================================================
