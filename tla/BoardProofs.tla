---------------------------- MODULE BoardProofs ----------------------------
(***************************************************************************)
(* What is proved of a Board object in use, for every set of positions in  *)
(* play a game may be entered in and every number of moves and take-backs. *)
(***************************************************************************)
EXTENDS Board, RulesProofs

(* What the page tries is a move makeMove is made for: of a shown piece of *)
(* the side to move, to a square that is not its own.                      *)
LEMMA TriedTries ==
  ASSUME NEW b, IsBoard(b), NEW mv \in Tried(b)
  PROVE  Tries(b, mv)
PROOF
<1>1. PICK i \in Shown(b, b.cur), q \in Squares : mv = GetMove(b.pieces[i].pos, q)
  BY DEF Tried
<1>2. ~(Has(b, EndOfMove(mv)) /\ PieceAt(b, EndOfMove(mv)).side = b.cur)
  BY DEF Tried
<1>3. i \in DOMAIN b.pieces /\ b.pieces[i].side = b.cur /\ b.pieces[i].show
  BY BoardTyping DEF Shown
<1>4. b.pieces[i].pos \in Squares /\ b.pieces[i].pos \in DOMAIN b.at /\ b.at[b.pieces[i].pos] = i
  <2>1. b.pieces[i].pos \in Squares
    BY <1>3, BoardTyping, PieceRecord
  <2>2. b.pieces[i].pos \in DOMAIN b.at /\ b.at[b.pieces[i].pos] = i
    BY <1>3, BooksTell
  <2> QED
    BY <2>1, <2>2
<1>5. /\ mv \in Nat /\ StartOfMove(mv) = b.pieces[i].pos /\ EndOfMove(mv) = q
  BY <1>1, <1>4, MoveSquares
<1> QED
  BY <1>2, <1>3, <1>4, <1>5 DEF Tries, Has, PieceAt

-----------------------------------------------------------------------------
(* The line of boards from the start to the present one, each in play,     *)
(* with no more men than a game begins with, and the one the next gives    *)
(* back.                                                                   *)
At(k) == IF k > Len(past) THEN board ELSE past[k]
BoardInv ==
  /\ past \in Seq(Boards)
  /\ \A k \in 1..(Len(past) + 1) : InPlay(At(k)) /\ Mustered(At(k)) /\ Len(At(k).steps) = k - 1
  /\ \A k \in 1..Len(past) : BackStep(At(k + 1)) = At(k)

(* The board of a state is the last one of its line, and in play. *)
LEMMA PresentBoard ==
  BoardInv => InPlay(board) /\ Mustered(board) /\ Len(board.steps) = Len(past) /\ Len(past) \in Nat
PROOF
<1> SUFFICES ASSUME BoardInv
             PROVE  InPlay(board) /\ Mustered(board) /\ Len(board.steps) = Len(past) /\ Len(past) \in Nat
  OBVIOUS
<1>1. Len(past) \in Nat
  BY DEF BoardInv
<1>2. PICK k \in 1..(Len(past) + 1) : k = Len(past) + 1
  BY <1>1
<1>3. InPlay(At(k)) /\ Mustered(At(k)) /\ Len(At(k).steps) = k - 1
  BY DEF BoardInv
<1>4. At(k) = board
  BY <1>1, <1>2 DEF At
<1> QED
  BY <1>1, <1>2, <1>3, <1>4

(* A move changes where the men stand and which are shown, not what they   *)
(* are.                                                                    *)
LEMMA PlayMusters ==
  ASSUME NEW b, IsBoard(b), Mustered(b), NEW mv, Tries(b, mv)
  PROVE  Mustered(Play(b, mv))
PROOF
<1>1. PICK s, e, n, t : Moved(b, mv, s, e, n, t, MakeMove(b, mv))
  BY MadeMove
<1>2. PICK c : c = MakeMove(b, mv) /\ Moved(b, mv, s, e, n, t, c)
  BY <1>1
<1>3. MovedPieces(b, mv, s, e, n, t, c) /\ MovedRecord(b, mv, s, e, n, t, c)
  BY <1>2, MovedHasParts, MovedHasPieces, MovedHasRecord
<1>4. /\ DOMAIN c.pieces = DOMAIN b.pieces
      /\ \A i \in DOMAIN b.pieces :
           c.pieces[i].side = b.pieces[i].side /\ c.pieces[i].type = b.pieces[i].type
  BY <1>3 DEF MovedPieces, MovedRecord
<1>5. Play(b, mv).pieces = c.pieces
  <2>1. c = [pieces |-> c.pieces, at |-> c.at, cur |-> c.cur, steps |-> c.steps]
    BY <1>3 DEF MovedRecord
  <2>2. Play(b, mv) = [c EXCEPT !.cur = Opp(@)]
    BY <1>2 DEF Play, ChangeSide
  <2> QED
    BY <2>1, <2>2
<1>6. \A side, type : OfKind(Play(b, mv), side, type) = OfKind(b, side, type)
  BY <1>4, <1>5 DEF OfKind
<1> QED
  BY <1>6 DEF Mustered

(* The line after a move. *)
LEMMA LineGrows ==
  ASSUME BoardInv, NEW mv \in Tried(board), TryMovePiece(board, mv) \notin {"ILLEGAL", "KILLED"},
         board' = Play(board, mv), past' = Append(past, board)
  PROVE  BoardInv'
PROOF
<1>1. InPlay(board) /\ Mustered(board) /\ Len(board.steps) = Len(past) /\ Len(past) \in Nat
  BY PresentBoard
<1>2. IsBoard(board)
  BY <1>1 DEF InPlay
<1>3. Accepted(board, mv)
  BY <1>2, TriedTries DEF Accepted
<1>4. /\ InPlay(board') /\ BackStep(board') = board
      /\ board'.steps = Append(board.steps, [mv |-> mv, endPiece |-> Taken(board, mv)])
  BY <1>1, <1>3, PlayedInPlay
<1>m. Mustered(board')
  BY <1>1, <1>2, <1>3, PlayMusters DEF Accepted
<1>5. Len(board'.steps) = Len(past) + 1
  BY <1>1, <1>2, <1>4, BoardTyping
<1>6. board \in Boards
  BY <1>2, BoardInBoards
<1>7. /\ past' \in Seq(Boards) /\ Len(past') = Len(past) + 1
      /\ \A k \in 1..Len(past) : past'[k] = past[k]
      /\ past'[Len(past) + 1] = board
  BY <1>6 DEF BoardInv
<1>8. ASSUME NEW k \in 1..(Len(past) + 1)
      PROVE  At(k)' = At(k)
  BY <1>1, <1>7 DEF At
<1>9. ASSUME NEW k \in 1..(Len(past') + 1)
       PROVE  InPlay(At(k)') /\ Mustered(At(k)') /\ Len(At(k)'.steps) = k - 1
  <2>1. CASE k \in 1..(Len(past) + 1)
    BY <2>1, <1>8 DEF BoardInv
  <2>2. CASE k = Len(past) + 2
    <3>1. At(k)' = board' /\ k - 1 = Len(past) + 1
      BY <2>2, <1>1, <1>7 DEF At
    <3> QED
      BY <3>1, <1>4, <1>5, <1>m
  <2> QED
    BY <2>1, <2>2, <1>1, <1>7
<1>10. ASSUME NEW k \in 1..Len(past')
       PROVE  BackStep(At(k + 1)') = At(k)'
  <2>1. CASE k \in 1..Len(past)
    <3>1. At(k)' = At(k) /\ At(k + 1)' = At(k + 1)
      BY <2>1, <1>1, <1>8
    <3> QED
      BY <3>1, <2>1 DEF BoardInv
  <2>2. CASE k = Len(past) + 1
    <3>1. At(k)' = board /\ At(k + 1)' = board'
      BY <2>2, <1>1, <1>7 DEF At
    <3> QED
      BY <3>1, <1>4
  <2> QED
    BY <2>1, <2>2, <1>1, <1>7
<1> QED
  BY <1>7, <1>9, <1>10 DEF BoardInv

(* The line after a move taken back. *)
LEMMA LineShrinks ==
  ASSUME BoardInv, board.steps # <<>>, board' = BackStep(board), past' = Front(past)
  PROVE  BoardInv'
PROOF
<1>1. Len(board.steps) = Len(past) /\ Len(past) \in Nat /\ IsBoard(board)
  BY PresentBoard DEF InPlay
<1>2. Len(past) > 0
  BY <1>1, BoardTyping
<1>3. PICK n \in Nat : Len(past) = n + 1
  BY <1>1, <1>2
<1>4. /\ past' \in Seq(Boards) /\ Len(past') = n
      /\ \A k \in 1..n : past'[k] = past[k]
  BY <1>3 DEF BoardInv, Front
<1>5. board' = past[n + 1]
  <2>1. BackStep(At(n + 2)) = At(n + 1)
    BY <1>3 DEF BoardInv
  <2> QED
    BY <2>1, <1>3 DEF At
<1>6. ASSUME NEW k \in 1..(n + 1)
      PROVE  At(k)' = At(k)
  BY <1>3, <1>4, <1>5 DEF At
<1>7. ASSUME NEW k \in 1..(Len(past') + 1)
      PROVE  InPlay(At(k)') /\ Mustered(At(k)') /\ Len(At(k)'.steps) = k - 1
  BY <1>3, <1>4, <1>6 DEF BoardInv
<1>8. ASSUME NEW k \in 1..Len(past')
      PROVE  BackStep(At(k + 1)') = At(k)'
  BY <1>3, <1>4, <1>6 DEF BoardInv
<1> QED
  BY <1>4, <1>7, <1>8 DEF BoardInv

(* The invariant holds of every board a game may begin with. *)
LEMMA BoardInvInit == Init => BoardInv
PROOF
<1> SUFFICES ASSUME Init PROVE BoardInv
  OBVIOUS
<1>1. InPlay(board) /\ Mustered(board) /\ board.steps = <<>> /\ past = <<>>
  BY StartsAssumption DEF Init
<1>2. past \in Seq(Boards) /\ Len(past) = 0 /\ Len(board.steps) = 0
  BY <1>1
<1>3. At(1) = board
  BY <1>2 DEF At
<1> QED
  BY <1>1, <1>2, <1>3 DEF BoardInv

(* Every move played, refused or taken back keeps the invariant. *)
LEMMA BoardInvStep == BoardInv /\ [Next]_vars => BoardInv'
PROOF
<1> SUFFICES ASSUME BoardInv, [Next]_vars
             PROVE  BoardInv'
  OBVIOUS
<1>1. CASE PlayMove
  BY <1>1, LineGrows DEF PlayMove
<1>2. CASE TakeBack
  BY <1>2, LineShrinks DEF TakeBack
<1>3. CASE UNCHANGED vars
  BY <1>3 DEF vars, BoardInv, At
<1> QED
  BY <1>1, <1>2, <1>3 DEF Next

(* Every board a Board object goes through is in play, whatever is played  *)
(* and taken back: kings are never captured.                               *)
THEOREM BoardIsInPlay == Spec => []BoardInv
  BY BoardInvInit, BoardInvStep, PTL DEF Spec

-----------------------------------------------------------------------------
(* The squares and the pieces agree, after any moves and take-backs.       *)
LEMMA BoardInvBooks == BoardInv => BooksAgree
PROOF
<1> SUFFICES ASSUME BoardInv PROVE BooksAgree
  OBVIOUS
<1>1. IsBoard(board) /\ \A side \in {Red, Black} : OneKing(board, side)
  BY PresentBoard DEF InPlay
<1>2. DOMAIN board.pieces = 1..Len(board.pieces)
  BY <1>1, BoardTyping
<1>3. \A q \in DOMAIN board.at :
        /\ board.at[q] \in DOMAIN board.pieces /\ q \in Squares
        /\ board.pieces[board.at[q]].show = TRUE /\ board.pieces[board.at[q]].pos = q
  BY <1>1, BooksTell
<1>4. \A i \in DOMAIN board.pieces :
        board.pieces[i].show => board.pieces[i].pos \in DOMAIN board.at /\ board.at[board.pieces[i].pos] = i
  BY <1>1, BooksTell
<1>5. \A i \in 1..Len(board.pieces) :
        board.pieces[i].show <=> \E q \in DOMAIN board.at : board.at[q] = i
  <2> SUFFICES ASSUME NEW i \in DOMAIN board.pieces
               PROVE  board.pieces[i].show <=> \E q \in DOMAIN board.at : board.at[q] = i
    BY <1>2
  <2>1. board.pieces[i].show => \E q \in DOMAIN board.at : board.at[q] = i
    BY <1>4
  <2>2. ASSUME NEW q \in DOMAIN board.at, board.at[q] = i
        PROVE  board.pieces[i].show
    BY <2>2, <1>3
  <2> QED
    BY <2>1, <2>2
<1>6. \A q \in DOMAIN board.at : InBoard(q) /\ board.pieces[board.at[q]].pos = q
  BY <1>3, SquareBounds
<1>7. ASSUME NEW side \in {Red, Black}
      PROVE  \E i \in Shown(board, side) : board.pieces[i].type = King
  <2>1. PICK k \in DOMAIN board.pieces :
          /\ board.pieces[k].show
          /\ \A i \in DOMAIN board.pieces :
               board.pieces[i].type = King /\ board.pieces[i].side = side <=> i = k
    BY <1>1 DEF OneKing
  <2> QED
    BY <2>1, <1>2 DEF Shown
<1> QED
  BY <1>5, <1>6, <1>7 DEF BooksAgree

(* BooksAgree, for every start in play and any number of moves and         *)
(* take-backs.                                                             *)
THEOREM BoardBooksAgree == Spec => []BooksAgree
  BY BoardInvInit, BoardInvStep, BoardInvBooks, PTL DEF Spec

(* UndoRestores, likewise: not only the last move, every one of the        *)
(* history can be taken back, and gives the board that was.                *)
LEMMA BoardInvUndo == BoardInv => UndoRestores
PROOF
<1> SUFFICES ASSUME BoardInv, past # <<>>
             PROVE  BackStep(board) = Last(past)
  BY DEF UndoRestores
<1>1. Len(past) \in Nat /\ past \in Seq(Boards)
  BY DEF BoardInv
<1>2. Len(past) > 0
  BY <1>1
<1>3. BackStep(At(Len(past) + 1)) = At(Len(past))
  BY <1>1, <1>2 DEF BoardInv
<1>4. At(Len(past) + 1) = board /\ At(Len(past)) = Last(past)
  BY <1>1, <1>2 DEF At, Last
<1> QED
  BY <1>3, <1>4

(* UndoRestores: taking moves back, one after the other, gives back every  *)
(* board of the game as it was, captures included.                         *)
THEOREM BoardUndoRestores == Spec => []UndoRestores
  BY BoardInvInit, BoardInvStep, BoardInvUndo, PTL DEF Spec

-----------------------------------------------------------------------------
(* GeneratorAgrees holds of every board in play, for every piece and every *)
(* square: the walks of generateMoves and the tests of legalMovePiece.     *)
LEMMA InPlayGenerator == InPlay(board) => GeneratorAgrees
PROOF
<1> SUFFICES ASSUME InPlay(board), NEW i \in Shown(board, board.cur), NEW p, p = board.pieces[i],
                    NEW q \in Squares, ~OwnAt(board, p, q), ~OnlyLegalMovePiece(p, q)
             PROVE  q \in Dests(board, p) <=> LegalMovePiece(board, p, q)
  BY DEF GeneratorAgrees
<1>1. IsBoard(board)
  BY DEF InPlay
<1>2. p \in Piece /\ Goes(board, p, q) /\ i \in DOMAIN board.pieces
  BY <1>1, ShownGoes
<1>3. p.type = Bishop => BishopPoint(p.pos)
  BY <1>2 DEF InPlay
<1>4. ~Beyond(board, p, q)
  BY DEF Beyond, OnlyLegalMovePiece, JumpsToEmpty
<1> QED
  BY <1>2, <1>3, <1>4, DestsAgree

(* GeneratorAgrees, of any board in play. *)
LEMMA BoardInvGenerator == BoardInv => GeneratorAgrees
  BY PresentBoard, InPlayGenerator

(* GeneratorAgrees: the generator proposes exactly the moves that the page *)
(* accepts, on every board a game can reach.                               *)
THEOREM BoardGeneratorAgrees == Spec => []GeneratorAgrees
  BY BoardInvInit, BoardInvStep, BoardInvGenerator, PTL DEF Spec

(* NotationIsUnique: two moves a player may choose between are never       *)
(* written the same way, on any board a game can reach, with whatever men  *)
(* are left of those a game begins with.                                   *)
THEOREM BoardNotationIsUnique == Spec => []NotationIsUnique
PROOF
<1>1. InPlay(board) /\ Mustered(board) => NotationIsUnique
  BY TextsCounted DEF NotationIsUnique
<1> QED
  BY <1>1, BoardInvInit, BoardInvStep, PresentBoard, PTL DEF Spec

-----------------------------------------------------------------------------
(* An answer the generator knows as well: a safe move that the page accepts *)
(* and that is not one of those legalMovePiece alone grants.               *)
HasAnswer(b) == \E mv \in Answers(b) : ~OnlyLegalMovePiece(PieceAt(b, StartOfMove(mv)), EndOfMove(mv))

(* A generated move is an answer and an answer is generated. *)
LEMMA AnswerIsGenerated ==
  ASSUME InPlay(board), NEW mv \in Tried(board),
         LegalMovePiece(board, PieceAt(board, StartOfMove(mv)), EndOfMove(mv)),
         ~OnlyLegalMovePiece(PieceAt(board, StartOfMove(mv)), EndOfMove(mv))
  PROVE  \E i \in Shown(board, board.cur) : mv \in GenerateMoves(board, i)
PROOF
<1>1. IsBoard(board)
  BY DEF InPlay
<1>2. PICK i \in Shown(board, board.cur), q \in Squares : mv = GetMove(board.pieces[i].pos, q)
  BY DEF Tried
<1>3. ~(Has(board, EndOfMove(mv)) /\ PieceAt(board, EndOfMove(mv)).side = board.cur)
  BY DEF Tried
<1>4. PICK p : p = board.pieces[i]
  OBVIOUS
<1>5. /\ p.side = board.cur /\ p.pos \in Squares /\ PieceAt(board, p.pos) = p
  BY <1>1, <1>4, ShownGoes
<1>6. StartOfMove(mv) = p.pos /\ EndOfMove(mv) = q
  BY <1>2, <1>4, <1>5, MoveSquares
<1>7. ~OwnAt(board, p, q) /\ ~OnlyLegalMovePiece(p, q) /\ LegalMovePiece(board, p, q)
  BY <1>3, <1>5, <1>6 DEF OwnAt
<1>8. q \in Dests(board, p)
  BY <1>4, <1>7, InPlayGenerator DEF GeneratorAgrees
<1>9. mv \in GenerateMoves(board, i)
  BY <1>2, <1>4, <1>8 DEF GenerateMoves
<1> QED
  BY <1>9

(* A move that the mate test finds is one the page accepts. *)
LEMMA GeneratedIsAnswer ==
  ASSUME InPlay(board), NEW i \in Shown(board, board.cur), NEW mv \in GenerateMoves(board, i)
  PROVE  /\ mv \in Tried(board)
         /\ LegalMovePiece(board, PieceAt(board, StartOfMove(mv)), EndOfMove(mv))
         /\ ~OnlyLegalMovePiece(PieceAt(board, StartOfMove(mv)), EndOfMove(mv))
PROOF
<1>1. IsBoard(board)
  BY DEF InPlay
<1>2. PICK p : p = board.pieces[i]
  OBVIOUS
<1>3. PICK q \in Dests(board, p) : mv = GetMove(p.pos, q)
  BY <1>2 DEF GenerateMoves
<1>4. /\ p \in Piece /\ p.side = board.cur /\ p.pos \in Squares /\ PieceAt(board, p.pos) = p
      /\ DOMAIN board.at \subseteq Squares /\ i \in DOMAIN board.pieces
  BY <1>1, <1>2, ShownGoes
<1>5. p.type = Bishop => BishopPoint(p.pos)
  BY <1>2, <1>4 DEF InPlay
<1>6. q \in Squares /\ ~OwnAt(board, p, q)
  BY <1>3, <1>4, <1>5, DestsAreFree
<1>7. StartOfMove(mv) = p.pos /\ EndOfMove(mv) = q
  BY <1>3, <1>4, <1>6, MoveSquares
<1>8. ~Beyond(board, p, q)
  BY <1>2, <1>3, GeneratedNotBeyond
<1>9. Goes(board, p, q)
  BY <1>1, <1>2, <1>6, ShownGoes
<1>10. LegalMovePiece(board, p, q)
  BY <1>3, <1>4, <1>5, <1>8, <1>9, DestsAgree
<1>11. mv \in {GetMove(board.pieces[k].pos, z) : k \in Shown(board, board.cur), z \in Squares}
  BY <1>2, <1>3, <1>6
<1>12. mv \in Tried(board)
  BY <1>11, <1>4, <1>6, <1>7 DEF Tried, OwnAt
<1>13. ~OnlyLegalMovePiece(p, q)
  BY <1>8 DEF Beyond, OnlyLegalMovePiece, JumpsToEmpty
<1> QED
  BY <1>4, <1>7, <1>10, <1>12, <1>13

(* What noWayToMove finds: no answer, and, with a piece off the board, not *)
(* even staying in place.                                                  *)
LEMMA NoWayMeans ==
  ASSUME InPlay(board)
  PROVE  NoWayToMove(board) <=>
           /\ ~HasAnswer(board)
           /\ Cardinality(Shown(board, board.cur)) < 16 => WillKillSelfKing(board)
PROOF
<1>1. IsBoard(board)
  BY DEF InPlay
<1>2. HasAnswer(board) <=>
        \E i \in Shown(board, board.cur) : \E mv \in GenerateMoves(board, i) : Safe(board, mv)
  <2>1. ASSUME HasAnswer(board)
        PROVE  \E i \in Shown(board, board.cur) : \E mv \in GenerateMoves(board, i) : Safe(board, mv)
    <3>1. PICK mv \in Tried(board) :
            /\ LegalMovePiece(board, PieceAt(board, StartOfMove(mv)), EndOfMove(mv))
            /\ ~OnlyLegalMovePiece(PieceAt(board, StartOfMove(mv)), EndOfMove(mv))
            /\ Safe(board, mv)
      BY <2>1 DEF HasAnswer, Answers
    <3>2. PICK i \in Shown(board, board.cur) : mv \in GenerateMoves(board, i)
      BY <3>1, AnswerIsGenerated
    <3> QED
      BY <3>1, <3>2
  <2>2. ASSUME NEW i \in Shown(board, board.cur), NEW mv \in GenerateMoves(board, i), Safe(board, mv)
        PROVE  HasAnswer(board)
    <3>1. /\ mv \in Tried(board)
          /\ LegalMovePiece(board, PieceAt(board, StartOfMove(mv)), EndOfMove(mv))
          /\ ~OnlyLegalMovePiece(PieceAt(board, StartOfMove(mv)), EndOfMove(mv))
      BY GeneratedIsAnswer
    <3> QED
      BY <3>1, <2>2 DEF HasAnswer, Answers
  <2> QED
    BY <2>1, <2>2
<1>3. Safe(board, None) <=> ~WillKillSelfKing(board)
  BY <1>1, NoneIsStaying
<1>4. \A mv : mv \in GenerateAllMovesNonCheck(board) <=>
        \/ \E i \in Shown(board, board.cur) : mv \in GenerateMoves(board, i)
        \/ Cardinality(Shown(board, board.cur)) < 16 /\ mv = None
  BY DEF GenerateAllMovesNonCheck
<1> QED
  BY <1>2, <1>3, <1>4 DEF NoWayToMove

(* What tryMovePiece said of the move just played is about the present     *)
(* board.                                                                  *)
Announced == result # "none" => (result = "LORE" <=> NoWayToMove(board))

(* What is announced in a step is about the board after it. *)
LEMMA AnnouncedStep ==
  ASSUME Announced, [Next]_vars
  PROVE  Announced'
PROOF
<1>1. CASE PlayMove
  <2>1. PICK mv \in Tried(board) :
          /\ TryMovePiece(board, mv) \notin {"ILLEGAL", "KILLED"}
          /\ board' = Play(board, mv) /\ result' = TryMovePiece(board, mv)
    BY <1>1 DEF PlayMove
  <2>2. TryMovePiece(board, mv) = "LORE" <=> NoWayToMove(ChangeSide(MakeMove(board, mv)))
    BY <2>1 DEF TryMovePiece
  <2>3. NoWayToMove(board') <=> NoWayToMove(Play(board, mv))
    BY <2>1
  <2> QED
    BY <2>1, <2>2, <2>3 DEF Announced, Play
<1>2. CASE TakeBack
  BY <1>2 DEF TakeBack, Announced
<1>3. CASE UNCHANGED vars
  BY <1>3 DEF vars, Announced, NoWayToMove, Safe
<1> QED
  BY <1>1, <1>2, <1>3 DEF Next

(* For every board in play: a move is announced as a mate exactly when the *)
(* opponent has no answer and, unless all its sixteen pieces are on the    *)
(* board, is in check.                                                     *)
MateOrStalemate ==
  result # "none" =>
    (result = "LORE" <=>
       /\ ~HasAnswer(board)
       /\ Cardinality(Shown(board, board.cur)) < 16 => WillKillSelfKing(board))

(* MateOrStalemate: what is announced as lost is a position without an     *)
(* answer, and unless all sixteen pieces stand, one in check.              *)
THEOREM BoardMateOrStalemate == Spec => []MateOrStalemate
PROOF
<1>1. Init => Announced
  BY DEF Init, Announced
<1>2. Announced /\ [Next]_vars => Announced'
  BY AnnouncedStep
<1>3. BoardInv /\ Announced => MateOrStalemate
  BY PresentBoard, NoWayMeans DEF Announced, MateOrStalemate
<1> QED
  BY <1>1, <1>2, <1>3, BoardInvInit, BoardInvStep, PTL DEF Spec

(* No answer takes a king: the side it belongs to would have been in check *)
(* when the other one got its turn.  So what legalMovePiece alone grants is *)
(* a cannon over a screen to an empty square.                              *)
LEMMA AnswersTakeNoKing ==
  ASSUME InPlay(board), NEW mv \in Answers(board),
         OnlyLegalMovePiece(PieceAt(board, StartOfMove(mv)), EndOfMove(mv))
  PROVE  JumpsToEmpty(PieceAt(board, StartOfMove(mv)), EndOfMove(mv))
PROOF
<1>1. /\ IsBoard(board) /\ mv \in Tried(board)
      /\ LegalMovePiece(board, PieceAt(board, StartOfMove(mv)), EndOfMove(mv))
  BY DEF InPlay, Answers
<1>2. Tries(board, mv)
  BY <1>1, TriedTries
<1>3. PICK s, e, n, t : Moved(board, mv, s, e, n, t, MakeMove(board, mv))
  BY <1>1, <1>2, MadeMove
<1>4. ASSUME Has(board, EndOfMove(mv))
      PROVE  PieceAt(board, EndOfMove(mv)).type # King
  <2>1. e = EndOfMove(mv) /\ t = board.at[e]
    BY <1>3, <1>4 DEF Moved, Taken, Has
  <2>2. board.at[e] \in DOMAIN board.pieces
    BY <1>1, <1>4, <2>1, BooksTell DEF Has
  <2>3. t # None
    BY <1>1, <2>1, <2>2, BoardTyping
  <2>4. board.pieces[t].type # King
    BY <1>1, <1>2, <1>3, <2>3, KingNotTaken
  <2> QED
    BY <2>1, <2>4 DEF PieceAt
<1> QED
  BY <1>4 DEF OnlyLegalMovePiece

(* MateIsSeen: on every board a game can reach a mate is announced, and    *)
(* what is announced as lost leaves no answer but a cannon's jump to an    *)
(* empty square.                                                           *)
THEOREM BoardMateIsSeen == Spec => []MateIsSeen
PROOF
<1>1. BoardInv /\ MateOrStalemate => MateIsSeen
  <2> SUFFICES ASSUME InPlay(board), MateOrStalemate
               PROVE  MateIsSeen
    BY PresentBoard
  <2>1. MateIsAnnounced
    BY DEF MateIsAnnounced, MateOrStalemate, HasAnswer
  <2>2. ASSUME result = "LORE", NEW mv \in Answers(board)
        PROVE  JumpsToEmpty(PieceAt(board, StartOfMove(mv)), EndOfMove(mv))
    <3>1. ~HasAnswer(board)
      BY <2>2 DEF MateOrStalemate
    <3>2. OnlyLegalMovePiece(PieceAt(board, StartOfMove(mv)), EndOfMove(mv))
      BY <3>1 DEF HasAnswer
    <3> QED
      BY <3>2, AnswersTakeNoKing
  <2>3. LoreIsFinal
    BY <2>2 DEF LoreIsFinal
  <2> QED
    BY <2>1, <2>3 DEF MateIsSeen
<1> QED
  BY <1>1, BoardMateOrStalemate, BoardInvInit, BoardInvStep, PTL DEF Spec

-----------------------------------------------------------------------------
(* Every set of numbers has a least element, if it has any. *)
LEMMA LeastElement ==
  ASSUME NEW T \in SUBSET Nat, T # {}
  PROVE  \E n \in T : \A m \in T : n <= m
PROOF
<1> DEFINE I == {0..n : n \in T}
<1>1. I \subseteq FiniteSubsetsOf(Nat)
  <2> SUFFICES ASSUME NEW n \in T PROVE 0..n \in FiniteSubsetsOf(Nat)
    OBVIOUS
  <2>1. IsFiniteSet(0..n)
    BY FS_Interval
  <2> QED
    BY <2>1 DEF FiniteSubsetsOf
<1>2. I # {}
  OBVIOUS
<1>3. IsWellFoundedOn(StrictSubsetOrdering(Nat), FiniteSubsetsOf(Nat))
  BY FS_StrictSubsetOrderingWellFounded
<1> HIDE DEF I
<1>4. PICK X \in I : \A Y \in I : <<Y, X>> \notin StrictSubsetOrdering(Nat)
  BY <1>1, <1>2, <1>3, WFMin
<1>5. PICK n \in T : X = 0..n
  BY DEF I
<1>6. ASSUME NEW m \in T, m < n PROVE FALSE
  <2>1. 0..m \in I
    BY DEF I
  <2>2. 0..m \subseteq 0..n /\ 0..m # 0..n /\ 0..n \subseteq Nat
    <3>1. n \in 0..n /\ n \notin 0..m
      BY <1>6
    <3> QED
      BY <3>1, <1>6
  <2>3. <<0..m, 0..n>> \in StrictSubsetOrdering(Nat)
    <3>1. PICK x, y : x = 0..m /\ y = 0..n
      OBVIOUS
    <3>2. x \in SUBSET Nat /\ y \in SUBSET Nat /\ x \subseteq y /\ x # y
      BY <2>2, <3>1
    <3>3. <<x, y>> \in StrictSubsetOrdering(Nat)
      BY <3>2 DEF StrictSubsetOrdering
    <3> QED
      BY <3>1, <3>3
  <2> QED
    BY <2>1, <2>3, <1>4, <1>5
<1> QED
  BY <1>6

(* What holds for 0, and for n + 1 whenever it holds for n, holds for all. *)
LEMMA Induction ==
  ASSUME NEW S, 0 \in S, \A n \in Nat : n \in S => n + 1 \in S
  PROVE  \A n \in Nat : n \in S
PROOF
<1> SUFFICES ASSUME Nat \ S # {} PROVE FALSE
  OBVIOUS
<1>1. PICK n \in Nat \ S : \A m \in Nat \ S : n <= m
  BY LeastElement
<1>2. n # 0
  OBVIOUS
<1>3. n - 1 \in Nat /\ n - 1 \in S
  BY <1>1, <1>2
<1> QED
  BY <1>3

(* A recursion along 1..n has a solution, whatever its steps do in D.      *)
Solves(f, n, d, F) == f[0] = d /\ \A k \in 1..n : f[k] = F[k][f[k - 1]]

LEMMA Recursion ==
  ASSUME NEW D, NEW d \in D, NEW n \in Nat, NEW F, \A k \in 1..n : \A x \in D : F[k][x] \in D
  PROVE  \E f \in [0..n -> D] : Solves(f, n, d, F)
PROOF
<1> DEFINE T == {m \in Nat : m <= n => \E f \in [0..m -> D] : Solves(f, m, d, F)}
<1>1. 0 \in T
  <2> DEFINE f == [k \in 0..0 |-> d]
  <2>1. f \in [0..0 -> D] /\ f[0] = d
    OBVIOUS
  <2> HIDE DEF f
  <2> QED
    BY <2>1 DEF Solves
<1>2. ASSUME NEW m \in Nat, m \in T
      PROVE  m + 1 \in T
  <2> SUFFICES ASSUME m + 1 <= n PROVE \E f \in [0..(m + 1) -> D] : Solves(f, m + 1, d, F)
    OBVIOUS
  <2>1. PICK f \in [0..m -> D] : Solves(f, m, d, F)
    BY <1>2
  <2>2. f[0] = d /\ \A k \in 1..m : f[k] = F[k][f[k - 1]]
    BY <2>1 DEF Solves
  <2>3. f[m] \in D /\ F[m + 1][f[m]] \in D
    OBVIOUS
  <2> DEFINE g == [k \in 0..(m + 1) |-> IF k = m + 1 THEN F[m + 1][f[m]] ELSE f[k]]
  <2>4. g \in [0..(m + 1) -> D]
    BY <2>3
  <2>5. /\ \A k \in 0..m : g[k] = f[k]
        /\ g[m + 1] = F[m + 1][f[m]]
    OBVIOUS
  <2> HIDE DEF g
  <2>6. ASSUME NEW k \in 1..(m + 1) PROVE g[k] = F[k][g[k - 1]]
    <3>1. CASE k = m + 1
      BY <3>1, <2>5
    <3>2. CASE k # m + 1
      <4>1. k \in 1..m /\ k \in 0..m /\ k - 1 \in 0..m
        BY <3>2
      <4> QED
        BY <4>1, <2>2, <2>5
    <3> QED
      BY <3>1, <3>2
  <2> QED
    BY <2>2, <2>4, <2>5, <2>6 DEF Solves
<1> HIDE DEF T
<1>3. n \in T
  BY <1>1, <1>2, Induction
<1> QED
  BY <1>3 DEF T

(* Two solutions agree as far as their steps do. *)
LEMMA SolutionsAgree ==
  ASSUME NEW d, NEW n \in Nat, NEW F, NEW f, Solves(f, n, d, F),
         NEW m \in Nat, NEW G, NEW g, Solves(g, m, d, G), m <= n,
         \A k \in 1..m : F[k] = G[k]
  PROVE  \A k \in 0..m : f[k] = g[k]
PROOF
<1> DEFINE T == {k \in Nat : k <= m => f[k] = g[k]}
<1>1. f[0] = d /\ \A k \in 1..n : f[k] = F[k][f[k - 1]]
  BY DEF Solves
<1>2. g[0] = d /\ \A k \in 1..m : g[k] = G[k][g[k - 1]]
  BY DEF Solves
<1>3. 0 \in T
  BY <1>1, <1>2
<1>4. ASSUME NEW k \in Nat, k \in T
      PROVE  k + 1 \in T
  <2> SUFFICES ASSUME k + 1 <= m PROVE f[k + 1] = g[k + 1]
    OBVIOUS
  <2>1. k + 1 \in 1..n /\ k + 1 \in 1..m /\ (k + 1) - 1 = k
    OBVIOUS
  <2>2. f[k] = g[k]
    BY <1>4
  <2>3. f[k + 1] = F[k + 1][f[k]] /\ g[k + 1] = G[k + 1][g[k]]
    BY <1>1, <1>2, <2>1
  <2> QED
    BY <2>1, <2>2, <2>3
<1> HIDE DEF T
<1>5. \A k \in Nat : k \in T
  BY <1>3, <1>4, Induction
<1> QED
  BY <1>5 DEF T

-----------------------------------------------------------------------------
(* The symbols of a row, and what is put where when they are read.         *)
Man == [type : King..Pawn, side : {Red, Black}]
Symbol == [gap : Nat] \cup Man
Placement == [type : King..Pawn, side : {Red, Black}, pos : Int]
ReadStart == [out |-> <<>>, col |-> 0]
ReadState == [out : Seq(Placement), col : Nat]

\* How far reading has come at the end of a sequence of symbols.
ReadAll(row, symbols) ==
  LET read[n \in 0..Len(symbols)] == IF n = 0 THEN [out |-> <<>>, col |-> 0]
                                     ELSE ReadSymbol(row, symbols[n], read[n - 1])
  IN  read[Len(symbols)]

\* Reading as a recursion.
Reads(row, s, n, f) ==
  f = [k \in 0..n |-> IF k = 0 THEN [out |-> <<>>, col |-> 0] ELSE ReadSymbol(row, s[k], f[k - 1])]
ReadSteps(row, s, n) == [k \in 1..n |-> [x \in ReadState |-> ReadSymbol(row, s[k], x)]]

(* A gap and a man are told apart by whether there is a field gap.         *)
LEMMA SymbolKinds ==
  /\ \A s \in [gap : Nat] : "gap" \in DOMAIN s /\ s.gap \in Nat
  /\ \A s \in Man : "gap" \notin DOMAIN s /\ s.type \in King..Pawn /\ s.side \in {Red, Black}
PROOF
<1>1. ASSUME NEW s \in [gap : Nat] PROVE "gap" \in DOMAIN s /\ s.gap \in Nat
  OBVIOUS
<1>2. ASSUME NEW s \in Man PROVE "gap" \notin DOMAIN s /\ s.type \in King..Pawn /\ s.side \in {Red, Black}
  <2>1. DOMAIN s = {"type", "side"}
    BY DEF Man
  <2>2. "gap" # "type" /\ "gap" # "side"
    OBVIOUS
  <2>3. s.type \in King..Pawn /\ s.side \in {Red, Black}
    BY DEF Man
  <2> QED
    BY <2>1, <2>2, <2>3
<1> QED
  BY <1>1, <1>2

(* What a symbol does to a state of reading. *)
LEMMA ReadGap ==
  ASSUME NEW row, NEW n \in Nat, NEW x \in ReadState
  PROVE  /\ ReadSymbol(row, [gap |-> n], x) \in ReadState
         /\ ReadSymbol(row, [gap |-> n], x).out = x.out
         /\ ReadSymbol(row, [gap |-> n], x).col = x.col + n
PROOF
<1>1. PICK s \in [gap : Nat] : s = [gap |-> n]
  OBVIOUS
<1>2. "gap" \in DOMAIN s /\ s.gap = n
  BY <1>1, SymbolKinds
<1>3. ReadSymbol(row, s, x) = [x EXCEPT !.col = @ + s.gap]
  BY <1>2 DEF ReadSymbol
<1>4. x.out \in Seq(Placement) /\ x.col \in Nat /\ x = [out |-> x.out, col |-> x.col]
  BY DEF ReadState
<1>5. ReadSymbol(row, s, x) = [out |-> x.out, col |-> x.col + n]
  BY <1>2, <1>3, <1>4
<1> QED
  BY <1>1, <1>4, <1>5 DEF ReadState

LEMMA ReadMan ==
  ASSUME NEW row \in Int, NEW s \in Man, NEW x \in ReadState
  PROVE  /\ ReadSymbol(row, s, x) \in ReadState
         /\ ReadSymbol(row, s, x).out =
              Append(x.out, [type |-> s.type, side |-> s.side, pos |-> ConvertToPos(row, x.col)])
         /\ ReadSymbol(row, s, x).col = x.col + 1
PROOF
<1>1. "gap" \notin DOMAIN s /\ s.type \in King..Pawn /\ s.side \in {Red, Black}
  BY SymbolKinds
<1>2. x.out \in Seq(Placement) /\ x.col \in Nat
  BY DEF ReadState
<1> DEFINE p == [type |-> s.type, side |-> s.side, pos |-> ConvertToPos(row, x.col)]
<1>3. ReadSymbol(row, s, x) = [out |-> Append(x.out, p), col |-> x.col + 1]
  BY <1>1 DEF ReadSymbol
<1>4. ConvertToPos(row, x.col) \in Int
  BY <1>2 DEF ConvertToPos
<1>5. p \in Placement
  BY <1>1, <1>4 DEF Placement
<1>6. Append(x.out, p) \in Seq(Placement)
  BY <1>2, <1>5
<1> HIDE DEF p
<1>7. [out |-> Append(x.out, p), col |-> x.col + 1] \in ReadState
  BY <1>2, <1>6 DEF ReadState
<1> QED
  BY <1>3, <1>7 DEF p

LEMMA ReadStateKept ==
  ASSUME NEW row \in Int, NEW s \in Symbol, NEW x \in ReadState
  PROVE  ReadSymbol(row, s, x) \in ReadState
PROOF
<1>1. CASE s \in Man
  BY <1>1, ReadMan
<1>2. CASE s \in [gap : Nat]
  <2>1. PICK n \in Nat : s = [gap |-> n]
    BY <1>2
  <2> QED
    BY <2>1, ReadGap
<1> QED
  BY <1>1, <1>2 DEF Symbol

LEMMA ReadStartState == ReadStart \in ReadState
  BY DEF ReadStart, ReadState

(* Reading is the solution of its recursion. *)
LEMMA ReadAllSolves ==
  ASSUME NEW row \in Int, NEW s \in Seq(Symbol)
  PROVE  \E f \in [0..Len(s) -> ReadState] :
            Solves(f, Len(s), ReadStart, ReadSteps(row, s, Len(s))) /\ ReadAll(row, s) = f[Len(s)]
PROOF
<1> DEFINE n == Len(s)
           F == ReadSteps(row, s, n)
<1>1. n \in Nat /\ \A k \in 1..n : s[k] \in Symbol
  OBVIOUS
<1> HIDE DEF n
<1>2. \A k \in 1..n : \A x \in ReadState : F[k][x] = ReadSymbol(row, s[k], x)
  BY DEF ReadSteps
<1>3. \A k \in 1..n : \A x \in ReadState : F[k][x] \in ReadState
  BY <1>1, <1>2, ReadStateKept
<1> HIDE DEF F
<1>4. PICK f \in [0..n -> ReadState] : Solves(f, n, ReadStart, F)
  BY <1>1, <1>3, ReadStartState, Recursion
<1>5. ASSUME NEW g, Reads(row, s, n, g)
      PROVE  g \in [0..n -> ReadState] /\ Solves(g, n, ReadStart, F)
  <2> DEFINE e(k) == IF k = 0 THEN [out |-> <<>>, col |-> 0] ELSE ReadSymbol(row, s[k], g[k - 1])
  <2>1. g = [k \in 0..n |-> e(k)]
    BY <1>5 DEF Reads
  <2> HIDE DEF e
  <2>2. \A k \in 0..n : g[k] = e(k)
    BY <2>1
  <2>3. g[0] = ReadStart /\ \A k \in 1..n : g[k] = ReadSymbol(row, s[k], g[k - 1])
    BY <1>1, <2>2 DEF e, ReadStart
  <2> DEFINE T == {k \in Nat : k <= n => g[k] \in ReadState}
  <2>4. 0 \in T
    BY <2>3, ReadStartState
  <2>5. ASSUME NEW k \in Nat, k \in T PROVE k + 1 \in T
    <3> SUFFICES ASSUME k + 1 <= n PROVE g[k + 1] \in ReadState
      OBVIOUS
    <3>1. k + 1 \in 1..n /\ (k + 1) - 1 = k /\ g[k] \in ReadState
      BY <1>1, <2>5
    <3> QED
      BY <3>1, <2>3, <1>1, ReadStateKept
  <2> HIDE DEF T
  <2>6. \A k \in Nat : k \in T
    BY <2>4, <2>5, Induction
  <2>7. \A k \in 0..n : g[k] \in ReadState
    BY <1>1, <2>6 DEF T
  <2>8. g \in [0..n -> ReadState]
    BY <2>1, <2>7
  <2>9. \A k \in 1..n : g[k] = F[k][g[k - 1]]
    BY <1>1, <1>2, <2>3, <2>7
  <2> QED
    BY <2>3, <2>8, <2>9 DEF Solves
<1>6. Reads(row, s, n, f)
  <2>1. f[0] = ReadStart /\ \A k \in 1..n : f[k] = F[k][f[k - 1]]
    BY <1>4 DEF Solves
  <2>2. ASSUME NEW k \in 0..n
        PROVE  f[k] = IF k = 0 THEN [out |-> <<>>, col |-> 0] ELSE ReadSymbol(row, s[k], f[k - 1])
    <3>1. CASE k = 0
      BY <3>1, <2>1 DEF ReadStart
    <3>2. CASE k # 0
      <4>1. k \in 1..n /\ k - 1 \in 0..n
        BY <3>2, <1>1
      <4> QED
        BY <4>1, <3>2, <2>1, <1>2
    <3> QED
      BY <3>1, <3>2
  <2> DEFINE e(k) == IF k = 0 THEN [out |-> <<>>, col |-> 0] ELSE ReadSymbol(row, s[k], f[k - 1])
  <2>3. \A k \in 0..n : f[k] = e(k)
    BY <2>2
  <2> HIDE DEF e
  <2>4. f = [k \in 0..n |-> e(k)]
    BY <2>3
  <2> QED
    BY <2>4 DEF Reads, e
<1> DEFINE g == CHOOSE g : Reads(row, s, n, g)
<1>7. Reads(row, s, n, g)
  BY <1>6
<1>8. ReadAll(row, s) = g[Len(s)]
  BY DEF ReadAll, Reads, n
<1> HIDE DEF g
<1>9. g \in [0..n -> ReadState] /\ Solves(g, n, ReadStart, F)
  BY <1>5, <1>7
<1> QED
  BY <1>8, <1>9 DEF n, F

(* Reading symbol by symbol. *)
LEMMA ReadNothing == ASSUME NEW row \in Int PROVE ReadAll(row, <<>>) = ReadStart
PROOF
<1>1. <<>> \in Seq(Symbol) /\ Len(<<>>) = 0
  OBVIOUS
<1>2. PICK f \in [0..0 -> ReadState] :
        Solves(f, 0, ReadStart, ReadSteps(row, <<>>, 0)) /\ ReadAll(row, <<>>) = f[0]
  BY <1>1, ReadAllSolves
<1> QED
  BY <1>2 DEF Solves

LEMMA ReadMore ==
  ASSUME NEW row \in Int, NEW s \in Seq(Symbol), NEW x \in Symbol
  PROVE  /\ ReadAll(row, s) \in ReadState
         /\ ReadAll(row, Append(s, x)) = ReadSymbol(row, x, ReadAll(row, s))
PROOF
<1>1. PICK n \in Nat : n = Len(s)
  OBVIOUS
<1> DEFINE t == Append(s, x)
<1>3. t \in Seq(Symbol) /\ Len(t) = n + 1 /\ t[n + 1] = x /\ \A k \in 1..n : t[k] = s[k]
  BY <1>1
<1> HIDE DEF t
<1>4. PICK f \in [0..n -> ReadState] :
        Solves(f, n, ReadStart, ReadSteps(row, s, n)) /\ ReadAll(row, s) = f[n]
  BY <1>1, ReadAllSolves
<1>5. PICK g \in [0..(n + 1) -> ReadState] :
        Solves(g, n + 1, ReadStart, ReadSteps(row, t, n + 1)) /\ ReadAll(row, t) = g[n + 1]
  BY <1>3, ReadAllSolves
<1>6. \A k \in 1..n : ReadSteps(row, t, n + 1)[k] = ReadSteps(row, s, n)[k]
  BY <1>3 DEF ReadSteps
<1>7. g[n] = f[n]
  BY <1>4, <1>5, <1>6, SolutionsAgree
<1>8. g[n + 1] = ReadSteps(row, t, n + 1)[n + 1][g[n]]
  BY <1>5 DEF Solves
<1>9. g[n] \in ReadState
  BY <1>5
<1>10. g[n + 1] = ReadSymbol(row, x, g[n])
  BY <1>3, <1>8, <1>9 DEF ReadSteps
<1> QED
  BY <1>4, <1>5, <1>7, <1>9, <1>10 DEF t

-----------------------------------------------------------------------------
(* A row as it is written, square by square.                               *)
WriteStart == [out |-> <<>>, gap |-> 0]
WriteState == [out : Seq(Symbol), gap : Nat]
Writes(b, row, f) ==
  f = [c \in 0..9 |-> IF c = 0 THEN [out |-> <<>>, gap |-> 0]
                      ELSE WriteSquare(b, ConvertToPos(row, c - 1), f[c - 1])]
WriteSteps(b, row) ==
  [c \in 1..9 |-> [x \in WriteState |-> WriteSquare(b, ConvertToPos(row, c - 1), x)]]

(* What a gap adds to the symbols. *)
LEMMA GapWritten ==
  ASSUME NEW x \in WriteState
  PROVE  /\ x.out \in Seq(Symbol) /\ x.gap \in Nat
         /\ Gap(x) \in Seq(Symbol)
         /\ x.gap > 0 => [gap |-> x.gap] \in Symbol /\ Gap(x) = Append(x.out, [gap |-> x.gap])
         /\ ~(x.gap > 0) => Gap(x) = x.out
PROOF
<1>1. x.out \in Seq(Symbol) /\ x.gap \in Nat
  BY DEF WriteState
<1>2. [gap |-> x.gap] \in Symbol
  BY <1>1 DEF Symbol
<1>3. x.gap > 0 => Gap(x) = Append(x.out, [gap |-> x.gap])
  BY DEF Gap
<1>4. ~(x.gap > 0) => Gap(x) = x.out
  BY DEF Gap
<1>5. Gap(x) \in Seq(Symbol)
  <2>1. CASE x.gap > 0
    <3>1. Append(x.out, [gap |-> x.gap]) \in Seq(Symbol)
      BY <1>1, <1>2
    <3> QED
      BY <2>1, <3>1, <1>3
  <2>2. CASE ~(x.gap > 0)
    BY <2>2, <1>1, <1>4
  <2> QED
    BY <2>1, <2>2
<1> QED
  BY <1>1, <1>2, <1>3, <1>4, <1>5

\* The man on a square, as a symbol.
ManAt(b, pos) == [type |-> PieceAt(b, pos).type, side |-> PieceAt(b, pos).side]

(* What is on the squares of a board in play. *)
LEMMA ManOnSquare ==
  ASSUME NEW b, IsBoard(b), NEW pos, Has(b, pos)
  PROVE  PieceAt(b, pos).show /\ ManAt(b, pos) \in Man /\ ManAt(b, pos) \in Symbol
PROOF
<1>1. PieceAt(b, pos) \in Piece /\ PieceAt(b, pos).show
  BY BoardTyping, BooksTell DEF Has, PieceAt
<1>2. ManAt(b, pos) \in Man
  BY <1>1 DEF Piece, Man, ManAt
<1> QED
  BY <1>1, <1>2 DEF Symbol

LEMMA WriteMan ==
  ASSUME NEW b, IsBoard(b), NEW pos, Has(b, pos), NEW x \in WriteState
  PROVE  /\ WriteSquare(b, pos, x) \in WriteState
         /\ WriteSquare(b, pos, x).out = Append(Gap(x), ManAt(b, pos))
         /\ WriteSquare(b, pos, x).gap = 0
PROOF
<1>1. PieceAt(b, pos).show /\ ManAt(b, pos) \in Symbol
  BY ManOnSquare
<1>2. WriteSquare(b, pos, x) = [out |-> Append(Gap(x), ManAt(b, pos)), gap |-> 0]
  BY <1>1 DEF WriteSquare, ManAt
<1>3. Gap(x) \in Seq(Symbol)
  BY GapWritten
<1>4. Append(Gap(x), ManAt(b, pos)) \in Seq(Symbol)
  BY <1>1, <1>3
<1>5. [out |-> Append(Gap(x), ManAt(b, pos)), gap |-> 0] \in WriteState
  BY <1>4 DEF WriteState
<1> QED
  BY <1>2, <1>5

LEMMA WriteFree ==
  ASSUME NEW b, NEW pos, ~Has(b, pos), NEW x \in WriteState
  PROVE  /\ WriteSquare(b, pos, x) \in WriteState
         /\ WriteSquare(b, pos, x).out = x.out
         /\ WriteSquare(b, pos, x).gap = x.gap + 1
PROOF
<1>1. WriteSquare(b, pos, x) = [x EXCEPT !.gap = @ + 1]
  BY DEF WriteSquare
<1>2. x.out \in Seq(Symbol) /\ x.gap \in Nat /\ x = [out |-> x.out, gap |-> x.gap]
  BY DEF WriteState
<1>3. WriteSquare(b, pos, x) = [out |-> x.out, gap |-> x.gap + 1]
  BY <1>1, <1>2
<1> QED
  BY <1>2, <1>3 DEF WriteState

LEMMA WriteStateKept ==
  ASSUME NEW b, IsBoard(b), NEW pos, NEW x \in WriteState
  PROVE  WriteSquare(b, pos, x) \in WriteState
  BY WriteMan, WriteFree

LEMMA WriteStartState == WriteStart \in WriteState
  BY DEF WriteStart, WriteState

\* The states of writing a row.
Written(b, row, f) ==
  /\ f \in [0..9 -> WriteState]
  /\ f[0] = WriteStart
  /\ \A c \in 1..9 : f[c] = WriteSquare(b, ConvertToPos(row, c - 1), f[c - 1])

(* A row is written in ten states. *)
LEMMA FenRowWritten ==
  ASSUME NEW b, IsBoard(b), NEW row \in Int
  PROVE  \E f : Written(b, row, f) /\ FenRow(b, row) = Gap(f[9])
PROOF
<1> DEFINE F == WriteSteps(b, row)
<1>2. \A c \in 1..9 : \A x \in WriteState : F[c][x] = WriteSquare(b, ConvertToPos(row, c - 1), x)
  BY DEF WriteSteps
<1>3. \A c \in 1..9 : \A x \in WriteState : F[c][x] \in WriteState
  BY <1>2, WriteStateKept
<1> HIDE DEF F
<1>4. PICK f \in [0..9 -> WriteState] : Solves(f, 9, WriteStart, F)
  BY <1>3, WriteStartState, Recursion
<1>5. ASSUME NEW g, Writes(b, row, g)
      PROVE  Written(b, row, g)
  <2> DEFINE e(c) == IF c = 0 THEN [out |-> <<>>, gap |-> 0]
                     ELSE WriteSquare(b, ConvertToPos(row, c - 1), g[c - 1])
  <2>1. g = [c \in 0..9 |-> e(c)]
    BY <1>5 DEF Writes
  <2> HIDE DEF e
  <2>2. \A c \in 0..9 : g[c] = e(c)
    BY <2>1
  <2>3. g[0] = WriteStart
    BY <2>2 DEF e, WriteStart
  <2>4. ASSUME NEW c \in 1..9 PROVE g[c] = WriteSquare(b, ConvertToPos(row, c - 1), g[c - 1])
    <3>1. c \in 0..9 /\ c # 0
      OBVIOUS
    <3> QED
      BY <3>1, <2>2 DEF e
  <2> DEFINE T == {c \in Nat : c <= 9 => g[c] \in WriteState}
  <2>5. 0 \in T
    BY <2>3, WriteStartState
  <2>6. ASSUME NEW c \in Nat, c \in T PROVE c + 1 \in T
    <3> SUFFICES ASSUME c + 1 <= 9 PROVE g[c + 1] \in WriteState
      OBVIOUS
    <3>1. c + 1 \in 1..9 /\ (c + 1) - 1 = c /\ g[c] \in WriteState
      BY <2>6
    <3>2. g[c + 1] = WriteSquare(b, ConvertToPos(row, c), g[c])
      BY <3>1, <2>4
    <3> QED
      BY <3>1, <3>2, WriteStateKept
  <2> HIDE DEF T
  <2>7. \A c \in Nat : c \in T
    BY <2>5, <2>6, Induction
  <2>8. \A c \in 0..9 : g[c] \in WriteState
    BY <2>7 DEF T
  <2>9. g \in [0..9 -> WriteState]
    BY <2>1, <2>8
  <2> QED
    BY <2>3, <2>4, <2>9 DEF Written
<1>6. Writes(b, row, f)
  <2>1. f[0] = WriteStart /\ \A c \in 1..9 : f[c] = F[c][f[c - 1]]
    BY <1>4 DEF Solves
  <2> DEFINE e(c) == IF c = 0 THEN [out |-> <<>>, gap |-> 0]
                     ELSE WriteSquare(b, ConvertToPos(row, c - 1), f[c - 1])
  <2>2. ASSUME NEW c \in 0..9 PROVE f[c] = e(c)
    <3>1. CASE c = 0
      BY <3>1, <2>1 DEF WriteStart
    <3>2. CASE c # 0
      <4>1. c \in 1..9 /\ c - 1 \in 0..9
        BY <3>2
      <4> QED
        BY <4>1, <3>2, <2>1, <1>2
    <3> QED
      BY <3>1, <3>2
  <2> HIDE DEF e
  <2>4. f = [c \in 0..9 |-> e(c)]
    BY <2>2
  <2> QED
    BY <2>4 DEF Writes, e
<1> DEFINE g == CHOOSE g : Writes(b, row, g)
<1>7. Writes(b, row, g)
  BY <1>6
<1>8. FenRow(b, row) = Gap(g[9])
  BY DEF FenRow, Writes
<1> HIDE DEF g
<1> QED
  BY <1>5, <1>7, <1>8

-----------------------------------------------------------------------------
(* A sequence of placements that has the men of a board on some squares,   *)
(* each where it stands, and no others.                                    *)
PlacedAt(b, pos) == [type |-> PieceAt(b, pos).type, side |-> PieceAt(b, pos).side, pos |-> pos]
Lists(b, s, S) ==
  /\ s \in Seq(Placement)
  /\ \A i \in 1..Len(s) : s[i].pos \in S /\ Has(b, s[i].pos) /\ s[i] = PlacedAt(b, s[i].pos)
  /\ \A q \in S : Has(b, q) => \E i \in 1..Len(s) : s[i].pos = q

(* The empty sequence lists no square. *)
LEMMA ListsNothing == ASSUME NEW b PROVE Lists(b, <<>>, {})
  BY DEF Lists

(* Two lists, one behind the other. *)
LEMMA ListsBoth ==
  ASSUME NEW b, NEW s, NEW t, NEW S, NEW T, Lists(b, s, S), Lists(b, t, T)
  PROVE  Lists(b, s \o t, S \cup T)
PROOF
<1>1. s \in Seq(Placement) /\ t \in Seq(Placement)
  BY DEF Lists
<1>2. PICK m \in Nat, n \in Nat : m = Len(s) /\ n = Len(t)
  BY <1>1
<1> DEFINE u == s \o t
<1>3. /\ u \in Seq(Placement) /\ Len(u) = m + n
      /\ \A i \in 1..m : u[i] = s[i]
      /\ \A i \in 1..n : u[m + i] = t[i]
  BY <1>1, <1>2
<1> HIDE DEF u
<1>4. ASSUME NEW i \in 1..(m + n)
      PROVE  u[i].pos \in S \cup T /\ Has(b, u[i].pos) /\ u[i] = PlacedAt(b, u[i].pos)
  <2>1. CASE i \in 1..m
    BY <2>1, <1>2, <1>3 DEF Lists
  <2>2. CASE i \notin 1..m
    <3>1. PICK j \in 1..n : i = m + j
      <4>1. i - m \in 1..n /\ i = m + (i - m)
        BY <2>2
      <4> QED
        BY <4>1
    <3>2. u[i] = t[j]
      BY <3>1, <1>3
    <3> QED
      BY <3>2, <1>2 DEF Lists
  <2> QED
    BY <2>1, <2>2
<1>5. ASSUME NEW q \in S \cup T, Has(b, q)
      PROVE  \E i \in 1..(m + n) : u[i].pos = q
  <2>1. CASE q \in S
    <3>1. PICK i \in 1..m : s[i].pos = q
      BY <2>1, <1>2, <1>5 DEF Lists
    <3>2. i \in 1..(m + n) /\ u[i] = s[i]
      BY <1>3
    <3> QED
      BY <3>1, <3>2
  <2>2. CASE q \in T
    <3>1. PICK i \in 1..n : t[i].pos = q
      BY <2>2, <1>2, <1>5 DEF Lists
    <3>2. m + i \in 1..(m + n) /\ u[m + i] = t[i]
      BY <1>3
    <3> QED
      BY <3>1, <3>2
  <2> QED
    BY <2>1, <2>2
<1>6. Lists(b, u, S \cup T)
  BY <1>3, <1>4, <1>5 DEF Lists
<1> QED
  BY <1>6 DEF u

(* A square more: with its man at the end of the list, or free. *)
LEMMA ListsMan ==
  ASSUME NEW b, IsBoard(b), NEW s, NEW S, Lists(b, s, S), NEW q \in Int, Has(b, q)
  PROVE  Lists(b, Append(s, PlacedAt(b, q)), S \cup {q})
PROOF
<1>1. s \in Seq(Placement)
  BY DEF Lists
<1>2. PlacedAt(b, q) \in Placement
  <2>1. ManAt(b, q) \in Man
    BY ManOnSquare
  <2>2. PieceAt(b, q).type \in King..Pawn /\ PieceAt(b, q).side \in {Red, Black}
    BY <2>1 DEF ManAt, Man
  <2> QED
    BY <2>2 DEF Placement, PlacedAt
<1>3. PlacedAt(b, q).pos = q
  BY DEF PlacedAt
<1> DEFINE p == PlacedAt(b, q)
           n == Len(s)
           u == Append(s, p)
<1>4. p \in Placement /\ p.pos = q /\ p = PlacedAt(b, p.pos)
  BY <1>2, <1>3
<1> HIDE DEF p
<1>5. n \in Nat /\ u \in Seq(Placement) /\ Len(u) = n + 1 /\ u[n + 1] = p /\ \A i \in 1..n : u[i] = s[i]
  BY <1>1, <1>4
<1> HIDE DEF u
<1>6. ASSUME NEW i \in 1..(n + 1)
      PROVE  u[i].pos \in S \cup {q} /\ Has(b, u[i].pos) /\ u[i] = PlacedAt(b, u[i].pos)
  <2>1. CASE i = n + 1
    BY <2>1, <1>4, <1>5
  <2>2. CASE i \in 1..n
    BY <2>2, <1>5 DEF Lists
  <2> QED
    BY <2>1, <2>2, <1>5
<1>7. ASSUME NEW r \in S \cup {q}, Has(b, r)
      PROVE  \E i \in 1..(n + 1) : u[i].pos = r
  <2>1. CASE r = q
    BY <2>1, <1>4, <1>5
  <2>2. CASE r \in S
    <3>1. PICK i \in 1..n : s[i].pos = r
      BY <2>2, <1>7 DEF Lists
    <3>2. i \in 1..(n + 1) /\ u[i] = s[i]
      BY <1>5
    <3> QED
      BY <3>1, <3>2
  <2> QED
    BY <2>1, <2>2
<1>8. Lists(b, u, S \cup {q})
  BY <1>5, <1>6, <1>7 DEF Lists
<1> QED
  BY <1>8 DEF u, p

LEMMA ListsFree ==
  ASSUME NEW b, NEW s, NEW S, Lists(b, s, S), NEW q, ~Has(b, q)
  PROVE  Lists(b, s, S \cup {q})
  BY DEF Lists

-----------------------------------------------------------------------------
(* A row that is read as it was written lists the men on its squares.      *)
RowSquares(row, n) == {ConvertToPos(row, c) : c \in 0..(n - 1)}

\* Read back up to its last man, a row half written has the men so far.
RowRead(b, row, x, n) ==
  /\ x \in WriteState
  /\ ReadAll(row, x.out).col = n - x.gap
  /\ Lists(b, ReadAll(row, x.out).out, RowSquares(row, n))

(* With the gap behind it, reading comes as far as writing has. *)
LEMMA GapRead ==
  ASSUME NEW b, NEW row \in Int, NEW x, NEW n \in Nat, RowRead(b, row, x, n)
  PROVE  /\ Gap(x) \in Seq(Symbol)
         /\ ReadAll(row, Gap(x)) \in ReadState
         /\ ReadAll(row, Gap(x)).col = n
         /\ ReadAll(row, Gap(x)).out = ReadAll(row, x.out).out
PROOF
<1>1. x \in WriteState /\ ReadAll(row, x.out).col = n - x.gap
  BY DEF RowRead
<1>2. x.out \in Seq(Symbol) /\ x.gap \in Nat /\ Gap(x) \in Seq(Symbol)
  BY <1>1, GapWritten
<1>3. [gap |-> x.gap] \in Symbol
  BY <1>2 DEF Symbol
<1>4. ReadAll(row, x.out) \in ReadState
  BY <1>2, <1>3, ReadMore
<1>5. CASE x.gap > 0
  <2>1. Gap(x) = Append(x.out, [gap |-> x.gap])
    BY <1>1, <1>5, GapWritten
  <2>2. ReadAll(row, Append(x.out, [gap |-> x.gap]))
          = ReadSymbol(row, [gap |-> x.gap], ReadAll(row, x.out))
    BY <1>2, <1>3, ReadMore
  <2> DEFINE r == ReadSymbol(row, [gap |-> x.gap], ReadAll(row, x.out))
  <2>3. r \in ReadState /\ r.out = ReadAll(row, x.out).out /\ r.col = ReadAll(row, x.out).col + x.gap
    BY <1>2, <1>4, ReadGap
  <2>4. ReadAll(row, Gap(x)) = r
    BY <2>1, <2>2
  <2> HIDE DEF r
  <2> QED
    BY <2>3, <2>4, <1>1, <1>2
<1>6. CASE ~(x.gap > 0)
  <2>1. Gap(x) = x.out
    BY <1>1, <1>6, GapWritten
  <2>2. x.gap = 0
    BY <1>2, <1>6
  <2> QED
    BY <2>1, <2>2, <1>1, <1>2, <1>4
<1> QED
  BY <1>5, <1>6

LEMMA RowReadStart ==
  ASSUME NEW b, NEW row \in Int
  PROVE  RowRead(b, row, WriteStart, 0)
PROOF
<1>1. WriteStart.out = <<>> /\ WriteStart.gap = 0
  BY DEF WriteStart
<1>2. ReadAll(row, <<>>) = ReadStart
  BY ReadNothing
<1>3. ReadStart.col = 0 /\ ReadStart.out = <<>>
  BY DEF ReadStart
<1>4. RowSquares(row, 0) = {}
  BY DEF RowSquares
<1>5. ReadAll(row, WriteStart.out).col = 0 - WriteStart.gap
  BY <1>1, <1>2, <1>3
<1>6. Lists(b, ReadAll(row, WriteStart.out).out, RowSquares(row, 0))
  BY <1>1, <1>2, <1>3, <1>4, ListsNothing
<1> QED
  BY <1>5, <1>6, WriteStartState DEF RowRead

LEMMA RowReadStep ==
  ASSUME NEW b, IsBoard(b), NEW row \in Int, NEW n \in Nat, NEW x, RowRead(b, row, x, n)
  PROVE  RowRead(b, row, WriteSquare(b, ConvertToPos(row, n), x), n + 1)
PROOF
<1> DEFINE pos == ConvertToPos(row, n)
           y == WriteSquare(b, pos, x)
<1>1. pos \in Int /\ RowSquares(row, n + 1) = RowSquares(row, n) \cup {pos}
  <2>1. pos \in Int
    BY DEF ConvertToPos
  <2>2. ASSUME NEW c \in 0..((n + 1) - 1) PROVE c \in 0..(n - 1) \/ c = n
    OBVIOUS
  <2>3. n \in 0..((n + 1) - 1) /\ \A c \in 0..(n - 1) : c \in 0..((n + 1) - 1)
    OBVIOUS
  <2> QED
    BY <2>1, <2>2, <2>3 DEF RowSquares
<1>2. x \in WriteState /\ x.out \in Seq(Symbol) /\ x.gap \in Nat
  BY GapWritten DEF RowRead
<1>3. /\ ReadAll(row, x.out).col = n - x.gap
      /\ Lists(b, ReadAll(row, x.out).out, RowSquares(row, n))
  BY DEF RowRead
<1> HIDE DEF pos
<1>4. CASE ~Has(b, pos)
  <2>1. y \in WriteState /\ y.out = x.out /\ y.gap = x.gap + 1
    BY <1>2, <1>4, WriteFree
  <2>2. Lists(b, ReadAll(row, x.out).out, RowSquares(row, n) \cup {pos})
    BY <1>3, <1>4, ListsFree
  <2> HIDE DEF y
  <2>3. ReadAll(row, y.out).col = (n + 1) - y.gap
    BY <2>1, <1>2, <1>3
  <2>4. RowRead(b, row, y, n + 1)
    BY <2>1, <2>2, <2>3, <1>1 DEF RowRead
  <2> QED
    BY <2>4 DEF y, pos
<1>5. CASE Has(b, pos)
  <2>1. y \in WriteState /\ y.out = Append(Gap(x), ManAt(b, pos)) /\ y.gap = 0
    BY <1>2, <1>5, WriteMan
  <2> DEFINE r == ReadAll(row, Gap(x))
             z == ReadSymbol(row, ManAt(b, pos), r)
  <2>2. Gap(x) \in Seq(Symbol) /\ r \in ReadState /\ r.col = n /\ r.out = ReadAll(row, x.out).out
    BY GapRead
  <2>3. ManAt(b, pos) \in Man /\ ManAt(b, pos) \in Symbol
    BY <1>5, ManOnSquare
  <2>4. ReadAll(row, Append(Gap(x), ManAt(b, pos))) = z
    BY <2>2, <2>3, ReadMore
  <2> HIDE DEF r
  <2>5. /\ z.out = Append(r.out, [type |-> ManAt(b, pos).type, side |-> ManAt(b, pos).side,
                                  pos |-> ConvertToPos(row, r.col)])
        /\ z.col = r.col + 1
    BY <2>2, <2>3, ReadMan
  <2>6. [type |-> ManAt(b, pos).type, side |-> ManAt(b, pos).side, pos |-> ConvertToPos(row, r.col)]
          = PlacedAt(b, pos)
    BY <2>2 DEF ManAt, PlacedAt, pos
  <2>7. Lists(b, Append(r.out, PlacedAt(b, pos)), RowSquares(row, n) \cup {pos})
    BY <1>1, <1>3, <1>5, <2>2, ListsMan
  <2> HIDE DEF y, z
  <2>8. z.out = Append(r.out, PlacedAt(b, pos))
    BY <2>5, <2>6
  <2>9. ReadAll(row, y.out) = z
    BY <2>1, <2>4
  <2>10. ReadAll(row, y.out).col = (n + 1) - y.gap
    BY <2>1, <2>2, <2>5, <2>9
  <2>11. Lists(b, ReadAll(row, y.out).out, RowSquares(row, n + 1))
    BY <2>7, <2>8, <2>9, <1>1
  <2>12. RowRead(b, row, y, n + 1)
    BY <2>1, <2>10, <2>11 DEF RowRead
  <2> QED
    BY <2>12 DEF y, pos
<1> QED
  BY <1>4, <1>5

(* Written and read again, a row lists the men on its nine squares. *)
LEMMA RowSurvives ==
  ASSUME NEW b, IsBoard(b), NEW row \in Int
  PROVE  Lists(b, PlacedInRow(row, FenRow(b, row)), RowSquares(row, 9))
PROOF
<1>1. PICK f : Written(b, row, f) /\ FenRow(b, row) = Gap(f[9])
  BY FenRowWritten
<1>2. /\ f[0] = WriteStart
      /\ \A c \in 1..9 : f[c] = WriteSquare(b, ConvertToPos(row, c - 1), f[c - 1])
  BY <1>1 DEF Written
<1> DEFINE T == {c \in Nat : c <= 9 => RowRead(b, row, f[c], c)}
<1>3. 0 \in T
  BY <1>2, RowReadStart
<1>4. ASSUME NEW c \in Nat, c \in T PROVE c + 1 \in T
  <2> SUFFICES ASSUME c + 1 <= 9 PROVE RowRead(b, row, f[c + 1], c + 1)
    OBVIOUS
  <2>1. c + 1 \in 1..9 /\ (c + 1) - 1 = c /\ RowRead(b, row, f[c], c)
    BY <1>4
  <2>2. f[c + 1] = WriteSquare(b, ConvertToPos(row, c), f[c])
    BY <1>2, <2>1
  <2> QED
    BY <2>1, <2>2, RowReadStep
<1> HIDE DEF T
<1>5. 9 \in T
  BY <1>3, <1>4, Induction
<1>6. RowRead(b, row, f[9], 9)
  BY <1>5 DEF T
<1>7. PlacedInRow(row, FenRow(b, row)) = ReadAll(row, Gap(f[9])).out
  BY <1>1 DEF PlacedInRow, ReadAll
<1>8. ReadAll(row, Gap(f[9])).out = ReadAll(row, f[9].out).out
  BY <1>6, GapRead
<1> QED
  BY <1>6, <1>7, <1>8 DEF RowRead

-----------------------------------------------------------------------------
(* The rows of a text, one behind the other.                               *)
RowsJoin(fen, f) ==
  f = [r \in 0..Len(fen.rows) |-> IF r = 0 THEN <<>>
                                  ELSE f[r - 1] \o PlacedInRow(r - 1, fen.rows[r])]
JoinSteps(fen) ==
  [r \in 1..10 |-> [s \in Seq(Placement) |-> s \o PlacedInRow(r - 1, fen.rows[r])]]

\* The rows read so far.
Joined(b, f) ==
  /\ f[0] = <<>>
  /\ \A r \in 1..10 : f[r] = f[r - 1] \o PlacedInRow(r - 1, FenRow(b, r - 1))

(* The rows of a text are read in ten steps. *)
LEMMA PlacedJoined ==
  ASSUME NEW b, IsBoard(b)
  PROVE  \E f : Joined(b, f) /\ Placed(ToFen(b)) = f[10]
PROOF
<1> DEFINE rows == [r \in 1..10 |-> FenRow(b, r - 1)]
           fen == ToFen(b)
<1>1. fen.rows = rows
  BY DEF ToFen
<1>2. Len(rows) = 10 /\ \A r \in 1..10 : rows[r] = FenRow(b, r - 1)
  OBVIOUS
<1> HIDE DEF rows, fen
<1>3. Len(fen.rows) = 10 /\ \A r \in 1..10 : fen.rows[r] = FenRow(b, r - 1)
  BY <1>1, <1>2
<1> DEFINE F == JoinSteps(fen)
<1>4. \A r \in 1..10 : \A s \in Seq(Placement) : F[r][s] = s \o PlacedInRow(r - 1, fen.rows[r])
  BY DEF JoinSteps
<1>5. \A r \in 1..10 : \A s \in Seq(Placement) : F[r][s] \in Seq(Placement)
  <2>1. ASSUME NEW r \in 1..10 PROVE PlacedInRow(r - 1, fen.rows[r]) \in Seq(Placement)
    <3>1. Lists(b, PlacedInRow(r - 1, FenRow(b, r - 1)), RowSquares(r - 1, 9))
      BY RowSurvives
    <3> QED
      BY <3>1, <1>3 DEF Lists
  <2> SUFFICES ASSUME NEW r \in 1..10, NEW s \in Seq(Placement) PROVE F[r][s] \in Seq(Placement)
    OBVIOUS
  <2>2. PICK t \in Seq(Placement) : t = PlacedInRow(r - 1, fen.rows[r])
    BY <2>1
  <2>3. s \o t \in Seq(Placement)
    OBVIOUS
  <2> QED
    BY <2>2, <2>3, <1>4
<1> HIDE DEF F
<1>6. PICK f \in [0..10 -> Seq(Placement)] : Solves(f, 10, <<>>, F)
  <2>1. <<>> \in Seq(Placement)
    OBVIOUS
  <2> QED
    BY <2>1, <1>5, Recursion
<1>7. f[0] = <<>> /\ \A r \in 1..10 : f[r] = F[r][f[r - 1]]
  BY <1>6 DEF Solves
<1>8. RowsJoin(fen, f)
  <2> DEFINE e(r) == IF r = 0 THEN <<>> ELSE f[r - 1] \o PlacedInRow(r - 1, fen.rows[r])
  <2>1. ASSUME NEW r \in 0..10 PROVE f[r] = e(r)
    <3>1. CASE r = 0
      BY <3>1, <1>7
    <3>2. CASE r # 0
      <4>1. r \in 1..10 /\ r - 1 \in 0..10
        BY <3>2
      <4>2. f[r - 1] \in Seq(Placement)
        BY <4>1, <1>6
      <4>3. F[r][f[r - 1]] = f[r - 1] \o PlacedInRow(r - 1, fen.rows[r])
        BY <4>1, <4>2, <1>4
      <4> QED
        BY <4>1, <4>3, <3>2, <1>7
    <3> QED
      BY <3>1, <3>2
  <2> HIDE DEF e
  <2>2. f = [r \in 0..10 |-> e(r)]
    BY <2>1, <1>6
  <2>3. f = [r \in 0..Len(fen.rows) |-> e(r)]
    BY <2>2, <1>3
  <2> QED
    BY <2>3 DEF RowsJoin, e
<1> DEFINE g == CHOOSE g : RowsJoin(fen, g)
<1>9. RowsJoin(fen, g)
  BY <1>8
<1>10. Placed(fen) = g[Len(fen.rows)]
  BY DEF Placed, RowsJoin
<1> HIDE DEF g
<1>11. Joined(b, g)
  <2> DEFINE e(r) == IF r = 0 THEN <<>> ELSE g[r - 1] \o PlacedInRow(r - 1, fen.rows[r])
  <2>1. g = [r \in 0..Len(fen.rows) |-> e(r)]
    BY <1>9 DEF RowsJoin
  <2> HIDE DEF e
  <2>2. \A r \in 0..10 : g[r] = e(r)
    BY <2>1, <1>3
  <2>3. g[0] = <<>>
    BY <2>2 DEF e
  <2>4. ASSUME NEW r \in 1..10 PROVE g[r] = g[r - 1] \o PlacedInRow(r - 1, FenRow(b, r - 1))
    <3>1. r \in 0..10 /\ r # 0
      OBVIOUS
    <3>2. e(r) = g[r - 1] \o PlacedInRow(r - 1, fen.rows[r])
      BY <3>1 DEF e
    <3> QED
      BY <3>1, <3>2, <2>2, <1>3
  <2> QED
    BY <2>3, <2>4 DEF Joined
<1> QED
  BY <1>3, <1>10, <1>11 DEF fen

(* Written and read again, a board's men are all placed, and nothing else. *)
LEMMA PositionSurvives ==
  ASSUME NEW b, IsBoard(b)
  PROVE  Lists(b, Placed(ToFen(b)), Squares)
PROOF
<1>1. PICK f : Joined(b, f) /\ Placed(ToFen(b)) = f[10]
  BY PlacedJoined
<1>2. /\ f[0] = <<>>
      /\ \A r \in 1..10 : f[r] = f[r - 1] \o PlacedInRow(r - 1, FenRow(b, r - 1))
  BY <1>1 DEF Joined
<1> DEFINE S(r) == {ConvertToPos(a, c) : a \in 0..(r - 1), c \in 0..8}
           T == {r \in Nat : r <= 10 => Lists(b, f[r], S(r))}
<1>3. 0 \in T
  <2>1. S(0) = {}
    OBVIOUS
  <2> HIDE DEF S
  <2>2. Lists(b, <<>>, {})
    BY ListsNothing
  <2>3. Lists(b, f[0], S(0))
    BY <2>1, <2>2, <1>2
  <2> QED
    BY <2>3
<1>4. ASSUME NEW r \in Nat, r \in T PROVE r + 1 \in T
  <2> SUFFICES ASSUME r + 1 <= 10 PROVE Lists(b, f[r + 1], S(r + 1))
    OBVIOUS
  <2>1. r + 1 \in 1..10 /\ (r + 1) - 1 = r /\ Lists(b, f[r], S(r))
    BY <1>4
  <2>2. Lists(b, PlacedInRow(r, FenRow(b, r)), RowSquares(r, 9))
    BY RowSurvives
  <2>3. f[r + 1] = f[r] \o PlacedInRow(r, FenRow(b, r))
    <3>1. PICK k \in 1..10 : k = r + 1
      BY <2>1
    <3>2. k - 1 = r
      BY <3>1
    <3>3. f[k] = f[k - 1] \o PlacedInRow(k - 1, FenRow(b, k - 1))
      BY <1>2
    <3> QED
      BY <3>1, <3>2, <3>3
  <2>4. S(r + 1) = S(r) \cup RowSquares(r, 9)
    <3>1. \A a \in 0..((r + 1) - 1) : a \in 0..(r - 1) \/ a = r
      OBVIOUS
    <3>2. r \in 0..((r + 1) - 1) /\ \A a \in 0..(r - 1) : a \in 0..((r + 1) - 1)
      OBVIOUS
    <3>3. 0..(9 - 1) = 0..8
      OBVIOUS
    <3> QED
      BY <3>1, <3>2, <3>3 DEF RowSquares
  <2> HIDE DEF S
  <2>5. Lists(b, f[r] \o PlacedInRow(r, FenRow(b, r)), S(r) \cup RowSquares(r, 9))
    BY <2>1, <2>2, ListsBoth
  <2> QED
    BY <2>3, <2>4, <2>5
<1>5. S(10) = Squares
  <2>1. 0..(10 - 1) = 0..9
    OBVIOUS
  <2> QED
    BY <2>1 DEF Squares
<1> HIDE DEF T, S
<1>6. 10 \in T
  BY <1>3, <1>4, Induction
<1>7. Lists(b, f[10], S(10))
  BY <1>6 DEF T
<1> QED
  BY <1>1, <1>5, <1>7

(* A board whose men are listed and the board that is made of the list     *)
(* have the same men on the same squares.                                  *)
LEMMA SamePosition ==
  ASSUME NEW b, IsBoard(b), NEW s, Lists(b, s, Squares), NEW side
  PROVE  PositionOf(BoardOf(s, side)) = [men |-> PositionOf(b).men, cur |-> side]
PROOF
<1> DEFINE d == BoardOf(s, side)
           n == Len(s)
           P == {s[i].pos : i \in 1..n}
           first(q) == CHOOSE i \in 1..n : s[i].pos = q
<1>1. /\ d.pieces = [i \in 1..n |-> [type |-> s[i].type, side |-> s[i].side,
                                     pos |-> s[i].pos, show |-> TRUE]]
      /\ d.at = [q \in P |-> first(q)]
      /\ d.cur = side
  BY DEF BoardOf
<1>2. \A i \in 1..n : s[i].pos \in Squares /\ Has(b, s[i].pos) /\ s[i] = PlacedAt(b, s[i].pos)
  BY DEF Lists
<1>3. \A q \in Squares : Has(b, q) => \E i \in 1..n : s[i].pos = q
  BY DEF Lists
<1> HIDE DEF d
<1>4. DOMAIN d.at = DOMAIN b.at
  <2>1. DOMAIN d.at = P
    BY <1>1
  <2>2. P \subseteq DOMAIN b.at
    BY <1>2 DEF Has
  <2>3. DOMAIN b.at \subseteq P
    <3>1. \A q \in DOMAIN b.at : q \in Squares /\ Has(b, q)
      BY BooksTell DEF Has
    <3> QED
      BY <3>1, <1>3
  <2> QED
    BY <2>1, <2>2, <2>3
<1>5. ASSUME NEW q \in DOMAIN b.at
      PROVE  PieceAt(d, q).type = PieceAt(b, q).type /\ PieceAt(d, q).side = PieceAt(b, q).side
  <2>1. q \in Squares /\ Has(b, q)
    BY BooksTell DEF Has
  <2>2. first(q) \in 1..n /\ s[first(q)].pos = q
    BY <2>1, <1>3
  <2>3. q \in P
    BY <2>2
  <2>4. d.at[q] = first(q)
    BY <1>1, <2>3
  <2> HIDE DEF first
  <2> DEFINE i == first(q)
  <2>5. i \in 1..n /\ s[i].pos = q /\ s[i] = PlacedAt(b, q)
    BY <2>2, <1>2
  <2> HIDE DEF i
  <2>6. d.pieces[i].type = s[i].type /\ d.pieces[i].side = s[i].side
    BY <2>5, <1>1
  <2>7. s[i].type = PieceAt(b, q).type /\ s[i].side = PieceAt(b, q).side
    BY <2>5 DEF PlacedAt
  <2> QED
    BY <2>4, <2>6, <2>7 DEF PieceAt, i
<1> DEFINE man(c, q) == [type |-> PieceAt(c, q).type, side |-> PieceAt(c, q).side]
<1>6. \A q \in DOMAIN b.at : man(d, q) = man(b, q)
  BY <1>5
<1>7. PositionOf(d) = [men |-> [q \in DOMAIN d.at |-> man(d, q)], cur |-> d.cur]
  BY DEF PositionOf
<1>8. PositionOf(b).men = [q \in DOMAIN b.at |-> man(b, q)]
  BY DEF PositionOf
<1> HIDE DEF man
<1>9. [q \in DOMAIN d.at |-> man(d, q)] = [q \in DOMAIN b.at |-> man(b, q)]
  BY <1>4, <1>6
<1> QED
  BY <1>1, <1>7, <1>8, <1>9 DEF d

(* What is written of a board in play is what is read.                     *)
LEMMA FenRoundTrip ==
  ASSUME NEW b, IsBoard(b)
  PROVE  PositionOf(InitFromFen(ToFen(b))) = PositionOf(b)
PROOF
<1>1. ToFen(b).side = b.cur
  BY DEF ToFen
<1>2. PositionOf(BoardOf(Placed(ToFen(b)), b.cur)) = [men |-> PositionOf(b).men, cur |-> b.cur]
  BY PositionSurvives, SamePosition
<1>3. PositionOf(b) = [men |-> PositionOf(b).men, cur |-> b.cur]
  BY DEF PositionOf
<1> QED
  BY <1>1, <1>2, <1>3 DEF InitFromFen

(* FenKeepsPosition: whatever was played and taken back, who returns gets  *)
(* the same men on the same squares and the same side to move (toFen and   *)
(* initFromFen of board.js).                                               *)
THEOREM BoardFenKeepsPosition == Spec => []FenKeepsPosition
PROOF
<1>1. BoardInv => FenKeepsPosition
  <2> SUFFICES ASSUME BoardInv PROVE FenKeepsPosition
    OBVIOUS
  <2>1. IsBoard(board)
    BY PresentBoard DEF InPlay
  <2> QED
    BY <2>1, FenRoundTrip DEF FenKeepsPosition
<1> QED
  BY <1>1, BoardInvInit, BoardInvStep, PTL DEF Spec
=============================================================================
