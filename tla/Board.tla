------------------------------- MODULE Board -------------------------------
(***************************************************************************)
(* A Board object in use: a player tries a move of its own piece, which is *)
(* played unless it is refused, and moves are taken back.  The page drives *)
(* it this way (clickPiece, play and backStep of chinese_chess.js).        *)
(***************************************************************************)
EXTENDS Rules

CONSTANTS Starts,      \* the positions a game is entered in (a new or a resumed one)
          MaxPlies     \* bound: the moves played after that

ASSUME StartsAssumption == \A b \in Starts : InPlay(b) /\ Mustered(b) /\ b.steps = <<>>

VARIABLES board, past, result
vars == <<board, past, result>>

(* past: what the board was before each move of the history.               *)
(* result: what tryMovePiece said of the move just played.                 *)

Init ==
  /\ board \in Starts
  /\ past = <<>>
  /\ result = "none"

(* A move of the page: from a square of one's own piece to one that is not.*)
Tried(b) ==
  {mv \in {GetMove(b.pieces[i].pos, q) : i \in Shown(b, b.cur), q \in Squares} :
     ~(Has(b, EndOfMove(mv)) /\ PieceAt(b, EndOfMove(mv)).side = b.cur)}

PlayMove ==
  /\ Len(board.steps) < MaxPlies
  /\ \E mv \in Tried(board) :
       LET res == TryMovePiece(board, mv)
       IN  /\ res \notin {"ILLEGAL", "KILLED"}
           /\ board' = Play(board, mv)
           /\ past' = Append(past, board)
           /\ result' = res

TakeBack ==
  /\ board.steps # <<>>
  /\ board' = BackStep(board)
  /\ past' = Front(past)
  /\ result' = "none"

Next == PlayMove \/ TakeBack
Spec == Init /\ [][Next]_vars

-----------------------------------------------------------------------------
(* The squares and the pieces tell the same story: a piece that is shown   *)
(* stands on its square, nothing else stands anywhere, and both kings are  *)
(* on the board, whatever was captured and taken back.                     *)
BooksAgree ==
  /\ \A i \in 1..Len(board.pieces) :
       board.pieces[i].show <=> \E q \in DOMAIN board.at : board.at[q] = i
  /\ \A q \in DOMAIN board.at : InBoard(q) /\ board.pieces[board.at[q]].pos = q
  /\ \A side \in {Red, Black} : \E i \in Shown(board, side) : board.pieces[i].type = King

(* Taking the last move back gives the board that was, hidden pieces and   *)
(* history included, so that any number of moves can be taken back.        *)
UndoRestores == past # <<>> => BackStep(board) = Last(past)

(* Two pieces of code know how a piece moves: legalMovePiece looks up a    *)
(* chosen move, generateMoves walks.  They agree, except for what          *)
(* legalMovePiece alone grants: a cannon over a screen to an empty square  *)
(* and a king onto the other king.                                         *)
JumpsToEmpty(p, dest) ==
  p.type = Cannon /\ ~Has(board, dest) /\ Screens(board, p.pos, dest) # {}
OnlyLegalMovePiece(p, dest) ==
  \/ JumpsToEmpty(p, dest)
  \/ p.type = King /\ Has(board, dest) /\ PieceAt(board, dest).type = King
GeneratorAgrees ==
  \A i \in Shown(board, board.cur) :
    LET p == board.pieces[i]
        dests == Dests(board, p)
    IN  \A q \in Squares :
          ~OwnAt(board, p, q) /\ ~OnlyLegalMovePiece(p, q)
            => (q \in dests <=> LegalMovePiece(board, p, q))

(* Every move the page accepts of the side to move (tryMovePiece).         *)
Answers(b) ==
  {mv \in Tried(b) : /\ LegalMovePiece(b, PieceAt(b, StartOfMove(mv)), EndOfMove(mv))
                     /\ Safe(b, mv)}

(* No mate is missed: a move that leaves the opponent in check and without *)
(* a move the page accepts is announced as the end of the game             *)
(* (tryMovePiece, noWayToMove), whatever empty slots and captured men the  *)
(* generator meets on the way.                                             *)
MateIsAnnounced ==
  result # "none" /\ WillKillSelfKing(board) /\ Answers(board) = {} => result = "LORE"

(* No game is ended too early: what is announced as the end leaves the     *)
(* opponent no move the page accepts, but for a cannon that jumps over a   *)
(* screen to an empty square: the page takes that move and the test of     *)
(* noWayToMove does not know it.                                           *)
LoreIsFinal ==
  result = "LORE" =>
    \A mv \in Answers(board) : JumpsToEmpty(PieceAt(board, StartOfMove(mv)), EndOfMove(mv))

(* A mate ends the game and nothing ends it that leaves an answer          *)
(* (noWayToMove over both ways men are moved, generateMoves and            *)
(* legalMovePiece).  Whether an opponent who is not in check and cannot    *)
(* move has lost too is left open here: the comment of noWayToMove says    *)
(* so, the code does it only while that side has all its sixteen men       *)
(* (MateOrStalemate of BoardProofs says what it does).                     *)
MateIsSeen == MateIsAnnounced /\ LoreIsFinal

(* Two moves of a position are never written the same way in the record    *)
(* list, however many pawns share however many columns.                    *)
NotationIsUnique ==
  LET moves == UNION {GenerateMoves(board, i) : i \in Shown(board, board.cur)}
  IN  Cardinality({ToChineseMove(board, mv) : mv \in moves}) = Cardinality(moves)

(* A player who returns gets the position as text; reading it gives the    *)
(* same squares, the same side to move and so the same game.               *)
FenKeepsPosition == PositionOf(InitFromFen(ToFen(board))) = PositionOf(board)
=============================================================================
