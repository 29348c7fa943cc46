------------------------------- MODULE Rules -------------------------------
(***************************************************************************)
(* The rules of Chinese chess as the browser client computes them          *)
(* (utils.js, constants.js, board.js).  A square is its index in the       *)
(* client's 16 x 16 array, a move a number: the start square in the low    *)
(* byte, the end square above it.  A Board object is a record              *)
(*   pieces  the pieces in the order they were put on the board            *)
(*   at      the occupied squares, each with its piece's index             *)
(*   cur     the side to move                                              *)
(*   steps   the history: the move and the captured piece's index or None  *)
(* The running totals of piece values and the "in check" mark of a step,   *)
(* which nothing in the client reads, are left out.                        *)
(***************************************************************************)
EXTENDS Integers, Sequences, FiniteSetsExt, SequencesExt

None == 0                   \* a null piece; a null square; a null move
Red == 0
Black == 1
Opp(side) == 1 - side

King == 0
Advisor == 1
Bishop == 2
Knight == 3
Rook == 4
Cannon == 5
Pawn == 6

(* Squares and moves. *)
ConvertToPos(row, col) == (row + 3) * 16 + col + 3
RowOfPos(pos) == (pos \div 16) - 3
ColOfPos(pos) == (pos % 16) - 3
InBoard(pos) == RowOfPos(pos) \in 0..9 /\ ColOfPos(pos) \in 0..8
InFort(pos) == RowOfPos(pos) \in (0..2) \cup (7..9) /\ ColOfPos(pos) \in 3..5
Lower(pos) == pos >= 128
SameHalf(a, b) == Lower(a) = Lower(b)
SameCol(a, b) == a % 16 = b % 16
SameRow(a, b) == a \div 16 = b \div 16
FlipPos(pos) == 254 - pos

GetMove(start, end) == start + 256 * end
StartOfMove(mv) == mv % 256
EndOfMove(mv) == mv \div 256

Squares == {ConvertToPos(r, c) : r \in 0..9, c \in 0..8}

(* The tables: where a span leads, what a knight's leg stands on, and the  *)
(* steps of the generator.                                                 *)
KingSpan == {-16, -1, 1, 16}
AdvisorSpan == {-17, -15, 15, 17}
BishopSpan == {-34, -30, 30, 34}
KnightPinSwapped(span) ==
  CASE span \in {-33, -31} -> -16
    [] span \in {-18, 14} -> 1
    [] span \in {-14, 18} -> -1
    [] span \in {31, 33} -> 16
    [] OTHER -> 0
KnightPin(span) ==
  CASE span \in {-33, -31} -> -16
    [] span \in {-18, 14} -> -1
    [] span \in {-14, 18} -> 1
    [] span \in {31, 33} -> 16
    [] OTHER -> 0
KnightDelta(leg) ==
  CASE leg = -16 -> {-33, -31}
    [] leg = -1 -> {-18, 14}
    [] leg = 1 -> {-14, 18}
    [] leg = 16 -> {31, 33}

(* Pieces on the board. *)
Has(b, pos) == pos \in DOMAIN b.at
PieceAt(b, pos) == b.pieces[b.at[pos]]
Shown(b, side) == {i \in 1..Len(b.pieces) : b.pieces[i].side = side /\ b.pieces[i].show}
KingPos(b, side) ==
  LET k == CHOOSE i \in 1..Len(b.pieces) : b.pieces[i].type = King /\ b.pieces[i].side = side
  IN  b.pieces[k].pos
OppAt(b, p, pos) == Has(b, pos) /\ PieceAt(b, pos).side # p.side
OwnAt(b, p, pos) == Has(b, pos) /\ PieceAt(b, pos).side = p.side

PieceForwardStep(b, p) == IF Lower(KingPos(b, p.side)) THEN p.pos - 16 ELSE p.pos + 16
HasCrossed(b, p) == ~SameHalf(KingPos(b, p.side), p.pos)

(* The occupied squares a walk from pos to dest along a line passes.       *)
Screens(b, pos, dest) ==
  {q \in DOMAIN b.at :
     /\ (pos < q /\ q < dest) \/ (dest < q /\ q < pos)
     /\ IF SameRow(pos, dest) THEN SameRow(pos, q) ELSE SameCol(pos, q)}

(* May piece p go to dest, checks aside?  (The test of a chosen move.)     *)
LegalMovePiece(b, p, dest) ==
  LET span == dest - p.pos
      onLine == SameRow(p.pos, dest) \/ SameCol(p.pos, dest)
      screens == Cardinality(Screens(b, p.pos, dest))
  IN  CASE p.type = King ->
             \/ InFort(dest) /\ span \in KingSpan
             \/ onLine /\ screens = 0 /\ Has(b, dest) /\ PieceAt(b, dest).type = King
        [] p.type = Advisor -> InFort(dest) /\ span \in AdvisorSpan
        [] p.type = Bishop ->
             /\ SameHalf(p.pos, dest) /\ span \in BishopSpan
             /\ ~Has(b, (p.pos + dest) \div 2)
        [] p.type = Knight -> KnightPin(span) # 0 /\ ~Has(b, p.pos + KnightPin(span))
        [] p.type = Rook -> onLine /\ screens = 0 /\ ~OwnAt(b, p, dest)
        [] p.type = Cannon ->
             onLine /\ \/ screens = 0 /\ ~Has(b, dest)
                       \/ screens = 1
        [] p.type = Pawn ->
             \/ HasCrossed(b, p) /\ span \in {-1, 1}
             \/ dest = PieceForwardStep(b, p)

(* An entry of the array of squares. *)
With(at, pos, i) == [q \in DOMAIN at \cup {pos} |-> IF q = pos THEN i ELSE at[q]]

(* makeMove and undoMove: squares, pieces and history.  Definitions named  *)
(* as another with a suffix are likely mistakes, for comparison.           *)
MakeMoveStillShown(b, mv) ==
  LET start == StartOfMove(mv)
      end == EndOfMove(mv)
      mover == IF Has(b, start) THEN b.at[start] ELSE None
      taken == IF Has(b, end) THEN b.at[end] ELSE None
      rest == [q \in DOMAIN b.at \ {start, end} |-> b.at[q]]
  IN  [b EXCEPT
        !.pieces = [i \in DOMAIN @ |-> IF i = mover THEN [@[i] EXCEPT !.pos = end] ELSE @[i]],
        !.at = IF mover = None THEN rest ELSE With(rest, end, mover),
        !.steps = Append(@, [mv |-> mv, endPiece |-> taken])]
MakeMove(b, mv) ==
  LET start == StartOfMove(mv)
      end == EndOfMove(mv)
      mover == IF Has(b, start) THEN b.at[start] ELSE None
      taken == IF Has(b, end) THEN b.at[end] ELSE None
      rest == [q \in DOMAIN b.at \ {start, end} |-> b.at[q]]
  IN  [b EXCEPT
        !.pieces = [i \in DOMAIN @ |->
                      IF i = mover THEN [@[i] EXCEPT !.pos = end, !.show = TRUE]
                      ELSE IF i = taken THEN [@[i] EXCEPT !.show = FALSE] ELSE @[i]],
        !.at = IF mover = None THEN rest ELSE With(rest, end, mover),
        !.steps = Append(@, [mv |-> mv, endPiece |-> taken])]

UndoMoveForgetsCapture(b) ==
  LET step == Last(b.steps)
      start == StartOfMove(step.mv)
      mover == b.at[EndOfMove(step.mv)]
  IN  [b EXCEPT !.pieces[mover].pos = start,
                !.at = With([q \in DOMAIN @ \ {EndOfMove(step.mv)} |-> @[q]], start, mover),
                !.steps = Front(@)]
UndoMove(b) ==
  LET step == Last(b.steps)
      start == StartOfMove(step.mv)
      end == EndOfMove(step.mv)
      mover == IF Has(b, end) THEN b.at[end] ELSE None
      taken == step.endPiece
      rest == [q \in DOMAIN b.at \ {start, end} |-> b.at[q]]
      back == IF mover = None THEN rest ELSE With(rest, start, mover)
  IN  [b EXCEPT
        !.pieces = [i \in DOMAIN @ |->
                      IF i = mover THEN [@[i] EXCEPT !.pos = start, !.show = TRUE]
                      ELSE IF i = taken THEN [@[i] EXCEPT !.pos = end, !.show = TRUE]
                      ELSE @[i]],
        !.at = IF taken = None THEN back ELSE With(back, end, taken),
        !.steps = Front(@)]

ChangeSide(b) == [b EXCEPT !.cur = Opp(@)]

(* Is the king of `side` attacked? *)
WillKillKing(b, side) ==
  \E i \in Shown(b, Opp(side)) : LegalMovePiece(b, b.pieces[i], KingPos(b, side))
WillKillSelfKing(b) == WillKillKing(b, b.cur)
WillKillOppKing(b) == WillKillKing(b, Opp(b.cur))

(* generateMoves: the squares a piece may go to, checks aside, found by    *)
(* walking from the piece.                                                 *)
FreeOrOpp(b, p, pos) == ~Has(b, pos) \/ OppAt(b, p, pos)
FirstStop(b, p, d, from) ==
  Min({k \in from..11 : ~InBoard(p.pos + k * d) \/ Has(b, p.pos + k * d)})
Dests(b, p) ==
  CASE p.type = King ->
         {q \in {p.pos + d : d \in KingSpan} : InFort(q) /\ FreeOrOpp(b, p, q)}
    [] p.type = Advisor ->
         {q \in {p.pos + d : d \in AdvisorSpan} : InFort(q) /\ FreeOrOpp(b, p, q)}
    [] p.type = Bishop ->
         {p.pos + 2 * d : d \in
            {e \in AdvisorSpan : /\ InBoard(p.pos + e) /\ SameHalf(p.pos, p.pos + e)
                                 /\ ~Has(b, p.pos + e) /\ FreeOrOpp(b, p, p.pos + 2 * e)}}
    [] p.type = Knight ->
         {q \in UNION {{p.pos + d : d \in KnightDelta(leg)} :
                         leg \in {l \in KingSpan : ~Has(b, p.pos + l)}} :
            InBoard(q) /\ FreeOrOpp(b, p, q)}
    [] p.type = Rook ->
         UNION {LET n == FirstStop(b, p, d, 1)
                IN  {p.pos + k * d : k \in 1..(n - 1)}
                      \cup {q \in {p.pos + n * d} : OppAt(b, p, q)} : d \in KingSpan}
    [] p.type = Cannon ->
         UNION {LET n == FirstStop(b, p, d, 1)
                    m == FirstStop(b, p, d, n + 1)
                IN  {p.pos + k * d : k \in 1..(n - 1)}
                      \cup {q \in {p.pos + m * d} : OppAt(b, p, q)} : d \in KingSpan}
    [] p.type = Pawn ->
         {q \in {PieceForwardStep(b, p)}
                  \cup (IF HasCrossed(b, p) THEN {p.pos - 1, p.pos + 1} ELSE {}) :
            InBoard(q) /\ FreeOrOpp(b, p, q)}

GenerateMoves(b, i) == {GetMove(b.pieces[i].pos, q) : q \in Dests(b, b.pieces[i])}

(* The generator goes through sixteen slots of the player's pieces.  For a *)
(* slot that is empty or whose piece is off the board generateMoves        *)
(* returns the number 0, which concat takes for a move.                    *)
GenerateAllMovesNonCheck(b) ==
  LET ids == Shown(b, b.cur)
  IN  (UNION {GenerateMoves(b, i) : i \in ids})
        \cup (IF Cardinality(ids) < 16 THEN {None} ELSE {})

Safe(b, mv) == ~WillKillSelfKing(MakeMove(b, mv))
NoWayToMoveUnchecked(b) == GenerateAllMovesNonCheck(b) = {}
NoWayToMove(b) == ~\E mv \in GenerateAllMovesNonCheck(b) : Safe(b, mv)

(* The marks shown for a piece of the side to move. *)
Prompt(b, pos) ==
  IF Has(b, pos) /\ PieceAt(b, pos).side = b.cur
  THEN {mv \in GenerateMoves(b, b.at[pos]) : Safe(b, mv)}
  ELSE {}

(* What a move would be: the side to move is not compared with the piece's.*)
TryMovePiece(b, mv) ==
  LET start == StartOfMove(mv)
      after == MakeMove(b, mv)
  IN  IF ~(Has(b, start) /\ LegalMovePiece(b, PieceAt(b, start), EndOfMove(mv)))
      THEN "ILLEGAL"
      ELSE IF WillKillSelfKing(after) THEN "KILLED"
      ELSE IF NoWayToMove(ChangeSide(after)) THEN "LORE"
      ELSE IF WillKillOppKing(after) THEN "GENERAL"
      ELSE IF Has(b, EndOfMove(mv)) THEN "CAPATURED" ELSE "REGULAR"

Play(b, mv) == ChangeSide(MakeMove(b, mv))
GetLastMove(b) == IF b.steps = <<>> THEN None ELSE Last(b.steps).mv

(* backStep; with an empty history undoMove throws, nothing is changed.    *)
BackStep(b) == ChangeSide(UndoMove(b))

(* Positions as text.  A row is the sequence of its symbols: a piece       *)
(* [type, side] or the length of a gap.                                    *)
Gap(acc) == IF acc.gap > 0 THEN Append(acc.out, [gap |-> acc.gap]) ELSE acc.out
WriteSquareUncounted(b, pos, acc) ==
  IF Has(b, pos) /\ PieceAt(b, pos).show
  THEN [acc EXCEPT !.out = Append(Gap(acc), [type |-> PieceAt(b, pos).type,
                                             side |-> PieceAt(b, pos).side])]
  ELSE [acc EXCEPT !.gap = @ + 1]
WriteSquare(b, pos, acc) ==
  IF Has(b, pos) /\ PieceAt(b, pos).show
  THEN [out |-> Append(Gap(acc), [type |-> PieceAt(b, pos).type, side |-> PieceAt(b, pos).side]),
        gap |-> 0]
  ELSE [acc EXCEPT !.gap = @ + 1]
FenRow(b, row) ==
  LET written[c \in 0..9] == IF c = 0 THEN [out |-> <<>>, gap |-> 0]
                             ELSE WriteSquare(b, ConvertToPos(row, c - 1), written[c - 1])
  IN  Gap(written[9])
ToFen(b) == [rows |-> [r \in 1..10 |-> FenRow(b, r - 1)], side |-> b.cur]

(* What initFromFen puts where: a sequence of [type, side, pos]. *)
ReadSymbol(row, s, acc) ==
  IF "gap" \in DOMAIN s THEN [acc EXCEPT !.col = @ + s.gap]
  ELSE [out |-> Append(acc.out, [type |-> s.type, side |-> s.side,
                                 pos |-> ConvertToPos(row, acc.col)]),
        col |-> acc.col + 1]
PlacedInRow(row, symbols) ==
  LET read[n \in 0..Len(symbols)] == IF n = 0 THEN [out |-> <<>>, col |-> 0]
                                     ELSE ReadSymbol(row, symbols[n], read[n - 1])
  IN  read[Len(symbols)].out
Placed(fen) ==
  LET read[r \in 0..Len(fen.rows)] == IF r = 0 THEN <<>>
                                      ELSE read[r - 1] \o PlacedInRow(r - 1, fen.rows[r])
  IN  read[Len(fen.rows)]

BoardOf(placed, side) ==
  [pieces |-> [i \in 1..Len(placed) |-> [type |-> placed[i].type, side |-> placed[i].side,
                                         pos |-> placed[i].pos, show |-> TRUE]],
   at |-> [q \in {placed[i].pos : i \in 1..Len(placed)} |->
             CHOOSE i \in 1..Len(placed) : placed[i].pos = q],
   cur |-> side,
   steps |-> <<>>]
InitFromFen(fen) == BoardOf(Placed(fen), fen.side)

(* What such a text says. *)
PositionOf(b) ==
  [men |-> [q \in DOMAIN b.at |-> [type |-> PieceAt(b, q).type, side |-> PieceAt(b, q).side]],
   cur |-> b.cur]

(* The move as the record list shows it: four symbols.  Columns count from *)
(* the player's right, ranks in a column from the far end.                 *)
Name(type) == <<"name", type>>
Number(n) == <<"number", n>>
Place(size, rank) ==
  CASE rank = 0 -> <<"front", 0>>
    [] rank = size - 1 -> <<"rear", 0>>
    [] OTHER -> <<"middle", IF size = 3 THEN 0 ELSE rank>>
ColumnFor(down, pos) == Number(IF down THEN 8 - ColOfPos(pos) ELSE ColOfPos(pos))
Others(b, p) == {i \in Shown(b, p.side) : b.pieces[i].type = p.type /\ b.pieces[i].pos # p.pos}

PawnHeadUncrowded(b, p, down) ==
  LET same == {i \in Others(b, p) : SameCol(b.pieces[i].pos, p.pos)}
      above == Cardinality({i \in same : b.pieces[i].pos < p.pos})
  IN  IF same = {} THEN <<Name(Pawn), ColumnFor(down, p.pos)>>
      ELSE <<Place(Cardinality(same) + 1, IF down THEN above ELSE Cardinality(same) - above),
             Name(Pawn)>>
PawnHead(b, p, down) ==
  LET others == Others(b, p)
      same == {i \in others : SameCol(b.pieces[i].pos, p.pos)}
      above == Cardinality({i \in same : b.pieces[i].pos < p.pos})
      rank == IF down THEN above ELSE Cardinality(same) - above
      crowded == \E i, j \in others \ same :
                   i # j /\ SameCol(b.pieces[i].pos, b.pieces[j].pos)
  IN  IF same = {} THEN <<Name(Pawn), ColumnFor(down, p.pos)>>
      ELSE <<Place(Cardinality(same) + 1, rank),
             IF crowded /\ ~(Cardinality(same) = 2 /\ rank = 1)
             THEN ColumnFor(down, p.pos) ELSE Name(Pawn)>>

PieceHead(b, p, down) ==
  LET others == Others(b, p)
      twin == b.pieces[Min(others)]
  IN  IF others # {} /\ SameCol(twin.pos, p.pos)
      THEN <<Place(2, IF down = (p.pos > twin.pos) THEN 1 ELSE 0), Name(p.type)>>
      ELSE <<Name(p.type), ColumnFor(down, p.pos)>>

ToChineseMove(b, mv) ==
  LET p == PieceAt(b, StartOfMove(mv))
      end == EndOfMove(mv)
      down == Lower(KingPos(b, p.side))
      head == IF p.type = Pawn THEN PawnHead(b, p, down) ELSE PieceHead(b, p, down)
      way == <<IF down = (p.pos > end) THEN "forward" ELSE "back", 0>>
      distance == (IF p.pos > end THEN p.pos - end ELSE end - p.pos) \div 16
  IN  head \o (IF p.type \in {Advisor, Bishop, Knight} THEN <<way, ColumnFor(down, end)>>
               ELSE IF SameRow(p.pos, end) THEN <<<<"level", 0>>, ColumnFor(down, end)>>
               ELSE <<way, Number(distance - 1)>>)

-----------------------------------------------------------------------------
(* What every Board object in use satisfies: assumed of the positions a    *)
(* game is entered in, and proved of all that play and take-backs reach.   *)
Piece == [type : King..Pawn, side : {Red, Black}, pos : Squares, show : BOOLEAN]

(* The squares and the pieces say the same. *)
BooksKept(b) ==
  /\ \A q \in DOMAIN b.at : b.pieces[b.at[q]].show /\ b.pieces[b.at[q]].pos = q
  /\ \A i \in DOMAIN b.pieces :
       b.pieces[i].show => b.pieces[i].pos \in DOMAIN b.at /\ b.at[b.pieces[i].pos] = i
IsBoard(b) ==
  /\ b = [pieces |-> b.pieces, at |-> b.at, cur |-> b.cur, steps |-> b.steps]
  /\ b.pieces \in Seq(Piece) /\ b.cur \in {Red, Black}
  /\ b.at \in [DOMAIN b.at -> DOMAIN b.pieces]
  /\ b.steps \in Seq([mv : Nat, endPiece : Nat])
  /\ BooksKept(b)

(* One king a side, on the board; bishops on rows and columns a bishop can *)
(* reach; and the side that has just moved is not in check.                *)
OneKing(b, side) ==
  \E k \in DOMAIN b.pieces :
    /\ b.pieces[k].show
    /\ \A i \in DOMAIN b.pieces : b.pieces[i].type = King /\ b.pieces[i].side = side <=> i = k
BishopPoint(pos) == RowOfPos(pos) \in {0, 2, 4, 5, 7, 9} /\ ColOfPos(pos) \in {0, 2, 4, 6, 8}
InPlay(b) ==
  /\ IsBoard(b)
  /\ \A side \in {Red, Black} : OneKing(b, side)
  /\ \A i \in DOMAIN b.pieces : b.pieces[i].type = Bishop => BishopPoint(b.pieces[i].pos)
  /\ ~WillKillOppKing(b)

(* No side has more men of a kind than it is given at the start.           *)
OfKind(b, side, type) == {i \in DOMAIN b.pieces : b.pieces[i].side = side /\ b.pieces[i].type = type}
Mustered(b) ==
  \A side \in {Red, Black} :
    /\ Cardinality(OfKind(b, side, Pawn)) <= 5
    /\ \A type \in Advisor..Cannon : Cardinality(OfKind(b, side, type)) <= 2
=============================================================================
