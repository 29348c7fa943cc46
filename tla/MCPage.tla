------------------------------- MODULE MCPage -------------------------------
(* A small endgame for Page: captures and quiet moves of either side, a    *)
(* move into the square the taker left, moves that are refused; the pawn's *)
(* first step is only ever the move that led to the position.              *)
EXTENDS Page

Put(type, who, row, col) == [type |-> type, side |-> who, pos |-> ConvertToPos(row, col)]
MCStart == BoardOf(<<Put(King, Black, 0, 3), Put(Rook, Black, 2, 2), Put(Pawn, Black, 4, 4),
                     Put(Rook, Red, 4, 2), Put(King, Red, 9, 5)>>, Red)
MCStarts == {MCStart}
Sq(row, col) == ConvertToPos(row, col)
MCClicked == {Sq(4, 2), Sq(4, 3), Sq(4, 4), Sq(2, 2)}
MCReplies == {GetMove(Sq(4, 2), Sq(4, 4)), GetMove(Sq(4, 2), Sq(2, 2)),
              GetMove(Sq(2, 2), Sq(4, 2)), GetMove(Sq(4, 4), Sq(5, 4)),
              GetMove(Sq(3, 4), Sq(4, 4))}
=============================================================================
