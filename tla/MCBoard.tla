------------------------------ MODULE MCBoard ------------------------------
(* Endgames for Board: few pieces, each kind of move, mates at hand. *)
EXTENDS Board

Start(side, list) ==
  BoardOf([i \in 1..Len(list) |-> [type |-> list[i][1], side |-> list[i][2],
                                   pos |-> ConvertToPos(list[i][3], list[i][4])]], side)

(* A rook that mates beside another one's row, and a knight that may take one. *)
Rooks == Start(Red, << <<King, Black, 0, 4>>, <<Rook, Red, 1, 0>>, <<Knight, Black, 3, 6>>,
                       <<Rook, Red, 2, 8>>, <<King, Red, 9, 3>> >>)
(* Cannons, screens, a pin on the kings' file. *)
Cannons == Start(Red, << <<King, Black, 0, 4>>, <<Advisor, Black, 1, 4>>, <<Bishop, Black, 2, 4>>,
                         <<Cannon, Black, 5, 3>>, <<Cannon, Red, 7, 4>>, <<King, Red, 9, 4>> >>)
(* Pawns in two crowded columns, bishops and knights with blocked legs. *)
Pawns == Start(Red, << <<King, Black, 0, 3>>, <<Pawn, Red, 2, 4>>, <<Pawn, Red, 3, 2>>,
                       <<Pawn, Red, 3, 4>>, <<Pawn, Red, 4, 2>>, <<Pawn, Black, 6, 4>>,
                       <<King, Red, 9, 5>> >>)
Minors == Start(Black, << <<Bishop, Black, 0, 2>>, <<King, Black, 0, 4>>, <<Knight, Black, 2, 3>>,
                          <<Knight, Red, 4, 3>>, <<Bishop, Red, 7, 4>>, <<Advisor, Red, 8, 4>>,
                          <<King, Red, 9, 4>> >>)
MCStarts == {Rooks, Cannons, Pawns, Minors}
=============================================================================
