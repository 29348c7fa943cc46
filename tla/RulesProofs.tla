---------------------------- MODULE RulesProofs ----------------------------
(***************************************************************************)
(* What is proved of the rules, for every board whose books are kept and   *)
(* which has one king a side: what a move does and that undoMove undoes    *)
(* it, that a move accepted leads to a board in play again, that the       *)
(* generator and legalMovePiece name the same squares, piece by piece, and *)
(* that the texts of two moves differ.  The modules on the board and on    *)
(* the page cite these facts.                                              *)
(***************************************************************************)
EXTENDS Rules, FiniteSetTheorems, SequenceTheorems, TLAPS

(* A square is a number below 256, on the board, and so is its mirror      *)
(* image.                                                                  *)
LEMMA SquareBounds == ASSUME NEW q \in Squares
                      PROVE  q \in Nat /\ q > 0 /\ q < 256 /\ InBoard(q) /\ FlipPos(q) \in Squares
  BY SMTT(30) DEF Squares, ConvertToPos, InBoard, RowOfPos, ColOfPos, FlipPos

(* Every number that inBoard admits is a square. *)
LEMMA InBoardSquare == ASSUME NEW q \in Int, InBoard(q)
                       PROVE  q \in Squares
  BY SMTT(30) DEF Squares, ConvertToPos, InBoard, RowOfPos, ColOfPos

(* A move is a number other than none from which its two squares are read  *)
(* back.                                                                   *)
LEMMA MoveSquares ==
  ASSUME NEW s \in Squares, NEW e \in Squares
  PROVE  /\ GetMove(s, e) \in Nat /\ GetMove(s, e) # None
         /\ StartOfMove(GetMove(s, e)) = s /\ EndOfMove(GetMove(s, e)) = e
PROOF
<1>1. s \in Nat /\ 0 < s /\ s < 256 /\ e \in Nat
  BY SquareBounds
<1>2. /\ s + 256 * e \in Nat /\ s + 256 * e # 0
      /\ (s + 256 * e) % 256 = s /\ (s + 256 * e) \div 256 = e
  BY <1>1, SMTT(30)
<1> QED
  BY <1>2 DEF StartOfMove, EndOfMove, GetMove, None

(* Dropping the last entry of a list undoes the last append. *)
LEMMA FrontOfAppend ==
  ASSUME NEW S, NEW s \in Seq(S), NEW x \in S
  PROVE  /\ Append(s, x) \in Seq(S) /\ Append(s, x) # <<>> 
         /\ Front(Append(s, x)) = s /\ Last(Append(s, x)) = x
  BY SMT DEF Front, Last

(* The parts of a piece. *)
LEMMA PieceRecord ==
  ASSUME NEW p \in Piece
  PROVE  /\ p = [type |-> p.type, side |-> p.side, pos |-> p.pos, show |-> p.show]
         /\ p.pos \in Squares /\ p.show \in BOOLEAN /\ p.side \in {Red, Black}
  BY DEF Piece

(* The types of the parts of a board, one by one. *)
LEMMA BoardTyping ==
  ASSUME NEW b, IsBoard(b)
  PROVE  /\ Len(b.pieces) \in Nat /\ DOMAIN b.pieces = 1..Len(b.pieces)
         /\ \A i \in DOMAIN b.pieces : b.pieces[i] \in Piece /\ i # None
         /\ \A q \in DOMAIN b.at : b.at[q] \in DOMAIN b.pieces
         /\ b.steps \in Seq([mv : Nat, endPiece : Nat])
         /\ b.cur \in {Red, Black}
PROOF
<1>1. b.pieces \in Seq(Piece) /\ b.at \in [DOMAIN b.at -> DOMAIN b.pieces]
      /\ b.steps \in Seq([mv : Nat, endPiece : Nat]) /\ b.cur \in {Red, Black}
  BY DEF IsBoard
<1>2. Len(b.pieces) \in Nat /\ DOMAIN b.pieces = 1..Len(b.pieces)
      /\ \A i \in DOMAIN b.pieces : b.pieces[i] \in Piece
  BY <1>1
<1>3. \A i \in DOMAIN b.pieces : i # None
  BY <1>2 DEF None
<1>4. \A i \in DOMAIN b.pieces : b.pieces[i] \in Piece /\ i # None
  BY <1>2, <1>3
<1>5. \A q \in DOMAIN b.at : b.at[q] \in DOMAIN b.pieces
  BY <1>1
<1> QED
  BY <1>1, <1>2, <1>4, <1>5

(* The two tables of a board are functions, equal when they agree          *)
(* everywhere.                                                             *)
LEMMA BoardFunctions ==
  ASSUME NEW b, IsBoard(b)
  PROVE  /\ b.pieces = [i \in DOMAIN b.pieces |-> b.pieces[i]]
         /\ b.at = [q \in DOMAIN b.at |-> b.at[q]]
  BY DEF IsBoard

(* The two books against each other: a square holds the piece that says it *)
(* stands there, and a piece that shows is found on its square.            *)
LEMMA BooksTell ==
  ASSUME NEW b, IsBoard(b)
  PROVE  /\ \A q \in DOMAIN b.at :
              /\ b.at[q] \in DOMAIN b.pieces /\ q \in Squares
              /\ b.pieces[b.at[q]].show = TRUE /\ b.pieces[b.at[q]].pos = q
         /\ \A i \in DOMAIN b.pieces :
              b.pieces[i].show => b.pieces[i].pos \in DOMAIN b.at /\ b.at[b.pieces[i].pos] = i
PROOF
<1>1. /\ \A q \in DOMAIN b.at : b.pieces[b.at[q]].show /\ b.pieces[b.at[q]].pos = q
      /\ \A i \in DOMAIN b.pieces :
           b.pieces[i].show => b.pieces[i].pos \in DOMAIN b.at /\ b.at[b.pieces[i].pos] = i
  BY DEF IsBoard, BooksKept
<1>2. /\ \A q \in DOMAIN b.at : b.at[q] \in DOMAIN b.pieces
      /\ \A i \in DOMAIN b.pieces : b.pieces[i].show \in BOOLEAN /\ b.pieces[i].pos \in Squares
  BY BoardTyping, PieceRecord
<1> QED
  BY <1>1, <1>2

(* The boards there are, as a set. *)
Boards == [pieces : Seq(Piece), at : UNION {[D -> Nat] : D \in SUBSET Squares},
           cur : {Red, Black}, steps : Seq([mv : Nat, endPiece : Nat])]

(* Everything that IsBoard admits is one of them. *)
LEMMA BoardInBoards ==
  ASSUME NEW b, IsBoard(b)
  PROVE  b \in Boards
PROOF
<1>1. /\ b = [pieces |-> b.pieces, at |-> b.at, cur |-> b.cur, steps |-> b.steps]
      /\ b.pieces \in Seq(Piece) /\ b.cur \in {Red, Black}
      /\ b.at \in [DOMAIN b.at -> DOMAIN b.pieces]
      /\ b.steps \in Seq([mv : Nat, endPiece : Nat])
  BY DEF IsBoard
<1>2. DOMAIN b.pieces \subseteq Nat
  BY <1>1
<1>3. b.at \in [DOMAIN b.at -> Nat]
  BY <1>1, <1>2
<1>4. DOMAIN b.at \in SUBSET Squares
  BY BooksTell
<1>5. b.at \in UNION {[D -> Nat] : D \in SUBSET Squares}
  BY <1>3, <1>4
<1> QED
  BY <1>1, <1>5 DEF Boards

-----------------------------------------------------------------------------
(* A move the page may try. *)
Tries(b, mv) ==
  /\ mv \in Nat
  /\ Has(b, StartOfMove(mv)) /\ PieceAt(b, StartOfMove(mv)).side = b.cur
  /\ EndOfMove(mv) \in Squares
  /\ ~(Has(b, EndOfMove(mv)) /\ PieceAt(b, EndOfMove(mv)).side = b.cur)

(* What makeMove does: s and e are the squares of the move, n the piece    *)
(* moved, t the one taken or None, c the board after.                      *)
Taken(b, mv) == IF EndOfMove(mv) \in DOMAIN b.at THEN b.at[EndOfMove(mv)] ELSE None
Moved(b, mv, s, e, n, t, c) ==
  /\ s = StartOfMove(mv) /\ e = EndOfMove(mv) /\ n = b.at[s] /\ t = Taken(b, mv)
  /\ s \in DOMAIN b.at /\ s \in Squares /\ e \in Squares /\ s # e
  /\ n \in DOMAIN b.pieces /\ n # t /\ n # None /\ t \in {None} \cup DOMAIN b.pieces
  /\ e \in DOMAIN b.at <=> t # None
  /\ t # None => t = b.at[e]
  /\ c = [pieces |-> c.pieces, at |-> c.at, cur |-> b.cur,
          steps |-> Append(b.steps, [mv |-> mv, endPiece |-> t])]
  /\ DOMAIN c.pieces = DOMAIN b.pieces
  /\ c.pieces = [i \in DOMAIN b.pieces |->
                   IF i = n THEN [b.pieces[i] EXCEPT !.pos = e, !.show = TRUE]
                   ELSE IF i = t THEN [b.pieces[i] EXCEPT !.show = FALSE]
                   ELSE b.pieces[i]]
  /\ DOMAIN c.at = (DOMAIN b.at \ {s, e}) \cup {e}
  /\ c.at[e] = n
  /\ \A q \in DOMAIN b.at \ {s, e} : c.at[q] = b.at[q]
  /\ c.at \in [DOMAIN c.at -> DOMAIN b.pieces]

(* makeMove, on a board whose books are kept and a move the page may try,  *)
(* does what Moved says.                                                   *)
LEMMA MadeMove ==
  ASSUME NEW b, IsBoard(b), NEW mv, Tries(b, mv)
  PROVE  \E s, e, n, t : Moved(b, mv, s, e, n, t, MakeMove(b, mv))
PROOF
<1> SUFFICES ASSUME NEW s, s = StartOfMove(mv), NEW e, e = EndOfMove(mv),
                    NEW n, n = b.at[s], NEW t, t = Taken(b, mv),
                    NEW c, c = MakeMove(b, mv)
             PROVE  Moved(b, mv, s, e, n, t, c)
  OBVIOUS
<1>1. b.pieces \in [1..Len(b.pieces) -> Piece] /\ DOMAIN b.pieces = 1..Len(b.pieces)
      /\ Len(b.pieces) \in Nat
  BY DEF IsBoard
<1>2. s \in DOMAIN b.at /\ b.pieces[b.at[s]].side = b.cur
  BY DEF Tries, Has, PieceAt
<1>3. s \in Squares /\ n \in DOMAIN b.pieces
  BY <1>1, <1>2 DEF IsBoard, BooksKept, Piece
<1>4. e \in Squares /\ (e \in DOMAIN b.at => b.pieces[b.at[e]].side # b.cur)
  BY DEF Tries, Has, PieceAt
<1>5. s # e
  BY <1>2, <1>4
<1>6. t \in {None} \cup DOMAIN b.pieces /\ n # t /\ n # None
  BY <1>1, <1>2, <1>3, <1>4, SMT DEF None, IsBoard, Taken
<1>7. c = [b EXCEPT
             !.pieces = [i \in DOMAIN @ |->
                          IF i = n THEN [@[i] EXCEPT !.pos = e, !.show = TRUE]
                          ELSE IF i = t THEN [@[i] EXCEPT !.show = FALSE] ELSE @[i]],
             !.at = With([q \in DOMAIN b.at \ {s, e} |-> b.at[q]], e, n),
             !.steps = Append(@, [mv |-> mv, endPiece |-> t])]
  BY <1>2, <1>6 DEF MakeMove, Has, Taken
<1>8. /\ c.at = With([q \in DOMAIN b.at \ {s, e} |-> b.at[q]], e, n)
      /\ c.pieces = [i \in DOMAIN b.pieces |->
                          IF i = n THEN [b.pieces[i] EXCEPT !.pos = e, !.show = TRUE]
                          ELSE IF i = t THEN [b.pieces[i] EXCEPT !.show = FALSE]
                          ELSE b.pieces[i]]
      /\ c = [pieces |-> c.pieces, at |-> c.at, cur |-> b.cur,
                 steps |-> Append(b.steps, [mv |-> mv, endPiece |-> t])]
  BY <1>7 DEF IsBoard
<1>9. /\ DOMAIN c.at = (DOMAIN b.at \ {s, e}) \cup {e}
      /\ c.at[e] = n
      /\ \A q \in DOMAIN b.at \ {s, e} : c.at[q] = b.at[q]
      /\ c.at \in [DOMAIN c.at -> DOMAIN b.pieces]
  <2> DEFINE rest == [q \in DOMAIN b.at \ {s, e} |-> b.at[q]]
  <2>1. c.at = [q \in DOMAIN rest \cup {e} |-> IF q = e THEN n ELSE rest[q]]
    BY <1>8 DEF With
  <2>2. DOMAIN rest = DOMAIN b.at \ {s, e} /\ \A q \in DOMAIN rest : rest[q] = b.at[q]
    OBVIOUS
  <2> HIDE DEF rest
  <2>3. /\ DOMAIN c.at = (DOMAIN b.at \ {s, e}) \cup {e}
        /\ c.at[e] = n
        /\ \A q \in DOMAIN b.at \ {s, e} : c.at[q] = b.at[q]
    BY <2>1, <2>2
  <2>4. \A q \in DOMAIN c.at : c.at[q] \in DOMAIN b.pieces
    BY <2>3, <1>3 DEF IsBoard
  <2>5. c.at \in [DOMAIN c.at -> DOMAIN b.pieces]
    BY <2>1, <2>4
  <2> QED
    BY <2>3, <2>5
<1>10. DOMAIN c.pieces = DOMAIN b.pieces
  BY <1>8
<1>11. (e \in DOMAIN b.at <=> t # None) /\ (t # None => t = b.at[e])
  BY BoardTyping DEF Taken
<1> QED
  BY <1>2, <1>3, <1>4, <1>5, <1>6, <1>8, <1>9, <1>10, <1>11 DEF Moved
(* What follows for the squares, the pieces and the record. *)
MovedParts(b, mv, s, e, n, t, c) ==
  /\ s \in DOMAIN b.at /\ s \in Squares /\ e \in Squares /\ s # e
  /\ n = b.at[s] /\ n \in DOMAIN b.pieces /\ n # None /\ n # t
  /\ b.pieces[n].pos = s /\ b.pieces[n].show = TRUE
  /\ t # None => /\ t \in DOMAIN b.pieces /\ e \in DOMAIN b.at /\ t = b.at[e]
                /\ b.pieces[t].pos = e /\ b.pieces[t].show = TRUE
  /\ t = None => e \notin DOMAIN b.at
MovedPieces(b, mv, s, e, n, t, c) ==
  \A i \in DOMAIN b.pieces :
    /\ c.pieces[i].type = b.pieces[i].type /\ c.pieces[i].side = b.pieces[i].side
    /\ i = n => c.pieces[i].pos = e /\ c.pieces[i].show = TRUE
    /\ i = t => c.pieces[i].pos = b.pieces[i].pos /\ c.pieces[i].show = FALSE
    /\ i # n /\ i # t => c.pieces[i] = b.pieces[i]
    /\ c.pieces[i] \in Piece
MovedRecord(b, mv, s, e, n, t, c) ==
  /\ c.pieces \in Seq(Piece) /\ DOMAIN c.pieces = DOMAIN b.pieces
  /\ c.cur = b.cur /\ c.cur \in {Red, Black}
  /\ c.steps \in Seq([mv : Nat, endPiece : Nat])
  /\ c.steps # <<>> /\ Front(c.steps) = b.steps
  /\ Last(c.steps) = [mv |-> mv, endPiece |-> t]
  /\ c.steps = Append(b.steps, [mv |-> mv, endPiece |-> t])
  /\ c = [pieces |-> c.pieces, at |-> c.at, cur |-> c.cur, steps |-> c.steps]

(* The squares and the pieces of a move, read off the books. *)
LEMMA MovedHasParts ==
  ASSUME NEW b, IsBoard(b), NEW mv, Tries(b, mv),
         NEW s, NEW e, NEW n, NEW t, NEW c, Moved(b, mv, s, e, n, t, c)
  PROVE  MovedParts(b, mv, s, e, n, t, c)
PROOF
<1>1. /\ s \in DOMAIN b.at /\ s \in Squares /\ e \in Squares /\ s # e
      /\ n = b.at[s] /\ n \in DOMAIN b.pieces /\ n # None /\ n # t
  BY DEF Moved
<1>2. /\ t # None => t \in DOMAIN b.pieces /\ e \in DOMAIN b.at /\ t = b.at[e]
      /\ t = None => e \notin DOMAIN b.at
  BY DEF Moved
<1>3. \A q \in DOMAIN b.at : b.pieces[b.at[q]].show = TRUE /\ b.pieces[b.at[q]].pos = q
  BY BooksTell
<1> QED
  BY <1>1, <1>2, <1>3 DEF MovedParts

(* The squares after a move. *)
LEMMA MovedSquares ==
  ASSUME NEW b, NEW mv, NEW s, NEW e, NEW n, NEW t, NEW c, Moved(b, mv, s, e, n, t, c)
  PROVE  /\ DOMAIN c.at = (DOMAIN b.at \ {s, e}) \cup {e}
         /\ c.at[e] = n
         /\ \A q \in DOMAIN b.at \ {s, e} : c.at[q] = b.at[q]
         /\ c.at \in [DOMAIN c.at -> DOMAIN b.pieces]
  BY DEF Moved

(* The pieces after a move: only the mover and the taken one change. *)
LEMMA MovedHasPieces ==
  ASSUME NEW b, IsBoard(b), NEW mv, Tries(b, mv),
         NEW s, NEW e, NEW n, NEW t, NEW c, Moved(b, mv, s, e, n, t, c)
  PROVE  MovedPieces(b, mv, s, e, n, t, c)
PROOF
<1> SUFFICES ASSUME NEW i \in DOMAIN b.pieces
             PROVE  /\ c.pieces[i].type = b.pieces[i].type /\ c.pieces[i].side = b.pieces[i].side
                    /\ i = n => c.pieces[i].pos = e /\ c.pieces[i].show = TRUE
                    /\ i = t => c.pieces[i].pos = b.pieces[i].pos /\ c.pieces[i].show = FALSE
                    /\ i # n /\ i # t => c.pieces[i] = b.pieces[i]
                    /\ c.pieces[i] \in Piece
  BY DEF MovedPieces
<1>1. b.pieces[i] \in Piece
  BY BoardTyping
<1>2. c.pieces[i] = IF i = n THEN [b.pieces[i] EXCEPT !.pos = e, !.show = TRUE]
                    ELSE IF i = t THEN [b.pieces[i] EXCEPT !.show = FALSE]
                    ELSE b.pieces[i]
  BY DEF Moved
<1>3. e \in Squares /\ n # t
  BY DEF Moved
<1>4. CASE i = n
  BY <1>1, <1>2, <1>3, <1>4 DEF Piece
<1>5. CASE i = t
  BY <1>1, <1>2, <1>3, <1>5 DEF Piece
<1>6. CASE i # n /\ i # t
  BY <1>1, <1>2, <1>6
<1> QED
  BY <1>4, <1>5, <1>6

(* The history after a move, and the types of the board after it. *)
LEMMA MovedHasRecord ==
  ASSUME NEW b, IsBoard(b), NEW mv, Tries(b, mv),
         NEW s, NEW e, NEW n, NEW t, NEW c, Moved(b, mv, s, e, n, t, c)
  PROVE  MovedRecord(b, mv, s, e, n, t, c)
PROOF
<1>1. DOMAIN c.pieces = DOMAIN b.pieces
  BY DEF Moved
<1>2. c.pieces = [i \in DOMAIN b.pieces |-> c.pieces[i]]
  BY DEF Moved
<1>3. \A i \in DOMAIN b.pieces : c.pieces[i] \in Piece
  <2>h. MovedPieces(b, mv, s, e, n, t, c)
    BY MovedHasPieces
  <2> QED
    BY <2>h DEF MovedPieces
<1>4. c.pieces \in Seq(Piece)
  <2>1. Len(b.pieces) \in Nat /\ DOMAIN b.pieces = 1..Len(b.pieces)
    BY BoardTyping
  <2>2. c.pieces \in [1..Len(b.pieces) -> Piece]
    BY <2>1, <1>2, <1>3
  <2> QED
    BY <2>1, <2>2
<1> DEFINE S == [mv : Nat, endPiece : Nat]
<1> DEFINE x == [mv |-> mv, endPiece |-> t]
<1>5. c = [pieces |-> c.pieces, at |-> c.at, cur |-> b.cur, steps |-> Append(b.steps, x)]
  BY DEF Moved
<1>6. c.steps = Append(b.steps, x) /\ c.cur = b.cur
  BY <1>5
<1>7. x \in S
  <2>1. t \in DOMAIN b.pieces \cup {None} /\ mv \in Nat
    BY DEF Moved, Tries
  <2>2. Len(b.pieces) \in Nat /\ DOMAIN b.pieces = 1..Len(b.pieces)
    BY BoardTyping
  <2>3. t \in Nat
    BY <2>1, <2>2 DEF None
  <2> QED
    BY <2>1, <2>3
<1>8. b.steps \in Seq(S) /\ b.cur \in {Red, Black}
  BY BoardTyping
<1> HIDE DEF S, x
<1>9. Append(b.steps, x) \in Seq(S) /\ Append(b.steps, x) # <<>>
      /\ Front(Append(b.steps, x)) = b.steps /\ Last(Append(b.steps, x)) = x
  BY <1>7, <1>8, FrontOfAppend
<1> QED
  BY <1>1, <1>4, <1>5, <1>6, <1>8, <1>9 DEF S, x, MovedRecord

(* A move keeps the books: the mover is found where it went, the taken     *)
(* piece no longer shows, every other square is as it was.                 *)
LEMMA MovedIsBoard ==
  ASSUME NEW b, IsBoard(b), NEW mv, Tries(b, mv),
         NEW s, NEW e, NEW n, NEW t, NEW c, Moved(b, mv, s, e, n, t, c)
  PROVE  IsBoard(c)
PROOF
<1>0. \A i \in DOMAIN b.pieces :
        /\ c.pieces[i].type = b.pieces[i].type /\ c.pieces[i].side = b.pieces[i].side
        /\ i = n => c.pieces[i].pos = e /\ c.pieces[i].show = TRUE
        /\ i = t => c.pieces[i].pos = b.pieces[i].pos /\ c.pieces[i].show = FALSE
        /\ i # n /\ i # t => c.pieces[i] = b.pieces[i]
        /\ c.pieces[i] \in Piece
  <2>h. MovedPieces(b, mv, s, e, n, t, c)
    BY MovedHasPieces
  <2> QED
    BY <2>h DEF MovedPieces
<1>1. /\ DOMAIN c.at = (DOMAIN b.at \ {s, e}) \cup {e}
      /\ c.at[e] = n
      /\ \A q \in DOMAIN b.at \ {s, e} : c.at[q] = b.at[q]
      /\ c.at \in [DOMAIN c.at -> DOMAIN b.pieces]
  BY MovedSquares
<1>2. /\ s # e /\ s \in DOMAIN b.at /\ n = b.at[s] /\ n \in DOMAIN b.pieces
      /\ t # None => t \in DOMAIN b.pieces /\ e \in DOMAIN b.at /\ t = b.at[e]
      /\ t = None => e \notin DOMAIN b.at
  <2>h. MovedParts(b, mv, s, e, n, t, c)
    BY MovedHasParts
  <2> QED
    BY <2>h DEF MovedParts
<1>3. \A q \in DOMAIN b.at : /\ b.at[q] \in DOMAIN b.pieces
                             /\ b.pieces[b.at[q]].show = TRUE /\ b.pieces[b.at[q]].pos = q
  BY BooksTell
<1>4. \A i \in DOMAIN b.pieces :
        b.pieces[i].show => b.pieces[i].pos \in DOMAIN b.at /\ b.at[b.pieces[i].pos] = i
  BY BooksTell
<1>5. \A i \in DOMAIN b.pieces : i # None
  BY BoardTyping
<1>6. ASSUME NEW q \in DOMAIN c.at
      PROVE  c.pieces[c.at[q]].show /\ c.pieces[c.at[q]].pos = q
  <2>1. CASE q = e
    BY <2>1, <1>1, <1>2, <1>0
  <2>2. CASE q # e
    <3>1. q \in DOMAIN b.at /\ q # s /\ c.at[q] = b.at[q]
      BY <2>2, <1>1
    <3>p. b.at[q] \in DOMAIN b.pieces /\ b.pieces[b.at[q]].pos = q
      BY <3>1, <1>3
    <3>n. b.at[q] # n
      BY <3>1, <3>p, <1>2, <1>3
    <3>t. b.at[q] # t
      BY <2>2, <3>p, <1>2, <1>3, <1>5
    <3>2. b.at[q] \in DOMAIN b.pieces /\ b.at[q] # n /\ b.at[q] # t
      BY <3>p, <3>n, <3>t
    <3>3. c.pieces[b.at[q]] = b.pieces[b.at[q]]
      BY <3>2, <1>0
    <3> QED
      BY <3>1, <3>3, <1>3
  <2> QED
    BY <2>1, <2>2
<1>7. ASSUME NEW i \in DOMAIN b.pieces, c.pieces[i].show
      PROVE  c.pieces[i].pos \in DOMAIN c.at /\ c.at[c.pieces[i].pos] = i
  <2>1. CASE i = n
    BY <2>1, <1>1, <1>0
  <2>2. CASE i # n
    <3>1. i # t
      BY <1>7, <1>0
    <3>2. c.pieces[i] = b.pieces[i]
      BY <2>2, <3>1, <1>0
    <3>3. b.pieces[i].pos \in DOMAIN b.at /\ b.at[b.pieces[i].pos] = i
      BY <3>2, <1>4, <1>7
    <3>4. b.pieces[i].pos # s
      BY <3>3, <2>2, <1>2
    <3>5. b.pieces[i].pos # e
      BY <3>1, <3>3, <1>2
    <3> QED
      BY <3>2, <3>3, <3>4, <3>5, <1>1
  <2> QED
    BY <2>1, <2>2
<1>8. /\ c.pieces \in Seq(Piece) /\ DOMAIN c.pieces = DOMAIN b.pieces /\ c.cur \in {Red, Black}
      /\ c.steps \in Seq([mv : Nat, endPiece : Nat])
      /\ c = [pieces |-> c.pieces, at |-> c.at, cur |-> c.cur, steps |-> c.steps]
  <2>h. MovedRecord(b, mv, s, e, n, t, c)
    BY MovedHasRecord
  <2> QED
    BY <2>h DEF MovedRecord
<1>9. BooksKept(c)
  BY <1>6, <1>7, <1>8 DEF BooksKept
<1> QED
  BY <1>1, <1>8, <1>9 DEF IsBoard

(* undoMove, once it has read the last step. *)
Undo(b, start, end, mover, taken) ==
  LET rest == [q \in DOMAIN b.at \ {start, end} |-> b.at[q]]
      back == IF mover = None THEN rest ELSE With(rest, start, mover)
  IN  [b EXCEPT
        !.pieces = [i \in DOMAIN @ |->
                      IF i = mover THEN [@[i] EXCEPT !.pos = start, !.show = TRUE]
                      ELSE IF i = taken THEN [@[i] EXCEPT !.pos = end, !.show = TRUE]
                      ELSE @[i]],
        !.at = IF taken = None THEN back ELSE With(back, end, taken),
        !.steps = Front(@)]

(* What undoMove reads from the board after a move: the squares, the piece *)
(* moved and the one taken.                                                *)
LEMMA UndoReads ==
  ASSUME NEW b
  PROVE  UndoMove(b) = Undo(b, StartOfMove(Last(b.steps).mv), EndOfMove(Last(b.steps).mv),
                            IF Has(b, EndOfMove(Last(b.steps).mv))
                            THEN b.at[EndOfMove(Last(b.steps).mv)] ELSE None,
                            Last(b.steps).endPiece)
  BY DEF UndoMove, Undo

(* undoMove takes back what makeMove did, whatever was captured. *)
LEMMA MovedIsUndone ==
  ASSUME NEW b, IsBoard(b), NEW mv, Tries(b, mv),
         NEW s, NEW e, NEW n, NEW t, NEW c, Moved(b, mv, s, e, n, t, c),
         NEW d, d = [pieces |-> c.pieces, at |-> c.at, cur |-> d.cur, steps |-> c.steps]
  PROVE  UndoMove(d) = [pieces |-> b.pieces, at |-> b.at, cur |-> d.cur, steps |-> b.steps]
PROOF
<1>d. d.pieces = c.pieces /\ d.at = c.at /\ d.steps = c.steps
      /\ d = [pieces |-> d.pieces, at |-> d.at, cur |-> d.cur, steps |-> d.steps]
  OBVIOUS
<1>0. \A i \in DOMAIN b.pieces :
        /\ d.pieces[i].type = b.pieces[i].type /\ d.pieces[i].side = b.pieces[i].side
        /\ i = n => d.pieces[i].pos = e /\ d.pieces[i].show = TRUE
        /\ i = t => d.pieces[i].pos = b.pieces[i].pos /\ d.pieces[i].show = FALSE
        /\ i # n /\ i # t => d.pieces[i] = b.pieces[i]
        /\ d.pieces[i] \in Piece
  <2>h. MovedPieces(b, mv, s, e, n, t, c)
    BY MovedHasPieces
  <2> QED
    BY <2>h, <1>d DEF MovedPieces
<1>1. /\ DOMAIN d.at = (DOMAIN b.at \ {s, e}) \cup {e}
      /\ d.at[e] = n
      /\ \A q \in DOMAIN b.at \ {s, e} : d.at[q] = b.at[q]
  BY MovedSquares, <1>d
<1>2. /\ s # e /\ n = b.at[s] /\ n # None /\ n # t /\ s \in DOMAIN b.at
      /\ b.pieces[n].pos = s /\ b.pieces[n].show = TRUE
      /\ t # None => /\ e \in DOMAIN b.at /\ t = b.at[e]
                    /\ b.pieces[t].pos = e /\ b.pieces[t].show = TRUE
      /\ t = None => e \notin DOMAIN b.at
  <2>h. MovedParts(b, mv, s, e, n, t, c)
    BY MovedHasParts
  <2> QED
    BY <2>h DEF MovedParts
<1>a. \A i \in DOMAIN b.pieces : i # None /\ b.pieces[i] \in Piece
  BY BoardTyping
<1>3. /\ Front(d.steps) = b.steps /\ Last(d.steps) = [mv |-> mv, endPiece |-> t]
      /\ DOMAIN d.pieces = DOMAIN b.pieces
      /\ d = [pieces |-> d.pieces, at |-> d.at, cur |-> d.cur, steps |-> d.steps]
  <2>h. MovedRecord(b, mv, s, e, n, t, c)
    BY MovedHasRecord
  <2> QED
    BY <2>h, <1>d DEF MovedRecord
<1>4. s = StartOfMove(mv) /\ e = EndOfMove(mv)
  BY DEF Moved
<1> DEFINE rest == [q \in DOMAIN d.at \ {s, e} |-> d.at[q]]
<1> DEFINE back == With(rest, s, n)
<1> DEFINE men == [i \in DOMAIN d.pieces |->
                     IF i = n THEN [d.pieces[i] EXCEPT !.pos = s, !.show = TRUE]
                     ELSE IF i = t THEN [d.pieces[i] EXCEPT !.pos = e, !.show = TRUE]
                     ELSE d.pieces[i]]
<1> DEFINE at == IF t = None THEN back ELSE With(back, e, t)
<1>5. UndoMove(d) = [d EXCEPT !.pieces = men, !.at = at, !.steps = Front(d.steps)]
  <2>1. Last(d.steps).mv = mv /\ Last(d.steps).endPiece = t
    BY <1>3
  <2>2. e \in DOMAIN d.at
    BY <1>1
  <2> QED
    <3>1. (IF Has(d, e) THEN d.at[e] ELSE None) = n
      BY <2>2, <1>1 DEF Has
    <3>2. UndoMove(d) = Undo(d, s, e, n, t)
      BY <2>1, <3>1, <1>4, UndoReads
    <3> QED
      BY <3>2, <1>2 DEF Undo
<1>6. men = b.pieces
  <2>1. ASSUME NEW i \in DOMAIN b.pieces
        PROVE  b.pieces[i] = IF i = n THEN [d.pieces[i] EXCEPT !.pos = s, !.show = TRUE]
                             ELSE IF i = t THEN [d.pieces[i] EXCEPT !.pos = e, !.show = TRUE]
                             ELSE d.pieces[i]
    <3>1. d.pieces[i] \in Piece /\ b.pieces[i] \in Piece
      BY <1>0, <1>a
    <3>2. d.pieces[i].type = b.pieces[i].type /\ d.pieces[i].side = b.pieces[i].side
      BY <1>0
    <3>3. CASE i = n
      <4>1. b.pieces[i].pos = s /\ b.pieces[i].show = TRUE
        BY <3>3, <1>2
      <4> QED
        BY <3>1, <3>2, <3>3, <4>1 DEF Piece
    <3>4. CASE i = t
      <4>1. b.pieces[i].pos = e /\ b.pieces[i].show = TRUE /\ i # n
        BY <3>4, <1>2, <1>a
      <4> QED
        BY <3>1, <3>2, <3>4, <4>1 DEF Piece
    <3>5. CASE i # n /\ i # t
      BY <3>5, <1>0
    <3> QED
      BY <3>3, <3>4, <3>5
  <2>2. b.pieces = [i \in DOMAIN b.pieces |-> b.pieces[i]]
    BY BoardFunctions
  <2> QED
    BY <2>1, <2>2, <1>3
<1>7. at = b.at
  <2>1. b.at = [q \in DOMAIN b.at |-> b.at[q]]
    BY BoardFunctions
  <2>2. DOMAIN rest = DOMAIN b.at \ {s, e} /\ \A q \in DOMAIN rest : rest[q] = b.at[q]
    BY <1>1
  <2> HIDE DEF rest
  <2>3. back = [q \in DOMAIN rest \cup {s} |-> IF q = s THEN n ELSE rest[q]]
    BY DEF With
  <2> HIDE DEF back
  <2>4. CASE t = None
    BY <2>1, <2>2, <2>3, <2>4, <1>2
  <2>5. CASE t # None
    <3>1. DOMAIN back = DOMAIN b.at \ {e} /\ \A q \in DOMAIN back : back[q] = b.at[q]
      BY <2>2, <2>3, <1>2
    <3>2. at = [q \in DOMAIN back \cup {e} |-> IF q = e THEN t ELSE back[q]]
      BY <2>5 DEF With
    <3> QED
      BY <3>1, <3>2, <2>1, <2>5, <1>2
  <2> QED
    BY <2>4, <2>5
<1> HIDE DEF men, at
<1> DEFINE u == UndoMove(d)
<1>8. u = [d EXCEPT !.pieces = b.pieces, !.at = b.at, !.steps = b.steps]
  BY <1>3, <1>5, <1>6, <1>7
<1> HIDE DEF u
<1>9. u = [pieces |-> b.pieces, at |-> b.at, cur |-> d.cur, steps |-> b.steps]
  <2>1. /\ u = [pieces |-> u.pieces, at |-> u.at, cur |-> u.cur, steps |-> u.steps]
        /\ u.pieces = b.pieces /\ u.at = b.at /\ u.steps = b.steps /\ u.cur = d.cur
    BY <1>8, <1>3
  <2> QED
    BY <2>1
<1> QED
  BY <1>9 DEF u

Types == {King, Advisor, Bishop, Knight, Rook, Cannon, Pawn}

(* legalMovePiece, for a king. *)
LEMMA LegalKing ==
  ASSUME NEW b, NEW p, NEW dest, p.type = King
  PROVE  LegalMovePiece(b, p, dest) <=>
           \/ InFort(dest) /\ dest - p.pos \in KingSpan
           \/ /\ SameRow(p.pos, dest) \/ SameCol(p.pos, dest)
              /\ Cardinality(Screens(b, p.pos, dest)) = 0
              /\ Has(b, dest) /\ PieceAt(b, dest).type = King
  BY DEF LegalMovePiece, King, Advisor, Bishop, Knight, Rook, Cannon, Pawn

(* legalMovePiece, for an advisor. *)
LEMMA LegalAdvisor ==
  ASSUME NEW b, NEW p, NEW dest, p.type = Advisor
  PROVE  LegalMovePiece(b, p, dest) <=> InFort(dest) /\ dest - p.pos \in AdvisorSpan
  BY DEF LegalMovePiece, King, Advisor, Bishop, Knight, Rook, Cannon, Pawn

(* legalMovePiece, for a bishop. *)
LEMMA LegalBishop ==
  ASSUME NEW b, NEW p, NEW dest, p.type = Bishop
  PROVE  LegalMovePiece(b, p, dest) <=>
           /\ SameHalf(p.pos, dest) /\ dest - p.pos \in BishopSpan
           /\ ~Has(b, (p.pos + dest) \div 2)
  BY DEF LegalMovePiece, King, Advisor, Bishop, Knight, Rook, Cannon, Pawn

(* legalMovePiece, for a knight. *)
LEMMA LegalKnight ==
  ASSUME NEW b, NEW p, NEW dest, p.type = Knight
  PROVE  LegalMovePiece(b, p, dest) <=>
           KnightPin(dest - p.pos) # 0 /\ ~Has(b, p.pos + KnightPin(dest - p.pos))
  BY DEF LegalMovePiece, King, Advisor, Bishop, Knight, Rook, Cannon, Pawn

(* legalMovePiece, for a rook. *)
LEMMA LegalRook ==
  ASSUME NEW b, NEW p, NEW dest, p.type = Rook
  PROVE  LegalMovePiece(b, p, dest) <=>
           /\ SameRow(p.pos, dest) \/ SameCol(p.pos, dest)
           /\ Cardinality(Screens(b, p.pos, dest)) = 0 /\ ~OwnAt(b, p, dest)
  BY DEF LegalMovePiece, King, Advisor, Bishop, Knight, Rook, Cannon, Pawn

(* legalMovePiece, for a cannon. *)
LEMMA LegalCannon ==
  ASSUME NEW b, NEW p, NEW dest, p.type = Cannon
  PROVE  LegalMovePiece(b, p, dest) <=>
           /\ SameRow(p.pos, dest) \/ SameCol(p.pos, dest)
           /\ \/ Cardinality(Screens(b, p.pos, dest)) = 0 /\ ~Has(b, dest)
              \/ Cardinality(Screens(b, p.pos, dest)) = 1
  BY DEF LegalMovePiece, King, Advisor, Bishop, Knight, Rook, Cannon, Pawn

(* legalMovePiece, for a pawn. *)
LEMMA LegalPawn ==
  ASSUME NEW b, NEW p, NEW dest, p.type = Pawn
  PROVE  LegalMovePiece(b, p, dest) <=>
           \/ HasCrossed(b, p) /\ dest - p.pos \in {-1, 1}
           \/ dest = PieceForwardStep(b, p)
  BY DEF LegalMovePiece, King, Advisor, Bishop, Knight, Rook, Cannon, Pawn

(* A piece is of one of the seven types. *)
LEMMA PieceTypes == ASSUME NEW p \in Piece PROVE p.type \in Types
  BY DEF Piece, Types, King, Advisor, Bishop, Knight, Rook, Cannon, Pawn

(* Where a king stands depends on the pieces only. *)
LEMMA KingPosSame == ASSUME NEW b, NEW d, d.pieces = b.pieces, NEW side
  PROVE KingPos(d, side) = KingPos(b, side)
  BY DEF KingPos

(* The screens between two squares depend on the squares only. *)
LEMMA ScreensSame == ASSUME NEW b, NEW d, d.at = b.at, NEW x, NEW y
  PROVE Screens(d, x, y) = Screens(b, x, y)
  BY DEF Screens

(* What stands on a square depends on the two books only. *)
LEMMA SquareSame == ASSUME NEW b, NEW d, d.at = b.at, d.pieces = b.pieces, NEW p, NEW q
  PROVE  /\ Has(d, q) = Has(b, q) /\ PieceAt(d, q) = PieceAt(b, q) /\ OwnAt(d, p, q) = OwnAt(b, p, q)
         /\ OppAt(d, p, q) = OppAt(b, p, q)
  BY DEF Has, PieceAt, OwnAt, OppAt

(* The way forward of a piece depends on the pieces only. *)
LEMMA AdvanceSame == ASSUME NEW b, NEW d, d.pieces = b.pieces, NEW p
  PROVE  /\ PieceForwardStep(d, p) = PieceForwardStep(b, p) /\ HasCrossed(d, p) = HasCrossed(b, p)
  BY KingPosSame DEF PieceForwardStep, HasCrossed

(* Whether a piece may move somewhere depends on the two books only, not   *)
(* on the turn or the history.                                             *)
LEMMA LegalSame == ASSUME NEW b, NEW d, d.at = b.at, d.pieces = b.pieces, NEW p \in Piece, NEW dest
  PROVE  LegalMovePiece(d, p, dest) <=> LegalMovePiece(b, p, dest)
<1>0. /\ Screens(d, p.pos, dest) = Screens(b, p.pos, dest)
      /\ \A q : Has(d, q) = Has(b, q)
      /\ PieceAt(d, dest) = PieceAt(b, dest)
      /\ OwnAt(d, p, dest) = OwnAt(b, p, dest)
      /\ PieceForwardStep(d, p) = PieceForwardStep(b, p)
      /\ HasCrossed(d, p) = HasCrossed(b, p)
  BY ScreensSame, SquareSame, AdvanceSame
<1>1. CASE p.type = King  BY <1>0, <1>1, LegalKing
<1>2. CASE p.type = Advisor BY <1>0, <1>2, LegalAdvisor
<1>3. CASE p.type = Bishop BY <1>0, <1>3, LegalBishop
<1>4. CASE p.type = Knight BY <1>0, <1>4, LegalKnight
<1>5. CASE p.type = Rook BY <1>0, <1>5, LegalRook
<1>6. CASE p.type = Cannon BY <1>0, <1>6, LegalCannon
<1>7. CASE p.type = Pawn BY <1>0, <1>7, LegalPawn
<1> QED BY <1>1, <1>2, <1>3, <1>4, <1>5, <1>6, <1>7, PieceTypes DEF Types

(* So does whether a king can be taken. *)
LEMMA CheckSame == ASSUME NEW b, IsBoard(b), NEW d, d.at = b.at, d.pieces = b.pieces, NEW side
  PROVE  WillKillKing(d, side) <=> WillKillKing(b, side)
<1>1. Shown(d, Opp(side)) = Shown(b, Opp(side)) /\ KingPos(d, side) = KingPos(b, side)
  BY KingPosSame DEF Shown
<1>2. \A i \in Shown(b, Opp(side)) : b.pieces[i] \in Piece
  BY BoardTyping DEF Shown
<1>3. \A i \in Shown(b, Opp(side)) :
         LegalMovePiece(d, b.pieces[i], KingPos(b, side)) <=> LegalMovePiece(b, b.pieces[i], KingPos(b, side))
  BY <1>2, LegalSame
<1> QED
  BY <1>1, <1>3 DEF WillKillKing

-----------------------------------------------------------------------------
(* The king of a side is where its only king piece is. *)
LEMMA KingFound ==
  ASSUME NEW b, IsBoard(b), NEW side, NEW k \in DOMAIN b.pieces,
         \A i \in DOMAIN b.pieces : b.pieces[i].type = King /\ b.pieces[i].side = side <=> i = k
  PROVE  KingPos(b, side) = b.pieces[k].pos
PROOF
<1>1. DOMAIN b.pieces = 1..Len(b.pieces)
  BY BoardTyping
<1>2. \A i \in 1..Len(b.pieces) : b.pieces[i].type = King /\ b.pieces[i].side = side <=> i = k
  BY <1>1
<1> DEFINE f == CHOOSE i \in 1..Len(b.pieces) : b.pieces[i].type = King /\ b.pieces[i].side = side
<1>3. f \in 1..Len(b.pieces) /\ b.pieces[f].type = King /\ b.pieces[f].side = side
  BY <1>1, <1>2
<1>4. f = k
  BY <1>2, <1>3
<1> QED
  BY <1>4 DEF KingPos

(* No king is ever taken: the side that could take it would have been      *)
(* attacking it when it got its turn.                                      *)
LEMMA KingNotTaken ==
  ASSUME NEW b, InPlay(b), NEW mv, Tries(b, mv),
         LegalMovePiece(b, PieceAt(b, StartOfMove(mv)), EndOfMove(mv)),
         NEW s, NEW e, NEW n, NEW t, NEW c, Moved(b, mv, s, e, n, t, c),
         t # None
  PROVE  b.pieces[t].type # King
PROOF
<1> SUFFICES ASSUME b.pieces[t].type = King
             PROVE  FALSE
  OBVIOUS
<1>1. IsBoard(b) /\ ~WillKillOppKing(b) /\ \A side \in {Red, Black} : OneKing(b, side)
  BY DEF InPlay
<1>2. /\ n \in DOMAIN b.pieces /\ n = b.at[s] /\ b.pieces[n].show = TRUE
      /\ t \in DOMAIN b.pieces /\ t = b.at[e] /\ e \in DOMAIN b.at /\ b.pieces[t].pos = e
  <2>h. MovedParts(b, mv, s, e, n, t, c)
    BY <1>1, MovedHasParts
  <2> QED
    BY <2>h DEF MovedParts
<1>3. s = StartOfMove(mv) /\ e = EndOfMove(mv)
  BY DEF Moved
<1>4. b.pieces[n].side = b.cur /\ b.pieces[t].side # b.cur
  BY <1>2, <1>3 DEF Tries, Has, PieceAt
<1>5. b.cur \in {Red, Black} /\ b.pieces[t].side \in {Red, Black} /\ DOMAIN b.pieces = 1..Len(b.pieces)
  BY <1>1, <1>2, BoardTyping, PieceRecord
<1>6. b.pieces[t].side = Opp(b.cur) /\ Opp(b.cur) \in {Red, Black} /\ Opp(Opp(b.cur)) = b.cur
  BY <1>4, <1>5 DEF Opp, Red, Black
<1>7. KingPos(b, Opp(b.cur)) = e
  <2>1. PICK k \in DOMAIN b.pieces :
          \A i \in DOMAIN b.pieces : b.pieces[i].type = King /\ b.pieces[i].side = Opp(b.cur) <=> i = k
    BY <1>1, <1>6 DEF OneKing
  <2>2. t = k
    BY <2>1, <1>2, <1>6
  <2>3. KingPos(b, Opp(b.cur)) = b.pieces[k].pos
    BY <2>1, <1>1, KingFound
  <2> QED
    BY <2>2, <2>3, <1>2
<1>8. n \in Shown(b, Opp(Opp(b.cur)))
  BY <1>2, <1>4, <1>5, <1>6 DEF Shown
<1>9. LegalMovePiece(b, b.pieces[n], KingPos(b, Opp(b.cur)))
  BY <1>2, <1>3, <1>7 DEF PieceAt
<1>10. WillKillOppKing(b)
  BY <1>8, <1>9 DEF WillKillOppKing, WillKillKing
<1> QED
  BY <1>1, <1>10

(* A bishop goes from bishop points to bishop points. *)
LEMMA BishopSpans ==
  ASSUME NEW p \in Squares, NEW q \in Squares, BishopPoint(p), SameHalf(p, q), q - p \in BishopSpan
  PROVE  BishopPoint(q)
PROOF
<1>1. p \in Nat /\ p < 256 /\ q \in Nat /\ q < 256 /\ InBoard(p) /\ InBoard(q)
  BY SquareBounds
<1> QED
  BY <1>1, SMTT(60) DEF BishopPoint, SameHalf, Lower, BishopSpan, RowOfPos, ColOfPos, InBoard

(* A move the page accepts leaves a board in play, and undoMove and        *)
(* changeSide give back the one that was.                                  *)
Accepted(b, mv) == Tries(b, mv) /\ TryMovePiece(b, mv) \notin {"ILLEGAL", "KILLED"}

(* A move that tryMovePiece accepts is legal and does not leave its own    *)
(* king to be taken.                                                       *)
LEMMA AcceptedIsSafe ==
  ASSUME NEW b, NEW mv, Accepted(b, mv)
  PROVE  /\ LegalMovePiece(b, PieceAt(b, StartOfMove(mv)), EndOfMove(mv))
         /\ ~WillKillSelfKing(MakeMove(b, mv))
  BY DEF Accepted, TryMovePiece

(* The main fact about the board: a move accepted leads from a board in    *)
(* play to a board in play, the turn passes, the history grows by the move *)
(* and what it took, and undoMove with changeSide gives back the board     *)
(* that was.                                                               *)
LEMMA PlayedInPlay ==
  ASSUME NEW b, InPlay(b), NEW mv, Accepted(b, mv)
  PROVE  /\ InPlay(Play(b, mv))
         /\ BackStep(Play(b, mv)) = b
         /\ Play(b, mv).steps = Append(b.steps, [mv |-> mv, endPiece |-> Taken(b, mv)])
         /\ Play(b, mv).cur = Opp(b.cur)
PROOF
<1>1. /\ IsBoard(b) /\ \A side \in {Red, Black} : OneKing(b, side)
      /\ \A i \in DOMAIN b.pieces : b.pieces[i].type = Bishop => BishopPoint(b.pieces[i].pos)
  BY DEF InPlay
<1>2. /\ Tries(b, mv) /\ LegalMovePiece(b, PieceAt(b, StartOfMove(mv)), EndOfMove(mv))
      /\ ~WillKillSelfKing(MakeMove(b, mv))
  BY AcceptedIsSafe DEF Accepted
<1>3. PICK s, e, n, t : Moved(b, mv, s, e, n, t, MakeMove(b, mv))
  BY <1>1, <1>2, MadeMove
<1>4. PICK c : c = MakeMove(b, mv) /\ Moved(b, mv, s, e, n, t, c)
  BY <1>3
<1>5. PICK d : d = ChangeSide(c)
  OBVIOUS
<1>6. MovedParts(b, mv, s, e, n, t, c) /\ MovedPieces(b, mv, s, e, n, t, c)
      /\ MovedRecord(b, mv, s, e, n, t, c) /\ IsBoard(c)
  BY <1>1, <1>2, <1>4, MovedHasParts, MovedHasPieces, MovedHasRecord, MovedIsBoard
<1>7. /\ c.cur = b.cur /\ c.steps = Append(b.steps, [mv |-> mv, endPiece |-> t])
      /\ c = [pieces |-> c.pieces, at |-> c.at, cur |-> c.cur, steps |-> c.steps]
      /\ DOMAIN c.pieces = DOMAIN b.pieces
  BY <1>6 DEF MovedRecord
<1>8. d = [pieces |-> c.pieces, at |-> c.at, cur |-> Opp(b.cur), steps |-> c.steps]
  <2>1. d = [c EXCEPT !.cur = Opp(c.cur)]
    BY <1>5 DEF ChangeSide
  <2>2. /\ d = [pieces |-> d.pieces, at |-> d.at, cur |-> d.cur, steps |-> d.steps]
        /\ d.pieces = c.pieces /\ d.at = c.at /\ d.cur = Opp(c.cur) /\ d.steps = c.steps
    BY <2>1, <1>7
  <2> QED
    BY <2>2, <1>7
<1>9. d.pieces = c.pieces /\ d.at = c.at /\ d.cur = Opp(b.cur) /\ d.steps = c.steps
  BY <1>8
<1>10. b.cur \in {Red, Black} /\ Opp(b.cur) \in {Red, Black} /\ Opp(Opp(b.cur)) = b.cur
  BY <1>1, BoardTyping DEF Opp, Red, Black
<1>11. IsBoard(d)
  <2>1. BooksKept(d)
    BY <1>6, <1>9 DEF IsBoard, BooksKept
  <2>2. /\ c.pieces \in Seq(Piece) /\ c.at \in [DOMAIN c.at -> DOMAIN c.pieces]
        /\ c.steps \in Seq([mv : Nat, endPiece : Nat])
    BY <1>6 DEF IsBoard
  <2> QED
    BY <2>1, <2>2, <1>8, <1>9, <1>10 DEF IsBoard
<1>12. ASSUME NEW side \in {Red, Black}
       PROVE  OneKing(d, side)
  <2>1. PICK k \in DOMAIN b.pieces :
          /\ b.pieces[k].show
          /\ \A i \in DOMAIN b.pieces : b.pieces[i].type = King /\ b.pieces[i].side = side <=> i = k
    BY <1>1 DEF OneKing
  <2>2. \A i \in DOMAIN b.pieces :
          c.pieces[i].type = b.pieces[i].type /\ c.pieces[i].side = b.pieces[i].side
    BY <1>6 DEF MovedPieces
  <2>3. k # t
    <3>1. t # None => b.pieces[t].type # King
      BY <1>2, <1>4, KingNotTaken
    <3>2. k # None
      BY <1>1, BoardTyping
    <3> QED
      BY <3>1, <3>2, <2>1
  <2>4. c.pieces[k].show
    BY <2>1, <2>3, <1>6 DEF MovedPieces
  <2> QED
    BY <2>1, <2>2, <2>4, <1>7, <1>9 DEF OneKing
<1>13. ASSUME NEW i \in DOMAIN d.pieces, d.pieces[i].type = Bishop
       PROVE  BishopPoint(d.pieces[i].pos)
  <2>1. i \in DOMAIN b.pieces /\ b.pieces[i].type = Bishop /\ BishopPoint(b.pieces[i].pos)
    BY <1>1, <1>6, <1>7, <1>9, <1>13 DEF MovedPieces
  <2>2. CASE i = n
    <3>1. /\ c.pieces[i].pos = e /\ b.pieces[i].pos = s /\ s \in Squares /\ e \in Squares
          /\ n = b.at[s]
      BY <2>1, <2>2, <1>6 DEF MovedPieces, MovedParts
    <3>2. s = StartOfMove(mv) /\ e = EndOfMove(mv)
      BY <1>4 DEF Moved
    <3>3. LegalMovePiece(b, b.pieces[n], e)
      BY <3>1, <3>2, <1>2 DEF PieceAt
    <3>4. SameHalf(s, e) /\ e - s \in BishopSpan
      BY <2>1, <2>2, <3>1, <3>3, LegalBishop
    <3> QED
      BY <2>1, <2>2, <3>1, <3>4, <1>9, BishopSpans
  <2>3. CASE i # n
    <3>1. c.pieces[i].pos = b.pieces[i].pos
      BY <2>1, <2>3, <1>6 DEF MovedPieces
    <3> QED
      BY <3>1, <2>1, <1>9
  <2> QED
    BY <2>2, <2>3
<1>14. ~WillKillOppKing(d)
  <2>1. WillKillOppKing(d) <=> WillKillKing(d, b.cur)
    BY <1>9, <1>10 DEF WillKillOppKing
  <2>2. WillKillKing(d, b.cur) <=> WillKillKing(c, b.cur)
    BY <1>6, <1>9, CheckSame
  <2>3. ~WillKillKing(c, b.cur)
    BY <1>2, <1>4, <1>7 DEF WillKillSelfKing
  <2> QED
    BY <2>1, <2>2, <2>3
<1>15. BackStep(d) = b
  <2>1. UndoMove(d) = [pieces |-> b.pieces, at |-> b.at, cur |-> d.cur, steps |-> b.steps]
    <3>1. d = [pieces |-> c.pieces, at |-> c.at, cur |-> d.cur, steps |-> c.steps]
      BY <1>8, <1>9
    <3> QED
      BY <3>1, <1>1, <1>2, <1>4, MovedIsUndone
  <2> DEFINE u == UndoMove(d)
  <2>2. u.cur = Opp(b.cur) /\ u = [pieces |-> b.pieces, at |-> b.at, cur |-> Opp(b.cur), steps |-> b.steps]
    BY <2>1, <1>9
  <2> HIDE DEF u
  <2>3. ChangeSide(u) = [u EXCEPT !.cur = b.cur]
    BY <2>2, <1>10 DEF ChangeSide
  <2>4. b = [pieces |-> b.pieces, at |-> b.at, cur |-> b.cur, steps |-> b.steps]
    BY <1>1 DEF IsBoard
  <2>5. ChangeSide(u) = b
    BY <2>2, <2>3, <2>4
  <2> QED
    BY <2>5 DEF BackStep, u
<1>16. t = Taken(b, mv)
  BY <1>4 DEF Moved
<1>17. Play(b, mv) = d
  BY <1>4, <1>5 DEF Play
<1>18. InPlay(d)
  BY <1>11, <1>12, <1>13, <1>14 DEF InPlay
<1> QED
  BY <1>7, <1>9, <1>15, <1>16, <1>17, <1>18

-----------------------------------------------------------------------------
(* A square by its row and its column. *)
LEMMA Coordinates ==
  ASSUME NEW q \in Squares
  PROVE  \E r \in 0..9, c \in 0..8 :
           q = 16 * r + c + 51 /\ q % 16 = c + 3 /\ q \div 16 = r + 3
PROOF
<1>1. PICK r \in 0..9, c \in 0..8 : q = ConvertToPos(r, c)
  BY DEF Squares
<1>2. q = 16 * r + c + 51
  BY <1>1 DEF ConvertToPos
<1>3. q % 16 = c + 3 /\ q \div 16 = r + 3
  BY <1>2, SMTT(30)
<1> QED
  BY <1>2, <1>3

(* How many steps a walk from p in direction d takes to leave the board.   *)
Edge(p, d) ==
  CASE d = 1 -> 9 - ColOfPos(p)
    [] d = -1 -> ColOfPos(p) + 1
    [] d = 16 -> 10 - RowOfPos(p)
    [] d = -16 -> RowOfPos(p) + 1

(* Every walk of unit steps leaves the board at a first square. *)
LEMMA EdgeOfBoard ==
  ASSUME NEW p \in Squares, NEW d \in KingSpan
  PROVE  /\ Edge(p, d) \in 1..10
         /\ \A k \in 1..(Edge(p, d) - 1) : p + k * d \in Squares /\ InBoard(p + k * d)
         /\ \A k \in {Edge(p, d), Edge(p, d) + 1} : p + k * d \notin Squares /\ ~InBoard(p + k * d)
PROOF
<1>1. PICK r \in 0..9, c \in 0..8 : p = 16 * r + c + 51 /\ p % 16 = c + 3 /\ p \div 16 = r + 3
  BY Coordinates
<1>2. RowOfPos(p) = r /\ ColOfPos(p) = c
  BY <1>1 DEF RowOfPos, ColOfPos
<1>s. ASSUME NEW x \in Int, ~InBoard(x)
      PROVE  x \notin Squares
  BY <1>s, SquareBounds
<1>t. ASSUME NEW i \in 0..9, NEW j \in 0..8, NEW x \in Int, x = 16 * i + j + 51
      PROVE  x \in Squares /\ InBoard(x)
  <2>1. x \in Squares
    BY <1>t DEF Squares, ConvertToPos
  <2> QED
    BY <2>1, SquareBounds
<1>3. CASE d = 1
  <2>1. Edge(p, d) = 9 - c
    BY <1>2, <1>3 DEF Edge
  <2>2. ASSUME NEW k \in 1..(8 - c)
        PROVE  p + k * d \in Squares /\ InBoard(p + k * d)
    BY <1>1, <1>3, <1>t
  <2>3. ASSUME NEW k \in {9 - c, 10 - c}
        PROVE  ~InBoard(p + k * d)
    <3>1. p + k * d = 16 * r + 60 \/ p + k * d = 16 * r + 61
      BY <1>1, <1>3
    <3>2. (16 * r + 60) % 16 = 12 /\ (16 * r + 61) % 16 = 13
      BY SMTT(30)
    <3> QED
      BY <3>1, <3>2 DEF InBoard, ColOfPos
  <2> QED
    BY <2>1, <2>2, <2>3, <1>s, <1>1, <1>3
<1>4. CASE d = -1
  <2>1. Edge(p, d) = c + 1
    BY <1>2, <1>4 DEF Edge
  <2>2. ASSUME NEW k \in 1..c
        PROVE  p + k * d \in Squares /\ InBoard(p + k * d)
    BY <1>1, <1>4, <1>t
  <2>3. ASSUME NEW k \in {c + 1, c + 2}
        PROVE  ~InBoard(p + k * d)
    <3>1. p + k * d = 16 * r + 50 \/ p + k * d = 16 * r + 49
      BY <1>1, <1>4
    <3>2. (16 * r + 50) % 16 = 2 /\ (16 * r + 49) % 16 = 1
      BY SMTT(30)
    <3> QED
      BY <3>1, <3>2 DEF InBoard, ColOfPos
  <2> QED
    BY <2>1, <2>2, <2>3, <1>s, <1>1, <1>4
<1>5. CASE d = 16
  <2>1. Edge(p, d) = 10 - r
    BY <1>2, <1>5 DEF Edge
  <2>2. ASSUME NEW k \in 1..(9 - r)
        PROVE  p + k * d \in Squares /\ InBoard(p + k * d)
    BY <1>1, <1>5, <1>t
  <2>3. ASSUME NEW k \in {10 - r, 11 - r}
        PROVE  ~InBoard(p + k * d)
    <3>1. p + k * d = c + 211 \/ p + k * d = c + 227
      BY <1>1, <1>5
    <3>2. (c + 211) \div 16 = 13 /\ (c + 227) \div 16 = 14
      BY SMTT(30)
    <3> QED
      BY <3>1, <3>2 DEF InBoard, RowOfPos
  <2> QED
    BY <2>1, <2>2, <2>3, <1>s, <1>1, <1>5
<1>6. CASE d = -16
  <2>1. Edge(p, d) = r + 1
    BY <1>2, <1>6 DEF Edge
  <2>2. ASSUME NEW k \in 1..r
        PROVE  p + k * d \in Squares /\ InBoard(p + k * d)
    BY <1>1, <1>6, <1>t
  <2>3. ASSUME NEW k \in {r + 1, r + 2}
        PROVE  ~InBoard(p + k * d)
    <3>1. p + k * d = c + 35 \/ p + k * d = c + 19
      BY <1>1, <1>6
    <3>2. (c + 35) \div 16 = 2 /\ (c + 19) \div 16 = 1
      BY SMTT(30)
    <3> QED
      BY <3>1, <3>2 DEF InBoard, RowOfPos
  <2> QED
    BY <2>1, <2>2, <2>3, <1>s, <1>1, <1>6
<1> QED
  BY <1>3, <1>4, <1>5, <1>6 DEF KingSpan

(* Two squares on a line are a walk apart. *)
LEMMA OnLine ==
  ASSUME NEW p \in Squares, NEW q \in Squares, p # q
  PROVE  SameRow(p, q) \/ SameCol(p, q)
           <=> \E d \in KingSpan : \E m \in 1..(Edge(p, d) - 1) : q = p + m * d
PROOF
<1>1. PICK r \in 0..9, c \in 0..8 : p = 16 * r + c + 51 /\ p % 16 = c + 3 /\ p \div 16 = r + 3
  BY Coordinates
<1>2. PICK i \in 0..9, j \in 0..8 : q = 16 * i + j + 51 /\ q % 16 = j + 3 /\ q \div 16 = i + 3
  BY Coordinates
<1>3. /\ Edge(p, 1) = 9 - c /\ Edge(p, -1) = c + 1
      /\ Edge(p, 16) = 10 - r /\ Edge(p, -16) = r + 1
  BY <1>1 DEF Edge, RowOfPos, ColOfPos
<1>4. SameRow(p, q) <=> r = i
  BY <1>1, <1>2 DEF SameRow
<1>5. SameCol(p, q) <=> c = j
  BY <1>1, <1>2 DEF SameCol
<1>6. ASSUME r = i
      PROVE  \E d \in KingSpan : \E m \in 1..(Edge(p, d) - 1) : q = p + m * d
  <2>1. CASE j > c
    <3>1. j - c \in 1..(Edge(p, 1) - 1) /\ q = p + (j - c) * 1 /\ 1 \in KingSpan
      BY <2>1, <1>6, <1>1, <1>2, <1>3 DEF KingSpan
    <3> QED BY <3>1
  <2>2. CASE j < c
    <3>1. c - j \in 1..(Edge(p, -1) - 1) /\ q = p + (c - j) * (-1) /\ -1 \in KingSpan
      BY <2>2, <1>6, <1>1, <1>2, <1>3 DEF KingSpan
    <3> QED BY <3>1
  <2> QED
    BY <2>1, <2>2, <1>6, <1>1, <1>2
<1>7. ASSUME c = j
      PROVE  \E d \in KingSpan : \E m \in 1..(Edge(p, d) - 1) : q = p + m * d
  <2>1. CASE i > r
    <3>1. i - r \in 1..(Edge(p, 16) - 1) /\ q = p + (i - r) * 16 /\ 16 \in KingSpan
      BY <2>1, <1>7, <1>1, <1>2, <1>3 DEF KingSpan
    <3> QED BY <3>1
  <2>2. CASE i < r
    <3>1. r - i \in 1..(Edge(p, -16) - 1) /\ q = p + (r - i) * (-16) /\ -16 \in KingSpan
      BY <2>2, <1>7, <1>1, <1>2, <1>3 DEF KingSpan
    <3> QED BY <3>1
  <2> QED
    BY <2>1, <2>2, <1>7, <1>1, <1>2
<1>8. ASSUME NEW d \in KingSpan, NEW m \in 1..(Edge(p, d) - 1), q = p + m * d
      PROVE  r = i \/ c = j
  <2>1. CASE d = 1
    BY <2>1, <1>8, <1>1, <1>2, <1>3
  <2>2. CASE d = -1
    BY <2>2, <1>8, <1>1, <1>2, <1>3
  <2>3. CASE d = 16
    BY <2>3, <1>8, <1>1, <1>2, <1>3
  <2>4. CASE d = -16
    BY <2>4, <1>8, <1>1, <1>2, <1>3
  <2> QED
    BY <2>1, <2>2, <2>3, <2>4 DEF KingSpan
<1> QED
  BY <1>4, <1>5, <1>6, <1>7, <1>8

(* The screens of a walk are the occupied squares it passes. *)
LEMMA ScreensOnWalk ==
  ASSUME NEW b, DOMAIN b.at \subseteq Squares, NEW p \in Squares, NEW d \in KingSpan,
         NEW m \in 1..(Edge(p, d) - 1)
  PROVE  Screens(b, p, p + m * d) = {x \in DOMAIN b.at : \E k \in 1..(m - 1) : x = p + k * d}
PROOF
<1>e. Edge(p, d) \in 1..10 /\ p + m * d \in Squares
  BY EdgeOfBoard
<1> SUFFICES ASSUME NEW x \in DOMAIN b.at
             PROVE  /\ (p < x /\ x < p + m * d) \/ (p + m * d < x /\ x < p)
                    /\ IF SameRow(p, p + m * d) THEN SameRow(p, x) ELSE SameCol(p, x)
                    <=> \E k \in 1..(m - 1) : x = p + k * d
  BY DEF Screens
<1>1. PICK r \in 0..9, c \in 0..8 : p = 16 * r + c + 51 /\ p % 16 = c + 3 /\ p \div 16 = r + 3
  BY Coordinates
<1>2. PICK i \in 0..9, j \in 0..8 : x = 16 * i + j + 51 /\ x % 16 = j + 3 /\ x \div 16 = i + 3
  BY Coordinates
<1>q. PICK u \in 0..9, v \in 0..8 : p + m * d = 16 * u + v + 51 /\ (p + m * d) % 16 = v + 3 /\ (p + m * d) \div 16 = u + 3
  BY <1>e, Coordinates
<1>3. /\ Edge(p, 1) = 9 - c /\ Edge(p, -1) = c + 1
      /\ Edge(p, 16) = 10 - r /\ Edge(p, -16) = r + 1
  BY <1>1 DEF Edge, RowOfPos, ColOfPos
<1>4. (SameRow(p, x) <=> r = i) /\ (SameCol(p, x) <=> c = j) /\ (SameRow(p, p + m * d) <=> r = u)
  BY <1>1, <1>2, <1>q DEF SameRow, SameCol
<1>5. CASE d = 1
  <2>1. u = r /\ v = c + m
    BY <1>5, <1>1, <1>q, <1>3
  <2>2. ASSUME p < x, x < p + m * d, r = i
        PROVE  \E k \in 1..(m - 1) : x = p + k * d
    <3>1. j - c \in 1..(m - 1) /\ x = p + (j - c) * d
      BY <2>1, <2>2, <1>5, <1>1, <1>2, <1>3
    <3> QED BY <3>1
  <2>3. ASSUME NEW k \in 1..(m - 1), x = p + k * d
        PROVE  p < x /\ x < p + m * d /\ r = i
    BY <2>1, <2>3, <1>5, <1>1, <1>2, <1>3
  <2>4. ~(p + m * d < x /\ x < p)
    BY <1>5, <1>1, <1>2
  <2> QED
    BY <2>1, <2>2, <2>3, <2>4, <1>4
<1>6. CASE d = -1
  <2>1. u = r /\ v = c - m
    BY <1>6, <1>1, <1>q, <1>3
  <2>2. ASSUME p + m * d < x, x < p, r = i
        PROVE  \E k \in 1..(m - 1) : x = p + k * d
    <3>1. c - j \in 1..(m - 1) /\ x = p + (c - j) * d
      BY <2>1, <2>2, <1>6, <1>1, <1>2, <1>3
    <3> QED BY <3>1
  <2>3. ASSUME NEW k \in 1..(m - 1), x = p + k * d
        PROVE  x < p /\ p + m * d < x /\ r = i
    BY <2>1, <2>3, <1>6, <1>1, <1>2, <1>3
  <2>4. ~(p < x /\ x < p + m * d)
    BY <1>6, <1>1, <1>2
  <2> QED
    BY <2>1, <2>2, <2>3, <2>4, <1>4
<1>7. CASE d = 16
  <2>1. u = r + m /\ v = c
    BY <1>7, <1>1, <1>q, <1>3
  <2>2. ASSUME p < x, x < p + m * d, c = j
        PROVE  \E k \in 1..(m - 1) : x = p + k * d
    <3>1. i - r \in 1..(m - 1) /\ x = p + (i - r) * d
      BY <2>1, <2>2, <1>7, <1>1, <1>2, <1>3
    <3> QED BY <3>1
  <2>3. ASSUME NEW k \in 1..(m - 1), x = p + k * d
        PROVE  p < x /\ x < p + m * d /\ c = j
    BY <2>1, <2>3, <1>7, <1>1, <1>2, <1>3
  <2>4. ~(p + m * d < x /\ x < p)
    BY <1>7, <1>1, <1>2
  <2> QED
    BY <2>1, <2>2, <2>3, <2>4, <1>4
<1>8. CASE d = -16
  <2>1. u = r - m /\ v = c
    BY <1>8, <1>1, <1>q, <1>3
  <2>2. ASSUME p + m * d < x, x < p, c = j
        PROVE  \E k \in 1..(m - 1) : x = p + k * d
    <3>1. r - i \in 1..(m - 1) /\ x = p + (r - i) * d
      BY <2>1, <2>2, <1>8, <1>1, <1>2, <1>3
    <3> QED BY <3>1
  <2>3. ASSUME NEW k \in 1..(m - 1), x = p + k * d
        PROVE  x < p /\ p + m * d < x /\ c = j
    BY <2>1, <2>3, <1>8, <1>1, <1>2, <1>3
  <2>4. ~(p < x /\ x < p + m * d)
    BY <1>8, <1>1, <1>2
  <2> QED
    BY <2>1, <2>2, <2>3, <2>4, <1>4
<1> QED
  BY <1>5, <1>6, <1>7, <1>8 DEF KingSpan

(* A set of steps of a walk that is not empty has a first one. *)
LEMMA FirstOf ==
  ASSUME NEW S, S \subseteq 1..11, NEW x \in S
  PROVE  /\ Min(S) \in S
         /\ \A y \in S : Min(S) <= y
PROOF
<1>1. \E k \in S : \A y \in S : k <= y
  <2> SUFFICES ASSUME \A k \in S : \E y \in S : y < k
               PROVE  FALSE
    <3>1. \A y, k \in S : y < k <=> ~(k <= y)
      OBVIOUS
    <3> QED BY <3>1
  <2>1. 1 \notin S /\ 2 \notin S /\ 3 \notin S /\ 4 \notin S
    OBVIOUS
  <2>2. 5 \notin S /\ 6 \notin S /\ 7 \notin S /\ 8 \notin S
    BY <2>1
  <2>3. 9 \notin S /\ 10 \notin S /\ 11 \notin S
    BY <2>1, <2>2
  <2> QED
    BY <2>1, <2>2, <2>3
<1> QED
  BY <1>1 DEF Min

(* Where a walk stops: the first square, from a given step on, that is     *)
(* occupied or off the board.                                              *)
Stops(b, p, d, k) == ~InBoard(p.pos + k * d) \/ Has(b, p.pos + k * d)

(* A walk from a square meets something: a piece, or the edge. *)
LEMMA StopFound ==
  ASSUME NEW b, NEW p, NEW d, NEW from \in 1..11, NEW x \in from..11, Stops(b, p, d, x)
  PROVE  /\ FirstStop(b, p, d, from) \in from..x
         /\ Stops(b, p, d, FirstStop(b, p, d, from))
         /\ \A k \in from..(FirstStop(b, p, d, from) - 1) : ~Stops(b, p, d, k)
PROOF
<1> DEFINE S == {k \in from..11 : ~InBoard(p.pos + k * d) \/ Has(b, p.pos + k * d)}
<1>1. \A k \in from..11 : k \in S <=> Stops(b, p, d, k)
  BY DEF Stops
<1>2. S \subseteq 1..11 /\ S \subseteq from..11 /\ x \in S
  BY <1>1
<1>3. Min(S) \in S /\ \A y \in S : Min(S) <= y
  <2> HIDE DEF S
  <2> QED BY <1>2, FirstOf
<1>4. FirstStop(b, p, d, from) = Min(S)
  BY DEF FirstStop
<1> HIDE DEF S
<1>5. PICK f : f = Min(S) /\ f \in S /\ \A y \in S : f <= y
  BY <1>3
<1>6. f \in from..x
  BY <1>2, <1>5
<1>7. \A k \in from..(f - 1) : k \in from..11 /\ k \notin S
  BY <1>2, <1>5
<1>8. Stops(b, p, d, f) /\ \A k \in from..(f - 1) : ~Stops(b, p, d, k)
  BY <1>1, <1>2, <1>5, <1>7
<1> QED
  BY <1>4, <1>5, <1>6, <1>8

(* The free squares of a walk up to its first stop, and the stop: a piece, *)
(* or the first place off the board.                                       *)
LEMMA WalkStops ==
  ASSUME NEW b, DOMAIN b.at \subseteq Squares, NEW p, p.pos \in Squares, NEW d \in KingSpan,
         NEW n, n = FirstStop(b, p, d, 1)
  PROVE  /\ n \in 1..Edge(p.pos, d)
         /\ n < Edge(p.pos, d) => Has(b, p.pos + n * d)
         /\ n = Edge(p.pos, d) => ~Has(b, p.pos + n * d)
         /\ \A k \in 1..(n - 1) : ~Has(b, p.pos + k * d)
PROOF
<1>1. /\ Edge(p.pos, d) \in 1..10
      /\ \A k \in 1..(Edge(p.pos, d) - 1) : InBoard(p.pos + k * d)
      /\ p.pos + Edge(p.pos, d) * d \notin Squares /\ ~InBoard(p.pos + Edge(p.pos, d) * d)
  BY EdgeOfBoard
<1>2. Stops(b, p, d, Edge(p.pos, d))
  BY <1>1 DEF Stops
<1>3. n \in 1..Edge(p.pos, d) /\ Stops(b, p, d, n) /\ \A k \in 1..(n - 1) : ~Stops(b, p, d, k)
  BY <1>1, <1>2, StopFound
<1>4. n < Edge(p.pos, d) => Has(b, p.pos + n * d)
  BY <1>1, <1>3 DEF Stops
<1>5. n = Edge(p.pos, d) => ~Has(b, p.pos + n * d)
  BY <1>1 DEF Has
<1>6. \A k \in 1..(n - 1) : ~Has(b, p.pos + k * d)
  BY <1>3 DEF Stops
<1> QED
  BY <1>3, <1>4, <1>5, <1>6

(* The second stop of a cannon's walk. *)
LEMMA SecondStop ==
  ASSUME NEW b, DOMAIN b.at \subseteq Squares, NEW p, p.pos \in Squares, NEW d \in KingSpan,
         NEW n \in 1..Edge(p.pos, d), NEW m, m = FirstStop(b, p, d, n + 1)
  PROVE  /\ m \in (n + 1)..(Edge(p.pos, d) + 1)
         /\ m < Edge(p.pos, d) => Has(b, p.pos + m * d)
         /\ m >= Edge(p.pos, d) => ~Has(b, p.pos + m * d)
         /\ \A k \in (n + 1)..(m - 1) : ~Has(b, p.pos + k * d)
PROOF
<1>1. /\ Edge(p.pos, d) \in 1..10
      /\ \A k \in 1..(Edge(p.pos, d) - 1) : InBoard(p.pos + k * d)
      /\ \A k \in {Edge(p.pos, d), Edge(p.pos, d) + 1} :
           p.pos + k * d \notin Squares /\ ~InBoard(p.pos + k * d)
  BY EdgeOfBoard
<1>2. Stops(b, p, d, Edge(p.pos, d) + 1) /\ n + 1 \in 1..11
      /\ Edge(p.pos, d) + 1 \in (n + 1)..11
  BY <1>1 DEF Stops
<1>3. m \in (n + 1)..(Edge(p.pos, d) + 1) /\ Stops(b, p, d, m)
      /\ \A k \in (n + 1)..(m - 1) : ~Stops(b, p, d, k)
  BY <1>2, StopFound
<1>4. m < Edge(p.pos, d) => Has(b, p.pos + m * d)
  BY <1>1, <1>3 DEF Stops
<1>5. m >= Edge(p.pos, d) => ~Has(b, p.pos + m * d)
  <2>1. m >= Edge(p.pos, d) => m \in {Edge(p.pos, d), Edge(p.pos, d) + 1}
    BY <1>1, <1>3
  <2> QED
    BY <1>1, <2>1 DEF Has
<1>6. \A k \in (n + 1)..(m - 1) : ~Has(b, p.pos + k * d)
  BY <1>3 DEF Stops
<1> QED
  BY <1>3, <1>4, <1>5, <1>6

-----------------------------------------------------------------------------
(* The squares, and so the screens, are finitely many. *)
LEMMA ScreensFinite ==
  ASSUME NEW b, DOMAIN b.at \subseteq Squares, NEW x, NEW y
  PROVE  /\ Cardinality(Screens(b, x, y)) = 0 <=> Screens(b, x, y) = {}
         /\ Cardinality(Screens(b, x, y)) = 1 <=> \E z : Screens(b, x, y) = {z}
PROOF
<1>1. Screens(b, x, y) \subseteq 0..255
  <2>1. Squares \subseteq 0..255
    BY SquareBounds
  <2> QED
    BY <2>1 DEF Screens
<1>2. IsFiniteSet(0..255)
  <2>1. 0 \in Int /\ 255 \in Int
    OBVIOUS
  <2> QED
    BY <2>1, FS_Interval
<1>3. IsFiniteSet(Screens(b, x, y))
  BY <1>1, <1>2, FS_Subset
<1> QED
  BY <1>3, FS_EmptySet, FS_Singleton

Walked(b, p, q, d, m) ==
  \A x : x \in Screens(b, p, q) <=> Has(b, x) /\ \E k \in 1..(m - 1) : x = p + k * d

(* The screens of a walk are pieces on the board. *)
LEMMA WalkScreens ==
  ASSUME NEW b, DOMAIN b.at \subseteq Squares, NEW p \in Squares, NEW d \in KingSpan,
         NEW m \in 1..(Edge(p, d) - 1), NEW q, q = p + m * d
  PROVE  Walked(b, p, q, d, m)
PROOF
<1>1. Screens(b, p, q) = {x \in DOMAIN b.at : \E k \in 1..(m - 1) : x = p + k * d}
  BY ScreensOnWalk
<1> QED
  BY <1>1 DEF Has, Walked

(* What legalMovePiece grants and generateMoves does not. *)
Beyond(b, p, q) ==
  \/ p.type = Cannon /\ ~Has(b, q) /\ Screens(b, p.pos, q) # {}
  \/ p.type = King /\ Has(b, q) /\ PieceAt(b, q).type = King
(* A piece on its square, and a square that is not its own. *)
Goes(b, p, q) ==
  /\ DOMAIN b.at \subseteq Squares
  /\ p.pos \in DOMAIN b.at /\ b.pieces[b.at[p.pos]] = p
  /\ q \in Squares /\ ~OwnAt(b, p, q)

(* What the generator gives for a piece, as the squares it goes to. *)
LEMMA GoesTo ==
  ASSUME NEW b, NEW p, NEW q, Goes(b, p, q)
  PROVE  /\ DOMAIN b.at \subseteq Squares /\ p.pos \in Squares /\ q \in Squares /\ p.pos # q
         /\ FreeOrOpp(b, p, q) /\ (OppAt(b, p, q) <=> Has(b, q)) /\ ~OwnAt(b, p, q)
  BY DEF Goes, FreeOrOpp, OppAt, OwnAt, Has, PieceAt

(* The walk of generateMoves from a rook finds what legalMovePiece accepts *)
LEMMA RookAgrees ==
  ASSUME NEW b, NEW p, NEW q, Goes(b, p, q), p.type = Rook
  PROVE  q \in Dests(b, p) <=> LegalMovePiece(b, p, q)
PROOF
<1>1. /\ DOMAIN b.at \subseteq Squares /\ p.pos \in Squares /\ q \in Squares /\ p.pos # q
      /\ (OppAt(b, p, q) <=> Has(b, q)) /\ ~OwnAt(b, p, q)
  BY GoesTo
<1>2. q \in Dests(b, p) <=>
        \E d \in KingSpan :
          \/ \E k \in 1..(FirstStop(b, p, d, 1) - 1) : q = p.pos + k * d
          \/ q = p.pos + FirstStop(b, p, d, 1) * d /\ OppAt(b, p, q)
  BY DEF Dests, King, Advisor, Bishop, Knight, Rook, Cannon, Pawn
<1>3. LegalMovePiece(b, p, q) <=>
        (SameRow(p.pos, q) \/ SameCol(p.pos, q)) /\ Screens(b, p.pos, q) = {}
  BY <1>1, LegalRook, ScreensFinite
<1>4. ASSUME NEW d \in KingSpan, NEW m \in 1..(Edge(p.pos, d) - 1), q = p.pos + m * d,
             Screens(b, p.pos, q) = {}
      PROVE  q \in Dests(b, p)
  <2> DEFINE n == FirstStop(b, p, d, 1)
  <2>1. /\ n \in 1..Edge(p.pos, d) /\ (n < Edge(p.pos, d) => Has(b, p.pos + n * d))
        /\ \A k \in 1..(n - 1) : ~Has(b, p.pos + k * d)
    BY <1>1, WalkStops
  <2>e. Edge(p.pos, d) \in 1..10
    BY <1>1, EdgeOfBoard
  <2>2. \A k \in 1..(m - 1) : ~Has(b, p.pos + k * d)
    <3>1. Walked(b, p.pos, q, d, m)
      BY <1>1, <1>4, WalkScreens
    <3> QED
      BY <3>1, <1>4 DEF Walked
  <2>3. m <= n
    BY <2>1, <2>2, <2>e
  <2>4. CASE m < n
    BY <1>2, <1>4, <2>1, <2>4, <2>e
  <2>5. CASE m = n
    BY <1>1, <1>2, <1>4, <2>1, <2>5, <2>e
  <2> QED
    BY <2>3, <2>4, <2>5, <2>1, <2>e
<1>5. ASSUME NEW d \in KingSpan,
             \/ \E k \in 1..(FirstStop(b, p, d, 1) - 1) : q = p.pos + k * d
             \/ q = p.pos + FirstStop(b, p, d, 1) * d /\ OppAt(b, p, q)
      PROVE  LegalMovePiece(b, p, q)
  <2> DEFINE n == FirstStop(b, p, d, 1)
  <2>1. /\ n \in 1..Edge(p.pos, d) /\ (n = Edge(p.pos, d) => ~Has(b, p.pos + n * d))
        /\ \A k \in 1..(n - 1) : ~Has(b, p.pos + k * d)
    BY <1>1, WalkStops
  <2>e. Edge(p.pos, d) \in 1..10
    BY <1>1, EdgeOfBoard
  <2>2. PICK m \in 1..n : q = p.pos + m * d /\ (m = n => OppAt(b, p, q))
    BY <1>5, <2>1, <2>e
  <2>3. m \in 1..(Edge(p.pos, d) - 1)
    BY <1>1, <2>1, <2>2, <2>e
  <2>4. Screens(b, p.pos, q) = {}
    <3>1. \A x : x \in Screens(b, p.pos, q) <=> Has(b, x) /\ \E k \in 1..(m - 1) : x = p.pos + k * d
      <4>1. Walked(b, p.pos, q, d, m)
        BY <1>1, <2>2, <2>3, WalkScreens
      <4> QED
        BY <4>1 DEF Walked
    <3>2. \A k \in 1..(m - 1) : ~Has(b, p.pos + k * d)
      BY <2>1, <2>2, <2>e
    <3> QED
      BY <3>1, <3>2
  <2> QED
    BY <1>1, <1>3, <2>2, <2>3, <2>4, OnLine
<1> QED
  BY <1>1, <1>2, <1>3, <1>4, <1>5, OnLine

(* A cannon's takes over one screen. *)
LEMMA CannonAgrees ==
  ASSUME NEW b, NEW p, NEW q, Goes(b, p, q), ~Beyond(b, p, q), p.type = Cannon
  PROVE  q \in Dests(b, p) <=> LegalMovePiece(b, p, q)
PROOF
<1>1. /\ DOMAIN b.at \subseteq Squares /\ p.pos \in Squares /\ q \in Squares /\ p.pos # q
      /\ (OppAt(b, p, q) <=> Has(b, q))
  BY GoesTo
<1>2. q \in Dests(b, p) <=>
        \E d \in KingSpan :
          \/ \E k \in 1..(FirstStop(b, p, d, 1) - 1) : q = p.pos + k * d
          \/ /\ q = p.pos + FirstStop(b, p, d, FirstStop(b, p, d, 1) + 1) * d
             /\ OppAt(b, p, q)
  BY DEF Dests, King, Advisor, Bishop, Knight, Rook, Cannon, Pawn
<1>3. LegalMovePiece(b, p, q) <=>
        /\ SameRow(p.pos, q) \/ SameCol(p.pos, q)
        /\ \/ Screens(b, p.pos, q) = {} /\ ~Has(b, q)
           \/ \E z : Screens(b, p.pos, q) = {z}
  <2>1. /\ Cardinality(Screens(b, p.pos, q)) = 0 <=> Screens(b, p.pos, q) = {}
        /\ Cardinality(Screens(b, p.pos, q)) = 1 <=> \E z : Screens(b, p.pos, q) = {z}
    BY <1>1, ScreensFinite
  <2>2. LegalMovePiece(b, p, q) <=>
           /\ SameRow(p.pos, q) \/ SameCol(p.pos, q)
           /\ \/ Cardinality(Screens(b, p.pos, q)) = 0 /\ ~Has(b, q)
              \/ Cardinality(Screens(b, p.pos, q)) = 1
    BY LegalCannon
  <2> QED
    BY <2>1, <2>2
<1>b. ~Has(b, q) => Screens(b, p.pos, q) = {}
  BY DEF Beyond
<1>4. ASSUME NEW d \in KingSpan, NEW m \in 1..(Edge(p.pos, d) - 1), q = p.pos + m * d,
             LegalMovePiece(b, p, q)
      PROVE  q \in Dests(b, p)
  <2>0. PICK n : n = FirstStop(b, p, d, 1)
    OBVIOUS
  <2>1. /\ n \in 1..Edge(p.pos, d) /\ (n < Edge(p.pos, d) => Has(b, p.pos + n * d))
        /\ \A k \in 1..(n - 1) : ~Has(b, p.pos + k * d)
    BY <1>1, <2>0, WalkStops
  <2>e. Edge(p.pos, d) \in 1..10
    BY <1>1, EdgeOfBoard
  <2>s. \A x : x \in Screens(b, p.pos, q) <=> Has(b, x) /\ \E k \in 1..(m - 1) : x = p.pos + k * d
    <3>1. Walked(b, p.pos, q, d, m)
      BY <1>1, <1>4, WalkScreens
    <3> QED
      BY <3>1 DEF Walked
  <2>2. CASE Screens(b, p.pos, q) = {} /\ ~Has(b, q)
    <3>1. \A k \in 1..m : ~Has(b, p.pos + k * d)
      <4> SUFFICES ASSUME NEW k \in 1..m PROVE ~Has(b, p.pos + k * d)
        OBVIOUS
      <4>1. k = m => ~Has(b, p.pos + k * d)
        BY <2>2, <1>4
      <4>2. k # m => k \in 1..(m - 1)
        BY <2>e
      <4> QED
        BY <4>1, <4>2, <2>2, <2>s
    <3>2. m < n
      BY <3>1, <2>1, <2>e
    <3> QED
      BY <3>2, <1>2, <1>4, <2>0, <2>1, <2>e
  <2>3. CASE \E z : Screens(b, p.pos, q) = {z}
    <3>1. PICK z : Screens(b, p.pos, q) = {z}
      BY <2>3
    <3>2. PICK j \in 1..(m - 1) : z = p.pos + j * d
      BY <3>1, <2>s
    <3>z. Has(b, z)
      BY <3>1, <2>s
    <3>3. n <= j
      BY <3>2, <3>z, <2>1, <2>e
    <3>4. n \in 1..(m - 1) /\ n < Edge(p.pos, d)
      BY <3>3, <2>1, <2>e
    <3>5. Has(b, q)
      BY <1>b, <3>1
    <3>6. \A k \in (n + 1)..(m - 1) : ~Has(b, p.pos + k * d)
      <4> SUFFICES ASSUME NEW k \in (n + 1)..(m - 1), Has(b, p.pos + k * d) PROVE FALSE
        OBVIOUS
      <4>1. Has(b, p.pos + n * d)
        BY <3>4, <2>1
      <4>k. k \in 1..(m - 1)
        BY <3>4
      <4>2. p.pos + n * d \in Screens(b, p.pos, q) /\ p.pos + k * d \in Screens(b, p.pos, q)
        BY <4>1, <4>k, <3>4, <2>s
      <4>3. p.pos + n * d = p.pos + k * d
        BY <4>2, <3>1
      <4>4. n = k
        <5>1. p.pos \in Int
          BY <1>1, SquareBounds
        <5>2. d = 1 \/ d = -1 \/ d = 16 \/ d = -16
          BY DEF KingSpan
        <5> QED
          BY <5>1, <5>2, <4>3, <3>4, <4>k
      <4> QED
        BY <4>4, <3>4
    <3>7. PICK f : f = FirstStop(b, p, d, n + 1)
      OBVIOUS
    <3>8. /\ f \in (n + 1)..(Edge(p.pos, d) + 1)
          /\ f < Edge(p.pos, d) => Has(b, p.pos + f * d)
          /\ \A k \in (n + 1)..(f - 1) : ~Has(b, p.pos + k * d)
      BY <1>1, <2>1, <3>7, SecondStop
    <3>9. ~(f < m)
      <4>1. f < m => f \in (n + 1)..(m - 1) /\ f < Edge(p.pos, d)
        BY <3>8, <2>e, <3>4
      <4> QED
        BY <4>1, <3>6, <3>8
    <3>10. ~(m < f)
      <4>1. m < f => m \in (n + 1)..(f - 1)
        BY <3>8, <2>e, <3>4
      <4> QED
        BY <4>1, <3>5, <3>8, <1>4
    <3>11. f = m
      BY <3>9, <3>10, <3>8, <2>e, <3>4
    <3> QED
      BY <3>11, <3>5, <3>7, <1>1, <1>2, <1>4, <2>0
  <2> QED
    BY <2>2, <2>3, <1>3, <1>4
<1>5. ASSUME NEW d \in KingSpan,
             \/ \E k \in 1..(FirstStop(b, p, d, 1) - 1) : q = p.pos + k * d
             \/ /\ q = p.pos + FirstStop(b, p, d, FirstStop(b, p, d, 1) + 1) * d
                /\ OppAt(b, p, q)
      PROVE  LegalMovePiece(b, p, q)
  <2>0. PICK n, f : n = FirstStop(b, p, d, 1) /\ f = FirstStop(b, p, d, n + 1)
    OBVIOUS
  <2>1. /\ n \in 1..Edge(p.pos, d) /\ (n < Edge(p.pos, d) => Has(b, p.pos + n * d))
        /\ \A k \in 1..(n - 1) : ~Has(b, p.pos + k * d)
    BY <1>1, <2>0, WalkStops
  <2>e. Edge(p.pos, d) \in 1..10
    BY <1>1, EdgeOfBoard
  <2>2. /\ f \in (n + 1)..(Edge(p.pos, d) + 1)
        /\ f >= Edge(p.pos, d) => ~Has(b, p.pos + f * d)
        /\ \A k \in (n + 1)..(f - 1) : ~Has(b, p.pos + k * d)
    BY <1>1, <2>1, <2>0, SecondStop
  <2>3. CASE \E k \in 1..(n - 1) : q = p.pos + k * d
    <3>1. PICK m \in 1..(n - 1) : q = p.pos + m * d
      BY <2>3
    <3>2. m \in 1..(Edge(p.pos, d) - 1)
      BY <2>1, <2>e
    <3>3. ~Has(b, q)
      BY <3>1, <2>1
    <3> QED
      BY <3>1, <3>2, <3>3, <1>1, <1>3, <1>b, OnLine
  <2>4. CASE q = p.pos + f * d /\ OppAt(b, p, q)
    <3>1. Has(b, q) /\ f < Edge(p.pos, d) /\ f \in 1..(Edge(p.pos, d) - 1) /\ n \in 1..(f - 1)
      BY <1>1, <2>1, <2>2, <2>4, <2>e
    <3>2. Has(b, p.pos + n * d)
      <4>1. n < Edge(p.pos, d)
        BY <3>1, <2>e
      <4> QED
        BY <4>1, <2>1
    <3>s. \A x : x \in Screens(b, p.pos, q) <=> Has(b, x) /\ \E k \in 1..(f - 1) : x = p.pos + k * d
      <4>1. Walked(b, p.pos, q, d, f)
        BY <1>1, <2>4, <3>1, WalkScreens
      <4> QED
        BY <4>1 DEF Walked
    <3>3. \A x : x \in Screens(b, p.pos, q) <=> x = p.pos + n * d
      <4>1. ASSUME NEW k \in 1..(f - 1), Has(b, p.pos + k * d)
            PROVE  k = n
        <5>1. k \in 1..(n - 1) \/ k = n \/ k \in (n + 1)..(f - 1)
          BY <3>1
        <5> QED
          BY <5>1, <4>1, <2>1, <2>2
      <4> QED
        BY <4>1, <3>1, <3>2, <3>s
    <3>4. Screens(b, p.pos, q) = {p.pos + n * d}
      BY <3>3
    <3> QED
      BY <3>1, <3>4, <2>4, <1>1, <1>3, OnLine
  <2> QED
    BY <2>3, <2>4, <2>0, <1>5
<1> QED
  BY <1>1, <1>2, <1>3, <1>4, <1>5, OnLine

(* The pieces that step. *)
LEMMA KingAgrees ==
  ASSUME NEW b, NEW p, NEW q, Goes(b, p, q), ~Beyond(b, p, q), p.type = King
  PROVE  q \in Dests(b, p) <=> LegalMovePiece(b, p, q)
PROOF
<1>1. p.pos \in Squares /\ q \in Squares /\ FreeOrOpp(b, p, q)
  BY GoesTo
<1>2. q \in Dests(b, p) <=> (\E d \in KingSpan : q = p.pos + d) /\ InFort(q) /\ FreeOrOpp(b, p, q)
  BY DEF Dests, King, Advisor, Bishop, Knight, Rook, Cannon, Pawn
<1>3. LegalMovePiece(b, p, q) <=> InFort(q) /\ q - p.pos \in KingSpan
  BY LegalKing DEF Beyond
<1>4. q - p.pos \in KingSpan <=> \E d \in KingSpan : q = p.pos + d
  BY <1>1, SquareBounds DEF KingSpan
<1> QED
  BY <1>1, <1>2, <1>3, <1>4

(* For an advisor the generator and legalMovePiece agree. *)
LEMMA AdvisorAgrees ==
  ASSUME NEW b, NEW p, NEW q, Goes(b, p, q), p.type = Advisor
  PROVE  q \in Dests(b, p) <=> LegalMovePiece(b, p, q)
PROOF
<1>1. p.pos \in Squares /\ q \in Squares /\ FreeOrOpp(b, p, q)
  BY GoesTo
<1>2. q \in Dests(b, p) <=> (\E d \in AdvisorSpan : q = p.pos + d) /\ InFort(q) /\ FreeOrOpp(b, p, q)
  BY DEF Dests, King, Advisor, Bishop, Knight, Rook, Cannon, Pawn
<1>4. q - p.pos \in AdvisorSpan <=> \E d \in AdvisorSpan : q = p.pos + d
  BY <1>1, SquareBounds DEF AdvisorSpan
<1> QED
  BY <1>1, <1>2, <1>4, LegalAdvisor

(* For a pawn the generator and legalMovePiece agree. *)
LEMMA PawnAgrees ==
  ASSUME NEW b, NEW p, NEW q, Goes(b, p, q), p.type = Pawn
  PROVE  q \in Dests(b, p) <=> LegalMovePiece(b, p, q)
PROOF
<1>1. p.pos \in Int /\ q \in Int /\ InBoard(q) /\ FreeOrOpp(b, p, q)
  BY GoesTo, SquareBounds
<1>2. q \in Dests(b, p) <=> /\ \/ q = PieceForwardStep(b, p)
                               \/ HasCrossed(b, p) /\ (q = p.pos - 1 \/ q = p.pos + 1)
                            /\ InBoard(q) /\ FreeOrOpp(b, p, q)
  BY DEF Dests, King, Advisor, Bishop, Knight, Rook, Cannon, Pawn
<1>3. q - p.pos \in {-1, 1} <=> q = p.pos - 1 \/ q = p.pos + 1
  BY <1>1
<1> QED
  BY <1>1, <1>2, <1>3, LegalPawn

(* For a knight the generator and legalMovePiece agree. *)
LEMMA KnightAgrees ==
  ASSUME NEW b, NEW p, NEW q, Goes(b, p, q), p.type = Knight
  PROVE  q \in Dests(b, p) <=> LegalMovePiece(b, p, q)
PROOF
<1>1. p.pos \in Int /\ q \in Int /\ InBoard(q) /\ FreeOrOpp(b, p, q)
  BY GoesTo, SquareBounds
<1>2. q \in Dests(b, p) <=>
        /\ \E leg \in KingSpan : ~Has(b, p.pos + leg) /\ \E d \in KnightDelta(leg) : q = p.pos + d
        /\ InBoard(q) /\ FreeOrOpp(b, p, q)
  BY DEF Dests, King, Advisor, Bishop, Knight, Rook, Cannon, Pawn
<1>3. \A leg \in KingSpan : (\E d \in KnightDelta(leg) : q = p.pos + d) <=> KnightPin(q - p.pos) = leg
  <2> SUFFICES ASSUME NEW leg \in KingSpan
               PROVE  (\E d \in KnightDelta(leg) : q = p.pos + d) <=> KnightPin(q - p.pos) = leg
    OBVIOUS
  <2>1. PICK span \in Int : span = q - p.pos
    BY <1>1
  <2>2. \A d \in Int : q = p.pos + d <=> d = span
    BY <1>1, <2>1
  <2>3. KnightDelta(leg) \subseteq Int
    BY DEF KnightDelta, KingSpan
  <2>4. span \in KnightDelta(leg) <=> KnightPin(span) = leg
    BY DEF KnightDelta, KnightPin, KingSpan
  <2> QED
    BY <2>1, <2>2, <2>3, <2>4
<1>4. KnightPin(q - p.pos) \in KingSpan \cup {0} /\ 0 \notin KingSpan
  BY <1>1 DEF KnightPin, KingSpan
<1> QED
  BY <1>1, <1>2, <1>3, <1>4, LegalKnight

(* For a bishop on a bishop point the generator and legalMovePiece agree. *)
LEMMA BishopAgrees ==
  ASSUME NEW b, NEW p, NEW q, Goes(b, p, q), p.type = Bishop, BishopPoint(p.pos)
  PROVE  q \in Dests(b, p) <=> LegalMovePiece(b, p, q)
PROOF
<1>1. p.pos \in Squares /\ q \in Squares /\ FreeOrOpp(b, p, q)
  BY GoesTo
<1>2. q \in Dests(b, p) <=>
        \E e \in AdvisorSpan :
          /\ q = p.pos + 2 * e
          /\ InBoard(p.pos + e) /\ SameHalf(p.pos, p.pos + e)
          /\ ~Has(b, p.pos + e) /\ FreeOrOpp(b, p, p.pos + 2 * e)
  BY DEF Dests, King, Advisor, Bishop, Knight, Rook, Cannon, Pawn
<1>3. PICK r \in 0..9, c \in 0..8 : p.pos = 16 * r + c + 51 /\ p.pos % 16 = c + 3 /\ p.pos \div 16 = r + 3
  BY <1>1, Coordinates
<1>4. PICK i \in 0..9, j \in 0..8 : q = 16 * i + j + 51 /\ q % 16 = j + 3 /\ q \div 16 = i + 3
  BY <1>1, Coordinates
<1>5. r \in {0, 2, 4, 5, 7, 9}
  BY <1>3 DEF BishopPoint, RowOfPos
<1>6. ASSUME NEW e \in AdvisorSpan, q = p.pos + 2 * e
      PROVE  /\ InBoard(p.pos + e) /\ (p.pos + q) \div 2 = p.pos + e
             /\ SameHalf(p.pos, p.pos + e) <=> SameHalf(p.pos, q)
             /\ q - p.pos \in BishopSpan
  <2>1. PICK x \in Int : x = p.pos + e
    BY <1>3 DEF AdvisorSpan
  <2>2. (p.pos + q) \div 2 = x
    BY <1>6, <2>1, <1>3, SMTT(30) DEF AdvisorSpan
  <2>3. \E u \in 0..9, v \in 0..8 : x = 16 * u + v + 51
    <3>1. CASE e = 17
      <4>1. x = 16 * (r + 1) + (c + 1) + 51 /\ r + 1 \in 0..9 /\ c + 1 \in 0..8
        BY <3>1, <2>1, <1>3, <1>4, <1>6
      <4> QED BY <4>1
    <3>2. CASE e = 15
      <4>1. x = 16 * (r + 1) + (c - 1) + 51 /\ r + 1 \in 0..9 /\ c - 1 \in 0..8
        BY <3>2, <2>1, <1>3, <1>4, <1>6
      <4> QED BY <4>1
    <3>3. CASE e = -15
      <4>1. x = 16 * (r - 1) + (c + 1) + 51 /\ r - 1 \in 0..9 /\ c + 1 \in 0..8
        BY <3>3, <2>1, <1>3, <1>4, <1>6
      <4> QED BY <4>1
    <3>4. CASE e = -17
      <4>1. x = 16 * (r - 1) + (c - 1) + 51 /\ r - 1 \in 0..9 /\ c - 1 \in 0..8
        BY <3>4, <2>1, <1>3, <1>4, <1>6
      <4> QED BY <4>1
    <3> QED
      BY <3>1, <3>2, <3>3, <3>4 DEF AdvisorSpan
  <2>4. InBoard(x)
    <3>1. x \in Squares
      BY <2>3 DEF Squares, ConvertToPos
    <3> QED
      BY <3>1, SquareBounds
  <2>5. SameHalf(p.pos, x) <=> SameHalf(p.pos, q)
    BY <1>3, <1>4, <1>5, <1>6, <2>1, SMTT(30) DEF SameHalf, Lower, AdvisorSpan
  <2>6. q - p.pos \in BishopSpan
    BY <1>3, <1>6 DEF AdvisorSpan, BishopSpan
  <2> QED
    BY <2>1, <2>2, <2>4, <2>5, <2>6
<1>7. q - p.pos \in BishopSpan => \E e \in AdvisorSpan : q = p.pos + 2 * e
  BY <1>3, <1>4 DEF AdvisorSpan, BishopSpan
<1> QED
  BY <1>1, <1>2, <1>6, <1>7, LegalBishop

(* generateMoves and legalMovePiece agree on where a piece may go, except  *)
(* for what legalMovePiece alone grants.                                   *)
LEMMA DestsAgree ==
  ASSUME NEW b, NEW p \in Piece, NEW q, Goes(b, p, q), ~Beyond(b, p, q),
         p.type = Bishop => BishopPoint(p.pos)
  PROVE  q \in Dests(b, p) <=> LegalMovePiece(b, p, q)
  BY PieceTypes, KingAgrees, AdvisorAgrees, BishopAgrees, KnightAgrees, RookAgrees, CannonAgrees,
     PawnAgrees DEF Types

(* generateMoves stays on the board and off its own pieces. *)
LEMMA FortSquare == ASSUME NEW q \in Int, InFort(q) PROVE q \in Squares
PROOF
<1>1. InBoard(q)
  <2>1. RowOfPos(q) \in (0..2) \cup (7..9) /\ ColOfPos(q) \in 3..5
    BY DEF InFort
  <2> QED
    BY <2>1 DEF InBoard
<1> QED
  BY <1>1, InBoardSquare

(* A bishop from a bishop point lands on the board, on its own half. *)
LEMMA BishopLands ==
  ASSUME NEW p \in Squares, BishopPoint(p), NEW e \in AdvisorSpan,
         InBoard(p + e), SameHalf(p, p + e)
  PROVE  p + 2 * e \in Squares
PROOF
<1>1. PICK r \in 0..9, c \in 0..8 : p = 16 * r + c + 51 /\ p % 16 = c + 3 /\ p \div 16 = r + 3
  BY Coordinates
<1>2. r \in {0, 2, 4, 5, 7, 9} /\ c \in {0, 2, 4, 6, 8}
  BY <1>1 DEF BishopPoint, RowOfPos, ColOfPos
<1>3. p + e \in Squares
  BY <1>1, InBoardSquare DEF AdvisorSpan
<1>4. PICK i \in 0..9, j \in 0..8 : p + e = 16 * i + j + 51 /\ (p + e) % 16 = j + 3 /\ (p + e) \div 16 = i + 3
  BY <1>3, Coordinates
<1>5. (i < 5 <=> r < 5)
  BY <1>1, <1>4 DEF SameHalf, Lower
<1> SUFFICES \E u \in 0..9, v \in 0..8 : p + 2 * e = 16 * u + v + 51
  BY DEF Squares, ConvertToPos
<1>6. CASE e = 17
  <2>1. r + 2 \in 0..9 /\ c + 2 \in 0..8 /\ p + 2 * e = 16 * (r + 2) + (c + 2) + 51
    BY <1>1, <1>2, <1>4, <1>5, <1>6
  <2> QED BY <2>1
<1>7. CASE e = 15
  <2>1. r + 2 \in 0..9 /\ c - 2 \in 0..8 /\ p + 2 * e = 16 * (r + 2) + (c - 2) + 51
    BY <1>1, <1>2, <1>4, <1>5, <1>7
  <2> QED BY <2>1
<1>8. CASE e = -15
  <2>1. r - 2 \in 0..9 /\ c + 2 \in 0..8 /\ p + 2 * e = 16 * (r - 2) + (c + 2) + 51
    BY <1>1, <1>2, <1>4, <1>5, <1>8
  <2> QED BY <2>1
<1>9. CASE e = -17
  <2>1. r - 2 \in 0..9 /\ c - 2 \in 0..8 /\ p + 2 * e = 16 * (r - 2) + (c - 2) + 51
    BY <1>1, <1>2, <1>4, <1>5, <1>9
  <2> QED BY <2>1
<1> QED
  BY <1>6, <1>7, <1>8, <1>9 DEF AdvisorSpan

(* What the generator gives is on the board and not held by an own piece. *)
LEMMA DestsAreFree ==
  ASSUME NEW b, DOMAIN b.at \subseteq Squares, NEW p \in Piece,
         p.type = Bishop => BishopPoint(p.pos), NEW q \in Dests(b, p)
  PROVE  q \in Squares /\ ~OwnAt(b, p, q)
PROOF
<1>0. p.pos \in Squares /\ p.pos \in Int /\ \A x : FreeOrOpp(b, p, x) => ~OwnAt(b, p, x)
  BY PieceRecord, SquareBounds DEF FreeOrOpp, OppAt, OwnAt
<1>1. CASE p.type = King
  <2>1. PICK d \in KingSpan : q = p.pos + d /\ InFort(q) /\ FreeOrOpp(b, p, q)
    BY <1>1 DEF Dests, King, Advisor, Bishop, Knight, Rook, Cannon, Pawn
  <2>2. q \in Int
    BY <2>1, <1>0 DEF KingSpan
  <2> QED
    BY <2>1, <2>2, <1>0, FortSquare
<1>2. CASE p.type = Advisor
  <2>1. PICK d \in AdvisorSpan : q = p.pos + d /\ InFort(q) /\ FreeOrOpp(b, p, q)
    BY <1>2 DEF Dests, King, Advisor, Bishop, Knight, Rook, Cannon, Pawn
  <2>2. q \in Int
    BY <2>1, <1>0 DEF AdvisorSpan
  <2> QED
    BY <2>1, <2>2, <1>0, FortSquare
<1>3. CASE p.type = Bishop
  <2>1. PICK e \in AdvisorSpan : /\ q = p.pos + 2 * e /\ InBoard(p.pos + e)
                                 /\ SameHalf(p.pos, p.pos + e) /\ FreeOrOpp(b, p, p.pos + 2 * e)
    BY <1>3 DEF Dests, King, Advisor, Bishop, Knight, Rook, Cannon, Pawn
  <2>2. p.pos + 2 * e \in Squares
    BY <1>0, <1>3, <2>1, BishopLands
  <2> QED
    BY <2>1, <2>2, <1>0
<1>4. CASE p.type = Knight
  <2>1. PICK leg \in KingSpan : /\ \E d \in KnightDelta(leg) : q = p.pos + d
                                /\ InBoard(q) /\ FreeOrOpp(b, p, q)
    BY <1>4 DEF Dests, King, Advisor, Bishop, Knight, Rook, Cannon, Pawn
  <2>2. q \in Int
    BY <2>1, <1>0 DEF KnightDelta, KingSpan
  <2> QED
    BY <2>1, <2>2, <1>0, InBoardSquare
<1>5. CASE p.type = Rook
  <2>w. PICK d \in KingSpan : \E n : /\ n = FirstStop(b, p, d, 1)
                                     /\ \/ \E k \in 1..(n - 1) : q = p.pos + k * d
                                        \/ q = p.pos + n * d /\ OppAt(b, p, q)
    BY <1>5 DEF Dests, King, Advisor, Bishop, Knight, Rook, Cannon, Pawn
  <2>1. PICK n : /\ n = FirstStop(b, p, d, 1)
                 /\ \/ \E k \in 1..(n - 1) : q = p.pos + k * d
                    \/ q = p.pos + n * d /\ OppAt(b, p, q)
    BY <2>w
  <2>2. n \in 1..Edge(p.pos, d) /\ \A k \in 1..(n - 1) : ~Has(b, p.pos + k * d)
    BY <1>0, <2>1, WalkStops
  <2>3. CASE q = p.pos + n * d /\ OppAt(b, p, q)
    BY <2>3 DEF OppAt, OwnAt, Has
  <2>4. CASE \E k \in 1..(n - 1) : q = p.pos + k * d
    <3>1. PICK k \in 1..(n - 1) : q = p.pos + k * d
      BY <2>4
    <3>2. Edge(p.pos, d) \in 1..10 /\ \A j \in 1..(Edge(p.pos, d) - 1) : p.pos + j * d \in Squares
      BY <1>0, EdgeOfBoard
    <3>3. k \in 1..(Edge(p.pos, d) - 1)
      BY <2>2, <3>2
    <3> QED
      BY <2>2, <3>1, <3>2, <3>3 DEF OwnAt
  <2> QED
    BY <2>1, <2>3, <2>4
<1>6. CASE p.type = Cannon
  <2>w. PICK d \in KingSpan : \E n : /\ n = FirstStop(b, p, d, 1)
                                     /\ \/ \E k \in 1..(n - 1) : q = p.pos + k * d
                                        \/ OppAt(b, p, q)
    BY <1>6 DEF Dests, King, Advisor, Bishop, Knight, Rook, Cannon, Pawn
  <2>1. PICK n : /\ n = FirstStop(b, p, d, 1)
                 /\ \/ \E k \in 1..(n - 1) : q = p.pos + k * d
                    \/ OppAt(b, p, q)
    BY <2>w
  <2>2. n \in 1..Edge(p.pos, d) /\ \A k \in 1..(n - 1) : ~Has(b, p.pos + k * d)
    BY <1>0, <2>1, WalkStops
  <2>3. CASE OppAt(b, p, q)
    BY <2>3 DEF OppAt, OwnAt, Has
  <2>4. CASE \E k \in 1..(n - 1) : q = p.pos + k * d
    <3>1. PICK k \in 1..(n - 1) : q = p.pos + k * d
      BY <2>4
    <3>2. Edge(p.pos, d) \in 1..10 /\ \A j \in 1..(Edge(p.pos, d) - 1) : p.pos + j * d \in Squares
      BY <1>0, EdgeOfBoard
    <3>3. k \in 1..(Edge(p.pos, d) - 1)
      BY <2>2, <3>2
    <3> QED
      BY <2>2, <3>1, <3>2, <3>3 DEF OwnAt
  <2> QED
    BY <2>1, <2>3, <2>4
<1>7. CASE p.type = Pawn
  <2>1. /\ q = PieceForwardStep(b, p) \/ q \in {p.pos - 1, p.pos + 1}
        /\ InBoard(q) /\ FreeOrOpp(b, p, q)
    BY <1>7 DEF Dests, King, Advisor, Bishop, Knight, Rook, Cannon, Pawn
  <2>2. q \in Int
    BY <2>1, <1>0 DEF PieceForwardStep
  <2> QED
    BY <2>1, <2>2, <1>0, InBoardSquare
<1> QED
  BY <1>1, <1>2, <1>3, <1>4, <1>5, <1>6, <1>7, PieceTypes DEF Types

(* An empty square a cannon's walk finds is behind no screen. *)
LEMMA CannonWalks ==
  ASSUME NEW b, DOMAIN b.at \subseteq Squares, NEW p, p.pos \in Squares, p.type = Cannon,
         NEW q \in Dests(b, p), ~Has(b, q)
  PROVE  Screens(b, p.pos, q) = {}
PROOF
<1>w. PICK d \in KingSpan : \E n : /\ n = FirstStop(b, p, d, 1)
                                   /\ \/ \E k \in 1..(n - 1) : q = p.pos + k * d
                                      \/ OppAt(b, p, q)
  BY DEF Dests, King, Advisor, Bishop, Knight, Rook, Cannon, Pawn
<1>1. PICK n : /\ n = FirstStop(b, p, d, 1)
               /\ \/ \E k \in 1..(n - 1) : q = p.pos + k * d
                  \/ OppAt(b, p, q)
  BY <1>w
<1>2. n \in 1..Edge(p.pos, d) /\ \A k \in 1..(n - 1) : ~Has(b, p.pos + k * d)
  BY <1>1, WalkStops
<1>3. PICK m \in 1..(n - 1) : q = p.pos + m * d
  BY <1>1 DEF OppAt
<1>4. Edge(p.pos, d) \in 1..10
  BY EdgeOfBoard
<1>5. m \in 1..(Edge(p.pos, d) - 1)
  BY <1>2, <1>3, <1>4
<1>6. Walked(b, p.pos, q, d, m)
  BY <1>3, <1>5, WalkScreens
<1>7. \A k \in 1..(m - 1) : ~Has(b, p.pos + k * d)
  BY <1>2, <1>3, <1>4
<1> QED
  BY <1>6, <1>7 DEF Walked

-----------------------------------------------------------------------------
(* A shown piece of a board in play, for the two lemmas above. *)
LEMMA ShownGoes ==
  ASSUME NEW b, IsBoard(b), NEW side, NEW i \in Shown(b, side)
  PROVE  /\ b.pieces[i] \in Piece /\ b.pieces[i].side = side
         /\ b.pieces[i].pos \in Squares /\ DOMAIN b.at \subseteq Squares
         /\ \A q \in Squares : ~OwnAt(b, b.pieces[i], q) => Goes(b, b.pieces[i], q)
         /\ i \in DOMAIN b.pieces /\ b.pieces[i].pos \in DOMAIN b.at
         /\ PieceAt(b, b.pieces[i].pos) = b.pieces[i]
PROOF
<1>1. i \in DOMAIN b.pieces /\ b.pieces[i].side = side /\ b.pieces[i].show
  BY BoardTyping DEF Shown
<1>2. b.pieces[i] \in Piece /\ b.pieces[i].pos \in Squares
  BY <1>1, BoardTyping, PieceRecord
<1>3. b.pieces[i].pos \in DOMAIN b.at /\ b.at[b.pieces[i].pos] = i
  BY <1>1, BooksTell
<1>4. DOMAIN b.at \subseteq Squares
  BY BooksTell
<1> QED
  BY <1>1, <1>2, <1>3, <1>4 DEF Goes, PieceAt

(* What generateMoves finds in play, legalMovePiece does not grant alone:  *)
(* the side that has just moved has no king within reach.                  *)
LEMMA GeneratedNotBeyond ==
  ASSUME NEW b, InPlay(b), NEW i \in Shown(b, b.cur), NEW q \in Dests(b, b.pieces[i])
  PROVE  ~Beyond(b, b.pieces[i], q)
PROOF
<1>0. IsBoard(b) /\ ~WillKillOppKing(b) /\ \A side \in {Red, Black} : OneKing(b, side)
  BY DEF InPlay
<1>p. PICK p : p = b.pieces[i]
  OBVIOUS
<1>1. /\ p \in Piece /\ p.side = b.cur /\ p.pos \in Squares /\ DOMAIN b.at \subseteq Squares
      /\ i \in DOMAIN b.pieces
  BY <1>0, <1>p, ShownGoes
<1>2. p.type = Bishop => BishopPoint(p.pos)
  BY <1>1, <1>p DEF InPlay
<1>3. q \in Squares /\ ~OwnAt(b, p, q)
  BY <1>1, <1>2, <1>p, DestsAreFree
<1>4. ASSUME p.type = Cannon, ~Has(b, q)
      PROVE  Screens(b, p.pos, q) = {}
  BY <1>1, <1>4, <1>p, CannonWalks
<1>5. ASSUME p.type = King, Has(b, q), PieceAt(b, q).type = King
      PROVE  FALSE
  <2>1. InFort(q) /\ q - p.pos \in KingSpan
    <3>1. PICK d \in KingSpan : q = p.pos + d /\ InFort(q)
      BY <1>5, <1>p DEF Dests, King, Advisor, Bishop, Knight, Rook, Cannon, Pawn
    <3> QED
      BY <3>1, <1>1, SquareBounds DEF KingSpan
  <2>2. LegalMovePiece(b, p, q)
    BY <2>1, <1>5, LegalKing
  <2>3. PICK j : j = b.at[q] /\ j \in DOMAIN b.pieces /\ b.pieces[j].pos = q
                 /\ b.pieces[j].type = King /\ b.pieces[j].side # b.cur
    BY <1>0, <1>1, <1>3, <1>5, BooksTell DEF Has, PieceAt, OwnAt
  <2>4. /\ b.cur \in {Red, Black} /\ b.pieces[j].side \in {Red, Black}
        /\ DOMAIN b.pieces = 1..Len(b.pieces)
    BY <1>0, <2>3, BoardTyping, PieceRecord
  <2>5. b.pieces[j].side = Opp(b.cur) /\ Opp(b.cur) \in {Red, Black} /\ Opp(Opp(b.cur)) = b.cur
    BY <2>3, <2>4 DEF Opp, Red, Black
  <2>6. KingPos(b, Opp(b.cur)) = q
    <3>1. PICK k \in DOMAIN b.pieces :
            \A l \in DOMAIN b.pieces :
              b.pieces[l].type = King /\ b.pieces[l].side = Opp(b.cur) <=> l = k
      BY <1>0, <2>5 DEF OneKing
    <3>2. j = k
      BY <3>1, <2>3, <2>5
    <3>3. KingPos(b, Opp(b.cur)) = b.pieces[k].pos
      BY <3>1, <1>0, KingFound
    <3> QED
      BY <3>2, <3>3, <2>3
  <2>7. WillKillOppKing(b)
    BY <2>2, <2>5, <2>6, <1>p DEF WillKillOppKing, WillKillKing
  <2> QED
    BY <2>7, <1>0
<1> QED
  BY <1>4, <1>5, <1>p DEF Beyond

(* The number 0 among the generated moves stands for staying in place. *)
LEMMA NoneIsStaying ==
  ASSUME NEW b, IsBoard(b)
  PROVE  Safe(b, None) <=> ~WillKillSelfKing(b)
PROOF
<1>1. StartOfMove(None) = 0 /\ EndOfMove(None) = 0
  BY DEF StartOfMove, EndOfMove, None
<1>2. 0 \notin DOMAIN b.at
  <2>1. DOMAIN b.at \subseteq Squares
    BY BooksTell
  <2>2. \A q \in Squares : q > 0
    BY SquareBounds
  <2> QED
    BY <2>1, <2>2
<1>3. DOMAIN b.at \ {0, 0} = DOMAIN b.at
  BY <1>2
<1>4. \A i \in DOMAIN b.pieces : i # None
  BY BoardTyping
<1>5. PICK c : c = MakeMove(b, None)
  OBVIOUS
<1>6. c = [b EXCEPT
             !.pieces = [i \in DOMAIN @ |-> @[i]],
             !.at = [q \in DOMAIN b.at |-> b.at[q]],
             !.steps = Append(@, [mv |-> None, endPiece |-> None])]
  <2>1. c = [b EXCEPT
             !.pieces = [i \in DOMAIN @ |->
                          IF i = None THEN [@[i] EXCEPT !.pos = 0, !.show = TRUE]
                          ELSE IF i = None THEN [@[i] EXCEPT !.show = FALSE] ELSE @[i]],
             !.at = [q \in DOMAIN b.at \ {0, 0} |-> b.at[q]],
             !.steps = Append(@, [mv |-> None, endPiece |-> None])]
    BY <1>1, <1>2, <1>5 DEF MakeMove, Has
  <2> QED
    BY <2>1, <1>3, <1>4
<1>7. /\ b = [pieces |-> b.pieces, at |-> b.at, cur |-> b.cur, steps |-> b.steps]
      /\ b.pieces = [i \in DOMAIN b.pieces |-> b.pieces[i]]
      /\ b.at = [q \in DOMAIN b.at |-> b.at[q]]
  BY BoardFunctions DEF IsBoard
<1>8. c.pieces = b.pieces /\ c.at = b.at /\ c.cur = b.cur
  BY <1>6, <1>7
<1>9. WillKillKing(c, b.cur) <=> WillKillKing(b, b.cur)
  BY <1>8, CheckSame
<1> QED
  BY <1>5, <1>8, <1>9 DEF Safe, WillKillSelfKing

-----------------------------------------------------------------------------
(* The two halves of a text: which man moves, and where to. *)
HeadText(b, p, down) == IF p.type = Pawn THEN PawnHead(b, p, down) ELSE PieceHead(b, p, down)
Way(p, end, down) == <<IF down = (p.pos > end) THEN "forward" ELSE "back", 0>>
Distance(p, end) == (IF p.pos > end THEN p.pos - end ELSE end - p.pos) \div 16
TailText(p, end, down) ==
  IF p.type \in {Advisor, Bishop, Knight} THEN <<Way(p, end, down), ColumnFor(down, end)>>
  ELSE IF SameRow(p.pos, end) THEN <<<<"level", 0>>, ColumnFor(down, end)>>
  ELSE <<Way(p, end, down), Number(Distance(p, end) - 1)>>

(* A text read back as its halves. *)
LEMMA TextHalves ==
  ASSUME NEW b, NEW mv, NEW p, p = PieceAt(b, StartOfMove(mv)), NEW q, q = EndOfMove(mv),
         NEW down, down = Lower(KingPos(b, p.side))
  PROVE  ToChineseMove(b, mv) = HeadText(b, p, down) \o TailText(p, q, down)
  BY DEF ToChineseMove, HeadText, TailText, Way, Distance

IsPair(h) == \E x, y : h = <<x, y>>

(* A head is two symbols. *)
LEMMA HeadIsPair ==
  ASSUME NEW b, NEW p, NEW down
  PROVE  IsPair(HeadText(b, p, down))
PROOF
<1>1. IsPair(PawnHead(b, p, down))
  BY DEF PawnHead, IsPair
<1>2. IsPair(PieceHead(b, p, down))
  BY DEF PieceHead, IsPair
<1> QED
  BY <1>1, <1>2 DEF HeadText

(* And so is a tail. *)
LEMMA TailIsPair ==
  ASSUME NEW p, NEW q, NEW down
  PROVE  IsPair(TailText(p, q, down))
  BY DEF TailText, IsPair

(* Pairs are the same that agree in both symbols. *)
LEMMA PairsSame ==
  ASSUME NEW x, NEW y, NEW u, NEW v, <<x, y>> = <<u, v>>
  PROVE  x = u /\ y = v
  OBVIOUS

Joins(h, t, c) == c = h \o t

(* Texts that are the same have the same halves. *)
LEMMA HalvesSame ==
  ASSUME NEW h, IsPair(h), NEW t, IsPair(t), NEW h2, IsPair(h2), NEW t2, IsPair(t2),
         NEW c, Joins(h, t, c), Joins(h2, t2, c)
  PROVE  h = h2 /\ t = t2
PROOF
<1>1. PICK x, y, u, v : h = <<x, y>> /\ t = <<u, v>>
  BY DEF IsPair
<1>2. PICK x2, y2, u2, v2 : h2 = <<x2, y2>> /\ t2 = <<u2, v2>>
  BY DEF IsPair
<1>3. PICK S : S = {x, y, u, v, x2, y2, u2, v2}
  OBVIOUS
<1>4. /\ h \in Seq(S) /\ Len(h) = 2 /\ h[1] = x /\ h[2] = y
      /\ t \in Seq(S) /\ Len(t) = 2 /\ t[1] = u /\ t[2] = v
  BY <1>1, <1>3
<1>5. /\ h2 \in Seq(S) /\ Len(h2) = 2 /\ h2[1] = x2 /\ h2[2] = y2
      /\ t2 \in Seq(S) /\ Len(t2) = 2 /\ t2[1] = u2 /\ t2[2] = v2
  BY <1>2, <1>3
<1>7. \A k \in 1..(Len(h) + Len(t)) : c[k] = IF k <= Len(h) THEN h[k] ELSE t[k - Len(h)]
  <2>1. \A k \in 1..(Len(h) + Len(t)) : (h \o t)[k] = IF k <= Len(h) THEN h[k] ELSE t[k - Len(h)]
    BY <1>4, ConcatProperties, Zenon
  <2> QED
    BY <2>1, Zenon DEF Joins
<1>8. \A k \in 1..(Len(h2) + Len(t2)) : c[k] = IF k <= Len(h2) THEN h2[k] ELSE t2[k - Len(h2)]
  <2>1. \A k \in 1..(Len(h2) + Len(t2)) : (h2 \o t2)[k] = IF k <= Len(h2) THEN h2[k] ELSE t2[k - Len(h2)]
    BY <1>5, ConcatProperties, Zenon
  <2> QED
    BY <2>1, Zenon DEF Joins
<1>9. c[1] = x /\ c[2] = y /\ c[3] = u /\ c[4] = v
  BY <1>4, <1>7
<1>10. c[1] = x2 /\ c[2] = y2 /\ c[3] = u2 /\ c[4] = v2
  BY <1>5, <1>8
<1> QED
  BY <1>1, <1>2, <1>9, <1>10

-----------------------------------------------------------------------------
(* The men that move along lines, and those that leap. *)
LEMMA StraightWays ==
  ASSUME NEW b, NEW p, NEW q, Goes(b, p, q), LegalMovePiece(b, p, q),
         p.type \in {King, Rook, Cannon, Pawn}
  PROVE  SameRow(p.pos, q) \/ SameCol(p.pos, q)
PROOF
<1>1. p.pos \in Squares /\ q \in Squares
  BY GoesTo
<1>2. PICK r \in 0..9, c \in 0..8 : p.pos = 16 * r + c + 51 /\ p.pos % 16 = c + 3 /\ p.pos \div 16 = r + 3
  BY <1>1, Coordinates
<1>3. PICK i \in 0..9, j \in 0..8 : q = 16 * i + j + 51 /\ q % 16 = j + 3 /\ q \div 16 = i + 3
  BY <1>1, Coordinates
<1>4. SameRow(p.pos, q) <=> r = i
  BY <1>2, <1>3 DEF SameRow
<1>5. SameCol(p.pos, q) <=> c = j
  BY <1>2, <1>3 DEF SameCol
<1>6. ASSUME q - p.pos \in KingSpan
      PROVE  r = i \/ c = j
  BY <1>2, <1>3, <1>6 DEF KingSpan
<1>7. CASE p.type = King
  BY <1>7, <1>4, <1>5, <1>6, LegalKing
<1>8. CASE p.type = Pawn
  <2>1. q - p.pos \in {-1, 1} \/ q = PieceForwardStep(b, p)
    BY <1>8, LegalPawn
  <2>2. q - p.pos \in KingSpan
    BY <2>1, <1>2, <1>3 DEF PieceForwardStep, KingSpan
  <2> QED
    BY <2>2, <1>4, <1>5, <1>6
<1>9. CASE p.type = Rook
  BY <1>9, LegalRook
<1>10. CASE p.type = Cannon
  BY <1>10, LegalCannon
<1> QED
  BY <1>7, <1>8, <1>9, <1>10

Leaps == {-34, -33, -31, -30, -18, -17, -15, -14, 14, 15, 17, 18, 30, 31, 33, 34}
LeapsOf(type) ==
  CASE type = Advisor -> AdvisorSpan
    [] type = Bishop -> BishopSpan
    [] type = Knight -> {-33, -31, -18, -14, 14, 18, 31, 33}

(* An advisor, a bishop and a knight go by one of their leaps. *)
LEMMA LeapWays ==
  ASSUME NEW b, NEW p, NEW q, Goes(b, p, q), LegalMovePiece(b, p, q),
         p.type \in {Advisor, Bishop, Knight}
  PROVE  q - p.pos \in LeapsOf(p.type)
PROOF
<1>1. p.pos \in Squares /\ q \in Squares
  BY GoesTo
<1>2. q - p.pos \in Int
  BY <1>1, SquareBounds
<1>3. CASE p.type = Advisor
  <2>1. LeapsOf(p.type) = AdvisorSpan
    BY <1>3 DEF LeapsOf, Advisor, Bishop, Knight
  <2> QED
    BY <2>1, <1>3, LegalAdvisor
<1>4. CASE p.type = Bishop
  <2>1. LeapsOf(p.type) = BishopSpan
    BY <1>4 DEF LeapsOf, Advisor, Bishop, Knight
  <2> QED
    BY <2>1, <1>4, LegalBishop
<1>5. CASE p.type = Knight
  <2>1. LeapsOf(p.type) = {-33, -31, -18, -14, 14, 18, 31, 33}
    BY <1>5 DEF LeapsOf, Advisor, Bishop, Knight
  <2>2. KnightPin(q - p.pos) # 0
    BY <1>5, LegalKnight
  <2> QED
    BY <2>1, <2>2, <1>2 DEF KnightPin
<1> QED
  BY <1>3, <1>4, <1>5

(* The direction and a column tell a leap. *)
LEMMA LeapTold ==
  ASSUME NEW type \in {Advisor, Bishop, Knight}, NEW s \in Squares, NEW q \in Squares, NEW z \in Squares,
         q - s \in LeapsOf(type), z - s \in LeapsOf(type),
         s > q <=> s > z, ColOfPos(q) = ColOfPos(z)
  PROVE  q = z
PROOF
<1>1. PICK i \in 0..9, j \in 0..8 : q = 16 * i + j + 51 /\ q % 16 = j + 3 /\ q \div 16 = i + 3
  BY Coordinates
<1>2. PICK k \in 0..9, l \in 0..8 : z = 16 * k + l + 51 /\ z % 16 = l + 3 /\ z \div 16 = k + 3
  BY Coordinates
<1>3. s \in Int
  BY SquareBounds
<1>4. j = l
  BY <1>1, <1>2 DEF ColOfPos
<1>5. q - z = 16 * (i - k)
  BY <1>1, <1>2, <1>4
<1>6. CASE type = Advisor
  <2>1. LeapsOf(type) = {-17, -15, 15, 17}
    BY <1>6 DEF LeapsOf, AdvisorSpan, Advisor, Bishop, Knight
  <2> QED
    BY <2>1, <1>1, <1>2, <1>3, <1>5
<1>7. CASE type = Bishop
  <2>1. LeapsOf(type) = {-34, -30, 30, 34}
    BY <1>7 DEF LeapsOf, BishopSpan, Advisor, Bishop, Knight
  <2> QED
    BY <2>1, <1>1, <1>2, <1>3, <1>5
<1>8. CASE type = Knight
  <2>1. LeapsOf(type) = {-33, -31, -18, -14, 14, 18, 31, 33}
    BY <1>8 DEF LeapsOf, Advisor, Bishop, Knight
  <2> QED
    BY <2>1, <1>1, <1>2, <1>3, <1>5
<1> QED
  BY <1>6, <1>7, <1>8

(* Of one man, two tails that are the same lead to the same square. *)
LEMMA TailsDiffer ==
  ASSUME NEW b, NEW p \in Piece, NEW q, Goes(b, p, q), LegalMovePiece(b, p, q),
         NEW z, Goes(b, p, z), LegalMovePiece(b, p, z), NEW down \in BOOLEAN,
         TailText(p, q, down) = TailText(p, z, down)
  PROVE  q = z
PROOF
<1>1. p.pos \in Squares /\ q \in Squares /\ z \in Squares /\ p.pos # q /\ p.pos # z
  BY GoesTo
<1>2. PICK r \in 0..9, c \in 0..8 : p.pos = 16 * r + c + 51 /\ p.pos % 16 = c + 3 /\ p.pos \div 16 = r + 3
  BY <1>1, Coordinates
<1>3. PICK i \in 0..9, j \in 0..8 : q = 16 * i + j + 51 /\ q % 16 = j + 3 /\ q \div 16 = i + 3
  BY <1>1, Coordinates
<1>4. PICK k \in 0..9, l \in 0..8 : z = 16 * k + l + 51 /\ z % 16 = l + 3 /\ z \div 16 = k + 3
  BY <1>1, Coordinates
<1>5. Way(p, q, down) = Way(p, z, down) => (p.pos > q <=> p.pos > z)
  BY <1>2, <1>3, <1>4 DEF Way
<1>6. ColumnFor(down, q) = ColumnFor(down, z) => ColOfPos(q) = ColOfPos(z)
  BY <1>3, <1>4 DEF ColumnFor, Number, ColOfPos
<1>7. CASE p.type \in {Advisor, Bishop, Knight}
  <2>1. TailText(p, q, down) = <<Way(p, q, down), ColumnFor(down, q)>>
        /\ TailText(p, z, down) = <<Way(p, z, down), ColumnFor(down, z)>>
    BY <1>7 DEF TailText
  <2>2. Way(p, q, down) = Way(p, z, down) /\ ColumnFor(down, q) = ColumnFor(down, z)
    <3>1. <<Way(p, q, down), ColumnFor(down, q)>> = <<Way(p, z, down), ColumnFor(down, z)>>
      BY <2>1
    <3> QED
      BY <3>1, PairsSame
  <2> QED
    BY <2>2, <1>1, <1>5, <1>6, <1>7, LeapWays, LeapTold
<1>8. CASE p.type \in {King, Rook, Cannon, Pawn}
  <2>1. p.type \notin {Advisor, Bishop, Knight}
    BY <1>8 DEF King, Advisor, Bishop, Knight, Rook, Cannon, Pawn
  <2>2. \A x \in {q, z} :
          TailText(p, x, down) = IF SameRow(p.pos, x) THEN <<<<"level", 0>>, ColumnFor(down, x)>>
                             ELSE <<Way(p, x, down), Number(Distance(p, x) - 1)>>
    BY <2>1 DEF TailText
  <2>3. \A x : Way(p, x, down) # <<"level", 0>>
    BY DEF Way
  <2>4. SameRow(p.pos, q) <=> SameRow(p.pos, z)
    BY <2>2, <2>3
  <2>5. CASE SameRow(p.pos, q)
    <3>1. ColumnFor(down, q) = ColumnFor(down, z)
      BY <2>2, <2>4, <2>5
    <3>2. j = l /\ i = r /\ k = r
      BY <3>1, <2>4, <2>5, <1>2, <1>3, <1>4, <1>6 DEF ColOfPos, SameRow
    <3> QED
      BY <3>2, <1>3, <1>4
  <2>6. CASE ~SameRow(p.pos, q)
    <3>1. Way(p, q, down) = Way(p, z, down) /\ Number(Distance(p, q) - 1) = Number(Distance(p, z) - 1)
      BY <2>2, <2>4, <2>6
    <3>2. SameCol(p.pos, q) /\ SameCol(p.pos, z)
      BY <2>4, <2>6, <1>8, StraightWays
    <3>3. c = j /\ c = l
      BY <3>2, <1>2, <1>3, <1>4 DEF SameCol
    <3>4. Distance(p, q) = IF r > i THEN r - i ELSE i - r
      <4>1. CASE r > i
        <5>1. p.pos > q /\ p.pos - q = 16 * (r - i)
          BY <4>1, <3>3, <1>2, <1>3
        <5>2. (16 * (r - i)) \div 16 = r - i
          BY <4>1
        <5> QED BY <5>1, <5>2, <4>1 DEF Distance
      <4>2. CASE ~(r > i)
        <5>1. ~(p.pos > q) /\ q - p.pos = 16 * (i - r)
          BY <4>2, <3>3, <1>2, <1>3
        <5>2. (16 * (i - r)) \div 16 = i - r
          BY <4>2
        <5> QED BY <5>1, <5>2, <4>2 DEF Distance
      <4> QED BY <4>1, <4>2
    <3>5. Distance(p, z) = IF r > k THEN r - k ELSE k - r
      <4>1. CASE r > k
        <5>1. p.pos > z /\ p.pos - z = 16 * (r - k)
          BY <4>1, <3>3, <1>2, <1>4
        <5>2. (16 * (r - k)) \div 16 = r - k
          BY <4>1
        <5> QED BY <5>1, <5>2, <4>1 DEF Distance
      <4>2. CASE ~(r > k)
        <5>1. ~(p.pos > z) /\ z - p.pos = 16 * (k - r)
          BY <4>2, <3>3, <1>2, <1>4
        <5>2. (16 * (k - r)) \div 16 = k - r
          BY <4>2
        <5> QED BY <5>1, <5>2, <4>2 DEF Distance
      <4> QED BY <4>1, <4>2
    <3>6. Distance(p, q) = Distance(p, z)
      <4>1. Distance(p, q) - 1 = Distance(p, z) - 1
        BY <3>1 DEF Number
      <4> QED
        BY <4>1, <3>4, <3>5
    <3>7. r > i <=> r > k
      BY <3>1, <3>3, <1>2, <1>3, <1>4, <1>5
    <3> QED
      BY <3>3, <3>4, <3>5, <3>6, <3>7, <1>3, <1>4
  <2> QED
    BY <2>5, <2>6
<1> QED
  BY <1>7, <1>8, PieceTypes DEF Types

-----------------------------------------------------------------------------
(* What a head looks like: a name and a column, or a place and what tells  *)
(* the man there.  A place is no name.                                     *)
LEMMA PlaceIsNoName ==
  ASSUME NEW size, NEW rank, NEW type
  PROVE  Place(size, rank) # Name(type)
  BY DEF Place, Name

(* A column is no name of a man. *)
LEMMA NumberIsNoName ==
  ASSUME NEW n, NEW type
  PROVE  Number(n) # Name(type)
  BY DEF Number, Name

(* Kinds of the same name are the same. *)
LEMMA NamesDiffer ==
  ASSUME NEW s, NEW t, Name(s) = Name(t)
  PROVE  s = t
  BY DEF Name

(* Heads of men of different kinds differ. *)
LEMMA KindTold ==
  ASSUME NEW b, NEW p \in Piece, NEW p2 \in Piece, NEW down,
         HeadText(b, p, down) = HeadText(b, p2, down)
  PROVE  p.type = p2.type
PROOF
<1>0. PICK x, y : HeadText(b, p, down) = <<x, y>>
  BY HeadIsPair DEF IsPair
<1>1. ASSUME NEW r \in Piece, HeadText(b, r, down) = <<x, y>>
      PROVE  \/ x = Name(r.type)
             \/ /\ \E n, k : x = Place(n, k)
                /\ y = Name(r.type) \/ (r.type = Pawn /\ \E n : y = Number(n))
  <2>1. CASE r.type = Pawn
    <3>1. HeadText(b, r, down) = PawnHead(b, r, down)
      BY <2>1 DEF HeadText
    <3>2. \/ \E v : PawnHead(b, r, down) = <<Name(Pawn), v>>
          \/ \E n, k : PawnHead(b, r, down) = <<Place(n, k), Name(Pawn)>>
          \/ \E n, k, v : PawnHead(b, r, down) = <<Place(n, k), ColumnFor(down, v)>>
      BY DEF PawnHead
    <3>3. CASE \E v : PawnHead(b, r, down) = <<Name(Pawn), v>>
      <4>1. PICK v : <<x, y>> = <<Name(Pawn), v>>
        BY <3>1, <3>3, <1>1
      <4>2. x = Name(Pawn)
        BY <4>1
      <4> QED
        BY <4>2, <2>1
    <3>4. CASE \E n, k : PawnHead(b, r, down) = <<Place(n, k), Name(Pawn)>>
      <4>1. PICK n, k : <<x, y>> = <<Place(n, k), Name(Pawn)>>
        BY <3>1, <3>4, <1>1
      <4>2. x = Place(n, k) /\ y = Name(Pawn)
        BY <4>1
      <4> QED
        BY <4>2, <2>1
    <3>5. CASE \E n, k, v : PawnHead(b, r, down) = <<Place(n, k), ColumnFor(down, v)>>
      <4>1. PICK n, k, v : <<x, y>> = <<Place(n, k), ColumnFor(down, v)>>
        BY <3>1, <3>5, <1>1
      <4>2. x = Place(n, k) /\ y = ColumnFor(down, v)
        BY <4>1, PairsSame
      <4> QED
        BY <4>2, <2>1 DEF ColumnFor
    <3> QED
      BY <3>2, <3>3, <3>4, <3>5
  <2>2. CASE r.type # Pawn
    <3>1. HeadText(b, r, down) = PieceHead(b, r, down)
      BY <2>2 DEF HeadText
    <3>2. \/ \E v : PieceHead(b, r, down) = <<Name(r.type), v>>
          \/ \E n, k : PieceHead(b, r, down) = <<Place(n, k), Name(r.type)>>
      BY DEF PieceHead
    <3>3. CASE \E v : PieceHead(b, r, down) = <<Name(r.type), v>>
      <4>1. PICK v : <<x, y>> = <<Name(r.type), v>>
        BY <3>1, <3>3, <1>1
      <4>2. x = Name(r.type)
        BY <4>1
      <4> QED
        BY <4>2
    <3>4. CASE \E n, k : PieceHead(b, r, down) = <<Place(n, k), Name(r.type)>>
      <4>1. PICK n, k : <<x, y>> = <<Place(n, k), Name(r.type)>>
        BY <3>1, <3>4, <1>1
      <4>2. x = Place(n, k) /\ y = Name(r.type)
        BY <4>1
      <4> QED
        BY <4>2
    <3> QED
      BY <3>2, <3>3, <3>4
  <2> QED
    BY <2>1, <2>2
<1>2. \A n, k, t : Place(n, k) # Name(t) /\ Number(n) # Name(t)
  BY PlaceIsNoName, NumberIsNoName
<1>3. \A t, u : Name(t) = Name(u) => t = u
  BY NamesDiffer
<1>4. HeadText(b, p2, down) = <<x, y>>
  BY <1>0
<1> QED
  BY <1>0, <1>1, <1>2, <1>3, <1>4

-----------------------------------------------------------------------------
(* The men of a kind that stand. *)
Standing(b, side, type) == {i \in Shown(b, side) : b.pieces[i].type = type}

(* The others of its kind that the text of a man's move looks at are those *)
(* that stand, without the man.                                            *)
LEMMA OthersStand ==
  ASSUME NEW b, IsBoard(b), NEW side, NEW i \in Shown(b, side), NEW p, p = b.pieces[i]
  PROVE  /\ Others(b, p) = Standing(b, side, p.type) \ {i}
         /\ i \in Standing(b, side, p.type)
PROOF
<1>1. p.side = side /\ i \in DOMAIN b.pieces /\ p.show
  BY BoardTyping DEF Shown
<1>s. \A j \in Shown(b, side) : j \in DOMAIN b.pieces /\ b.pieces[j].show
  BY BoardTyping DEF Shown
<1>2. \A j \in Shown(b, side) : j \in DOMAIN b.pieces /\ b.at[b.pieces[j].pos] = j
  BY <1>s, BooksTell
<1>3. \A j \in Shown(b, side) : b.pieces[j].pos # p.pos <=> j # i
  BY <1>2
<1> QED
  BY <1>1, <1>3 DEF Others, Standing

(* There are no more of them than a side began with. *)
LEMMA StandingFew ==
  ASSUME NEW b, IsBoard(b), Mustered(b), NEW side \in {Red, Black}, NEW type
  PROVE  /\ IsFiniteSet(Standing(b, side, type))
         /\ type = Pawn => Cardinality(Standing(b, side, type)) <= 5
         /\ type \in Advisor..Cannon => Cardinality(Standing(b, side, type)) <= 2
         /\ Cardinality(Standing(b, side, type)) \in Nat
PROOF
<1>1. Standing(b, side, type) \subseteq OfKind(b, side, type)
  BY BoardTyping DEF Standing, Shown, OfKind
<1>2. IsFiniteSet(OfKind(b, side, type))
  <2>1. OfKind(b, side, type) \subseteq 1..Len(b.pieces)
    BY BoardTyping DEF OfKind
  <2>2. Len(b.pieces) \in Nat
    BY BoardTyping
  <2>3. PICK n \in Nat : n = Len(b.pieces)
    BY <2>2
  <2>4. IsFiniteSet(1..n)
    BY FS_Interval
  <2> QED
    BY <2>1, <2>3, <2>4, FS_Subset
<1>3. IsFiniteSet(Standing(b, side, type))
      /\ Cardinality(Standing(b, side, type)) <= Cardinality(OfKind(b, side, type))
  BY <1>1, <1>2, FS_Subset
<1>4. Cardinality(Standing(b, side, type)) \in Nat /\ Cardinality(OfKind(b, side, type)) \in Nat
  BY <1>2, <1>3, FS_CardinalityType
<1>5. /\ type = Pawn => Cardinality(OfKind(b, side, type)) <= 5
      /\ type \in Advisor..Cannon => Cardinality(OfKind(b, side, type)) <= 2
  BY DEF Mustered
<1> QED
  BY <1>3, <1>4, <1>5

(* The column of a man, to one side or the other, tells its column. *)
LEMMA ColumnTold ==
  ASSUME NEW p \in Squares, NEW q \in Squares, NEW down, ColumnFor(down, p) = ColumnFor(down, q)
  PROVE  SameCol(p, q)
PROOF
<1>1. PICK r \in 0..9, c \in 0..8 : p = 16 * r + c + 51 /\ p % 16 = c + 3 /\ p \div 16 = r + 3
  BY Coordinates
<1>2. PICK i \in 0..9, j \in 0..8 : q = 16 * i + j + 51 /\ q % 16 = j + 3 /\ q \div 16 = i + 3
  BY Coordinates
<1>3. ColOfPos(p) = c /\ ColOfPos(q) = j
  BY <1>1, <1>2 DEF ColOfPos
<1>4. (IF down THEN 8 - c ELSE c) = (IF down THEN 8 - j ELSE j)
  BY <1>3 DEF ColumnFor, Number
<1> QED
  BY <1>1, <1>2, <1>4 DEF SameCol

(* Of two men of a kind that comes in pairs. *)
LEMMA TwinsTold ==
  ASSUME NEW b, IsBoard(b), Mustered(b), NEW side \in {Red, Black},
         NEW i \in Shown(b, side), NEW j \in Shown(b, side), i # j,
         NEW p, p = b.pieces[i], NEW r, r = b.pieces[j], p.type = r.type, p.type \in Advisor..Cannon,
         NEW down \in BOOLEAN
  PROVE  PieceHead(b, p, down) # PieceHead(b, r, down)
PROOF
<1>1. PICK S : S = Standing(b, side, p.type)
  OBVIOUS
<1>2. i \in S /\ j \in S /\ Others(b, p) = S \ {i} /\ Others(b, r) = S \ {j}
  BY <1>1, OthersStand
<1>3. IsFiniteSet(S) /\ Cardinality(S) <= 2 /\ Cardinality(S) \in Nat
  BY <1>1, StandingFew
<1>4. S = {i, j}
  <2>1. Cardinality({i, j}) = 2
    <3>1. IsFiniteSet({i}) /\ Cardinality({i}) = 1
      BY FS_Singleton
    <3>2. {i, j} = {i} \cup {j} /\ j \notin {i} /\ 1 + 1 = 2
      OBVIOUS
    <3> QED
      BY <3>1, <3>2, FS_AddElement, Zenon
  <2>2. {i, j} \in SUBSET S
    BY <1>2
  <2>3. Cardinality({i, j}) <= Cardinality(S) /\ (Cardinality(S) = Cardinality({i, j}) => S = {i, j})
    BY <2>2, <1>3, FS_Subset
  <2> QED
    BY <2>1, <2>3, <1>3
<1>5. Others(b, p) = {j} /\ Others(b, r) = {i}
  BY <1>2, <1>4
<1>6. \A x \in Nat : Min({x}) = x
  BY DEF Min
<1>7. i \in Nat /\ j \in Nat
  BY DEF Shown
<1>8. b.pieces[Min(Others(b, p))] = r /\ b.pieces[Min(Others(b, r))] = p
  BY <1>5, <1>6, <1>7
<1>9. p.pos \in Squares /\ r.pos \in Squares /\ p.pos # r.pos
  <2>s. \A k \in Shown(b, side) : k \in DOMAIN b.pieces /\ b.pieces[k].show
    BY BoardTyping DEF Shown
  <2>1. b.at[p.pos] = i /\ b.at[r.pos] = j
    BY <2>s, BooksTell
  <2> QED
    BY <2>1, ShownGoes
<1>10. SameCol(p.pos, r.pos) <=> SameCol(r.pos, p.pos)
  BY DEF SameCol
<1>11. CASE SameCol(p.pos, r.pos)
  <2>1. PieceHead(b, p, down) = <<Place(2, IF down = (p.pos > r.pos) THEN 1 ELSE 0), Name(p.type)>>
    BY <1>5, <1>8, <1>10, <1>11 DEF PieceHead
  <2>2. PieceHead(b, r, down) = <<Place(2, IF down = (r.pos > p.pos) THEN 1 ELSE 0), Name(r.type)>>
    BY <1>5, <1>8, <1>10, <1>11 DEF PieceHead
  <2>3. Place(2, 0) # Place(2, 1)
    BY DEF Place
  <2>4. (p.pos > r.pos) <=> ~(r.pos > p.pos)
    BY <1>9, SquareBounds
  <2>5. Place(2, IF down = (p.pos > r.pos) THEN 1 ELSE 0) # Place(2, IF down = (r.pos > p.pos) THEN 1 ELSE 0)
    BY <2>3, <2>4
  <2>6. ASSUME PieceHead(b, p, down) = PieceHead(b, r, down)
        PROVE  FALSE
    <3>1. <<Place(2, IF down = (p.pos > r.pos) THEN 1 ELSE 0), Name(p.type)>>
            = <<Place(2, IF down = (r.pos > p.pos) THEN 1 ELSE 0), Name(r.type)>>
      BY <2>1, <2>2, <2>6
    <3> QED
      BY <3>1, <2>5, PairsSame
  <2> QED
    BY <2>6
<1>12. CASE ~SameCol(p.pos, r.pos)
  <2>1. PieceHead(b, p, down) = <<Name(p.type), ColumnFor(down, p.pos)>>
    BY <1>5, <1>8, <1>10, <1>12 DEF PieceHead
  <2>2. PieceHead(b, r, down) = <<Name(r.type), ColumnFor(down, r.pos)>>
    BY <1>5, <1>8, <1>10, <1>12 DEF PieceHead
  <2>3. ColumnFor(down, p.pos) # ColumnFor(down, r.pos)
    BY <1>9, <1>12, ColumnTold
  <2>6. ASSUME PieceHead(b, p, down) = PieceHead(b, r, down)
        PROVE  FALSE
    <3>1. <<Name(p.type), ColumnFor(down, p.pos)>> = <<Name(r.type), ColumnFor(down, r.pos)>>
      BY <2>1, <2>2, <2>6
    <3> QED
      BY <3>1, <2>3, PairsSame
  <2> QED
    BY <2>6
<1> QED
  BY <1>11, <1>12

-----------------------------------------------------------------------------
(* The pawns of a man's column, and how many of them stand above it. *)
InColumn(b, S, i) == {x \in S : SameCol(b.pieces[x].pos, b.pieces[i].pos)}
Above(b, C, i) == {x \in C : b.pieces[x].pos < b.pieces[i].pos}
RankOf(b, C, i, down) ==
  IF down THEN Cardinality(Above(b, C, i)) ELSE Cardinality(C) - 1 - Cardinality(Above(b, C, i))

(* Pawns of one column have different ranks in it, from 0 on. *)
LEMMA RanksDiffer ==
  ASSUME NEW b, NEW C, IsFiniteSet(C), NEW i \in C, NEW j \in C,
         \A x \in C : b.pieces[x].pos \in Int, b.pieces[i].pos < b.pieces[j].pos,
         NEW down \in BOOLEAN
  PROVE  /\ RankOf(b, C, i, down) # RankOf(b, C, j, down)
         /\ RankOf(b, C, i, down) \in 0..(Cardinality(C) - 1)
         /\ RankOf(b, C, j, down) \in 0..(Cardinality(C) - 1)
PROOF
<1> DEFINE A == Above(b, C, i)
<1> DEFINE B == Above(b, C, j)
<1>1. A \in SUBSET B /\ i \in B /\ i \notin A
  BY DEF Above
<1>2. B \in SUBSET (C \ {j})
  BY DEF Above
<1> HIDE DEF A, B
<1>3. IsFiniteSet(C \ {j}) /\ Cardinality(C \ {j}) = Cardinality(C) - 1
  BY FS_RemoveElement
<1>4. IsFiniteSet(B) /\ Cardinality(B) <= Cardinality(C \ {j})
  BY <1>2, <1>3, FS_Subset
<1>5. IsFiniteSet(A) /\ Cardinality(A) <= Cardinality(B) /\ (Cardinality(B) = Cardinality(A) => B = A)
  BY <1>1, <1>4, FS_Subset
<1>6. Cardinality(A) \in Nat /\ Cardinality(B) \in Nat /\ Cardinality(C) \in Nat
  BY <1>4, <1>5, FS_CardinalityType
<1>7. Cardinality(A) < Cardinality(B) /\ Cardinality(B) <= Cardinality(C) - 1
  BY <1>1, <1>3, <1>4, <1>5, <1>6
<1> QED
  BY <1>6, <1>7 DEF RankOf, A, B

(* Among up to five men of a column, places tell ranks. *)
LEMMA PlacesTold ==
  ASSUME NEW n \in 2..5, NEW k \in 0..(n - 1), NEW l \in 0..(n - 1), Place(n, k) = Place(n, l)
  PROVE  k = l
PROOF
<1>1. \A m : <<"front", 0>> # <<"rear", 0>> /\ <<"middle", m>> # <<"front", 0>> /\ <<"middle", m>> # <<"rear", 0>>
  OBVIOUS
<1>2. \A m \in 0..(n - 1) :
        Place(n, m) = IF m = 0 THEN <<"front", 0>>
                      ELSE IF m = n - 1 THEN <<"rear", 0>>
                      ELSE <<"middle", IF n = 3 THEN 0 ELSE m>>
  BY DEF Place
<1>3. CASE k = 0 \/ k = n - 1 \/ l = 0 \/ l = n - 1
  BY <1>1, <1>2, <1>3
<1>4. CASE ~(k = 0 \/ k = n - 1 \/ l = 0 \/ l = n - 1)
  <2>1. <<"middle", IF n = 3 THEN 0 ELSE k>> = <<"middle", IF n = 3 THEN 0 ELSE l>>
    BY <1>2, <1>4
  <2>2. (IF n = 3 THEN 0 ELSE k) = (IF n = 3 THEN 0 ELSE l)
    BY <2>1
  <2> QED
    BY <2>2, <1>4
<1> QED
  BY <1>3, <1>4

PawnSays(down, crowded, pos, n, rank) ==
  IF n = 1 THEN <<Name(Pawn), ColumnFor(down, pos)>>
  ELSE <<Place(n, rank),
         IF crowded /\ ~(n = 3 /\ rank = 1) THEN ColumnFor(down, pos) ELSE Name(Pawn)>>
Crowded(b, S, C) == \E x, y \in S \ C : x # y /\ SameCol(b.pieces[x].pos, b.pieces[y].pos)

(* The head of a pawn, from the pawns that stand and those of its column. *)
LEMMA PawnHeadReads ==
  ASSUME NEW b, IsBoard(b), NEW side, NEW i \in Shown(b, side), NEW p, p = b.pieces[i],
         p.type = Pawn, NEW down,
         NEW S, S = Standing(b, side, Pawn), IsFiniteSet(S), NEW C, C = InColumn(b, S, i)
  PROVE  PawnHead(b, p, down) =
           PawnSays(down, Crowded(b, S, C), p.pos, Cardinality(C), RankOf(b, C, i, down))
PROOF
<1>1. Others(b, p) = S \ {i} /\ i \in S
  BY OthersStand
<1>2. i \in C
  BY <1>1 DEF InColumn, SameCol
<1>3. PICK same : same = {x \in Others(b, p) : SameCol(b.pieces[x].pos, p.pos)}
  OBVIOUS
<1>4. same = C \ {i}
  BY <1>1, <1>3 DEF InColumn
<1>5. IsFiniteSet(C)
  BY FS_Subset DEF InColumn
<1>6. IsFiniteSet(same) /\ Cardinality(same) = Cardinality(C) - 1 /\ Cardinality(C) \in Nat
  BY <1>2, <1>4, <1>5, FS_RemoveElement, FS_CardinalityType
<1>7. {x \in same : b.pieces[x].pos < p.pos} = Above(b, C, i)
  <2>1. ~(p.pos < p.pos)
    <3>1. p.pos \in Squares
      BY ShownGoes
    <3> QED
      BY <3>1, SquareBounds
  <2> QED
    BY <2>1, <1>4 DEF Above
<1>8. Others(b, p) \ same = S \ C
  BY <1>1, <1>2, <1>4
<1>9. same = {} <=> Cardinality(C) = 1
  <2>1. Cardinality(same) = 0 <=> same = {}
    BY <1>6, FS_EmptySet
  <2> QED
    BY <2>1, <1>6
<1>10. Cardinality(same) + 1 = Cardinality(C) /\ (Cardinality(same) = 2 <=> Cardinality(C) = 3)
  BY <1>6
<1>11. PICK rank : rank = RankOf(b, C, i, down)
  OBVIOUS
<1>12. (IF down THEN Cardinality({x \in same : b.pieces[x].pos < p.pos})
        ELSE Cardinality(same) - Cardinality({x \in same : b.pieces[x].pos < p.pos})) = rank
  BY <1>6, <1>7, <1>11 DEF RankOf
<1>13. PICK crowded \in BOOLEAN : crowded <=> Crowded(b, S, C)
  OBVIOUS
<1>14. (\E x, y \in Others(b, p) \ same : x # y /\ SameCol(b.pieces[x].pos, b.pieces[y].pos)) <=> crowded
  BY <1>8, <1>13 DEF Crowded
<1>15. PawnHead(b, p, down) =
         IF same = {} THEN <<Name(Pawn), ColumnFor(down, p.pos)>>
         ELSE <<Place(Cardinality(same) + 1, rank),
                IF crowded /\ ~(Cardinality(same) = 2 /\ rank = 1)
                THEN ColumnFor(down, p.pos) ELSE Name(Pawn)>>
  BY <1>3, <1>12, <1>14 DEF PawnHead
<1> QED
  BY <1>9, <1>10, <1>11, <1>13, <1>15 DEF PawnSays

(* Of two pawns of a column. *)
LEMMA ColumnPawnsTold ==
  ASSUME NEW b, NEW C, IsFiniteSet(C), Cardinality(C) <= 5, NEW i \in C, NEW j \in C, i # j,
         \A x \in C : b.pieces[x].pos \in Int, b.pieces[i].pos # b.pieces[j].pos,
         NEW down \in BOOLEAN, NEW k1, NEW k2, NEW p1, NEW p2
  PROVE  PawnSays(down, k1, p1, Cardinality(C), RankOf(b, C, i, down))
           # PawnSays(down, k2, p2, Cardinality(C), RankOf(b, C, j, down))
PROOF
<1>1. b.pieces[i].pos < b.pieces[j].pos \/ b.pieces[j].pos < b.pieces[i].pos
  OBVIOUS
<1>2. /\ RankOf(b, C, i, down) # RankOf(b, C, j, down)
      /\ RankOf(b, C, i, down) \in 0..(Cardinality(C) - 1)
      /\ RankOf(b, C, j, down) \in 0..(Cardinality(C) - 1)
  BY <1>1, RanksDiffer
<1>3. PICK n, k, l : n = Cardinality(C) /\ k = RankOf(b, C, i, down) /\ l = RankOf(b, C, j, down)
  OBVIOUS
<1>4. n \in Nat
  BY <1>3, FS_CardinalityType
<1>5. n \in 2..5 /\ n # 1
  BY <1>2, <1>3, <1>4
<1>6. Place(n, k) # Place(n, l)
  BY <1>2, <1>3, <1>5, PlacesTold
<1>7. /\ \E y : PawnSays(down, k1, p1, n, k) = <<Place(n, k), y>>
      /\ \E y : PawnSays(down, k2, p2, n, l) = <<Place(n, l), y>>
  BY <1>5 DEF PawnSays
<1>8. PICK y, z : /\ PawnSays(down, k1, p1, n, k) = <<Place(n, k), y>>
                  /\ PawnSays(down, k2, p2, n, l) = <<Place(n, l), z>>
  BY <1>7
<1>9. <<Place(n, k), y>> # <<Place(n, l), z>>
  BY <1>6, PairsSame
<1> QED
  BY <1>3, <1>8, <1>9

(* Two columns of pawns share no pawn, and together have no more than five *)
LEMMA ColumnsApart ==
  ASSUME NEW b, NEW S, IsFiniteSet(S), Cardinality(S) <= 5, NEW i \in S, NEW j \in S,
         ~SameCol(b.pieces[i].pos, b.pieces[j].pos)
  PROVE  /\ IsFiniteSet(InColumn(b, S, i)) /\ IsFiniteSet(InColumn(b, S, j))
         /\ InColumn(b, S, j) \subseteq S \ InColumn(b, S, i)
         /\ Cardinality(InColumn(b, S, i)) + Cardinality(InColumn(b, S, j)) <= 5
         /\ Cardinality(InColumn(b, S, i)) \in Nat \ {0} /\ Cardinality(InColumn(b, S, j)) \in Nat \ {0}
PROOF
<1> DEFINE C == InColumn(b, S, i)
<1> DEFINE D == InColumn(b, S, j)
<1>1. C \in SUBSET S /\ D \in SUBSET S /\ C \cap D = {} /\ i \in C /\ j \in D
  BY DEF InColumn, SameCol
<1> HIDE DEF C, D
<1>2. IsFiniteSet(C) /\ IsFiniteSet(D)
  BY <1>1, FS_Subset
<1>3. Cardinality(C \cup D) = Cardinality(C) + Cardinality(D) - Cardinality(C \cap D)
  BY <1>2, FS_Union
<1>4. Cardinality(C \cap D) = 0
  BY <1>1, FS_EmptySet
<1>5. Cardinality(C) \in Nat /\ Cardinality(D) \in Nat /\ Cardinality(S) \in Nat
  BY <1>2, FS_CardinalityType
<1>6. Cardinality(C \cup D) <= Cardinality(S)
  <2>1. C \cup D \in SUBSET S
    BY <1>1
  <2> QED
    BY <2>1, FS_Subset
<1>7. Cardinality(C) # 0 /\ Cardinality(D) # 0
  BY <1>1, <1>2, FS_EmptySet
<1>8. Cardinality(C) + Cardinality(D) <= 5
  BY <1>3, <1>4, <1>5, <1>6
<1>9. D \subseteq S \ C
  BY <1>1
<1> QED
  BY <1>2, <1>5, <1>7, <1>8, <1>9 DEF C, D

(* A column with two pawns crowds the others. *)
LEMMA ColumnCrowds ==
  ASSUME NEW b, NEW S, NEW C, NEW j \in S, IsFiniteSet(InColumn(b, S, j)),
         InColumn(b, S, j) \subseteq S \ C, Cardinality(InColumn(b, S, j)) \in Nat \ {0, 1}
  PROVE  Crowded(b, S, C)
PROOF
<1> DEFINE D == InColumn(b, S, j)
<1>1. j \in D
  BY DEF InColumn, SameCol
<1>2. \E x \in D : x # j
  <2> SUFFICES ASSUME D = {j} PROVE FALSE
    BY <1>1
  <2>1. Cardinality({j}) = 1
    BY FS_Singleton
  <2> QED
    BY <2>1
<1>3. PICK x \in D : x # j
  BY <1>2
<1>4. SameCol(b.pieces[x].pos, b.pieces[j].pos)
  BY <1>3 DEF InColumn
<1> QED
  BY <1>1, <1>3, <1>4 DEF Crowded

(* Of two pawns of two columns. *)
LEMMA ColumnsTold ==
  ASSUME NEW down, NEW c1, NEW c2, NEW p1 \in Squares, NEW p2 \in Squares, ~SameCol(p1, p2),
         NEW n1 \in Nat \ {0}, NEW n2 \in Nat \ {0}, n1 + n2 <= 5, NEW k1, NEW k2,
         n1 # 1 /\ n2 # 1 => c1 /\ c2
  PROVE  PawnSays(down, c1, p1, n1, k1) # PawnSays(down, c2, p2, n2, k2)
PROOF
<1> SUFFICES ASSUME PawnSays(down, c1, p1, n1, k1) = PawnSays(down, c2, p2, n2, k2)
             PROVE  FALSE
  OBVIOUS
<1>1. ColumnFor(down, p1) # ColumnFor(down, p2)
  BY ColumnTold
<1>2. \A n, k : Place(n, k) # Name(Pawn)
  BY PlaceIsNoName
<1>3. ColumnFor(down, p1) # Name(Pawn) /\ ColumnFor(down, p2) # Name(Pawn)
  BY NumberIsNoName DEF ColumnFor
<1>4. n1 = 1 => PawnSays(down, c1, p1, n1, k1) = <<Name(Pawn), ColumnFor(down, p1)>>
  BY DEF PawnSays
<1>5. n2 = 1 => PawnSays(down, c2, p2, n2, k2) = <<Name(Pawn), ColumnFor(down, p2)>>
  BY DEF PawnSays
<1>6. n1 # 1 => \E y : PawnSays(down, c1, p1, n1, k1) = <<Place(n1, k1), y>>
  BY DEF PawnSays
<1>7. n2 # 1 => \E y : PawnSays(down, c2, p2, n2, k2) = <<Place(n2, k2), y>>
  BY DEF PawnSays
<1>8. CASE n1 = 1 /\ n2 = 1
  <2>1. <<Name(Pawn), ColumnFor(down, p1)>> = <<Name(Pawn), ColumnFor(down, p2)>>
    BY <1>4, <1>5, <1>8
  <2> QED
    BY <2>1, <1>1, PairsSame
<1>9. CASE n1 = 1 /\ n2 # 1
  <2>1. PICK y : <<Name(Pawn), ColumnFor(down, p1)>> = <<Place(n2, k2), y>>
    BY <1>4, <1>7, <1>9
  <2>2. Name(Pawn) = Place(n2, k2)
    BY <2>1
  <2> QED
    BY <2>2, <1>2
<1>10. CASE n1 # 1 /\ n2 = 1
  <2>1. PICK y : <<Place(n1, k1), y>> = <<Name(Pawn), ColumnFor(down, p2)>>
    BY <1>5, <1>6, <1>10
  <2>2. Name(Pawn) = Place(n1, k1)
    BY <2>1
  <2> QED
    BY <2>2, <1>2
<1>11. CASE n1 # 1 /\ n2 # 1
  <2>1. /\ PawnSays(down, c1, p1, n1, k1)
             = <<Place(n1, k1), IF ~(n1 = 3 /\ k1 = 1) THEN ColumnFor(down, p1) ELSE Name(Pawn)>>
        /\ PawnSays(down, c2, p2, n2, k2)
             = <<Place(n2, k2), IF ~(n2 = 3 /\ k2 = 1) THEN ColumnFor(down, p2) ELSE Name(Pawn)>>
    BY <1>11 DEF PawnSays
  <2>2. PICK y, z : /\ y = IF ~(n1 = 3 /\ k1 = 1) THEN ColumnFor(down, p1) ELSE Name(Pawn)
                    /\ z = IF ~(n2 = 3 /\ k2 = 1) THEN ColumnFor(down, p2) ELSE Name(Pawn)
    OBVIOUS
  <2>3. <<Place(n1, k1), y>> = <<Place(n2, k2), z>>
    BY <2>1, <2>2
  <2>4. y = z
    BY <2>3
  <2>5. ~(n1 = 3 /\ n2 = 3)
    OBVIOUS
  <2> QED
    BY <2>2, <2>4, <2>5, <1>1, <1>3
<1> QED
  BY <1>8, <1>9, <1>10, <1>11

(* Of any two pawns of a side. *)
LEMMA PawnsTold ==
  ASSUME NEW b, IsBoard(b), Mustered(b), NEW side \in {Red, Black},
         NEW i \in Shown(b, side), NEW j \in Shown(b, side), i # j,
         NEW p, p = b.pieces[i], NEW r, r = b.pieces[j], p.type = Pawn, r.type = Pawn,
         NEW down \in BOOLEAN
  PROVE  PawnHead(b, p, down) # PawnHead(b, r, down)
PROOF
<1>1. PICK S : S = Standing(b, side, Pawn)
  OBVIOUS
<1>2. IsFiniteSet(S) /\ Cardinality(S) <= 5 /\ i \in S /\ j \in S
  BY <1>1, StandingFew, OthersStand
<1>3. PICK C, D : C = InColumn(b, S, i) /\ D = InColumn(b, S, j)
  OBVIOUS
<1>4. PawnHead(b, p, down) = PawnSays(down, Crowded(b, S, C), p.pos, Cardinality(C), RankOf(b, C, i, down))
  BY <1>1, <1>2, <1>3, PawnHeadReads
<1>5. PawnHead(b, r, down) = PawnSays(down, Crowded(b, S, D), r.pos, Cardinality(D), RankOf(b, D, j, down))
  BY <1>1, <1>2, <1>3, PawnHeadReads
<1>6. p.pos \in Squares /\ r.pos \in Squares /\ p.pos # r.pos
  <2>1. \A k \in Shown(b, side) : k \in DOMAIN b.pieces /\ b.pieces[k].show
    BY BoardTyping DEF Shown
  <2>2. b.at[p.pos] = i /\ b.at[r.pos] = j
    BY <2>1, BooksTell
  <2> QED
    BY <2>2, ShownGoes
<1>7. CASE SameCol(p.pos, r.pos)
  <2>1. C = D /\ i \in C /\ j \in C /\ C \in SUBSET S
    BY <1>2, <1>3, <1>7 DEF InColumn, SameCol
  <2>2. IsFiniteSet(C) /\ Cardinality(C) <= Cardinality(S)
    BY <2>1, <1>2, FS_Subset
  <2>3. Cardinality(C) <= 5
    BY <2>2, <1>2, FS_CardinalityType
  <2>4. \A x \in C : b.pieces[x].pos \in Int
    <3>1. \A x \in C : x \in Shown(b, side)
      BY <2>1, <1>1 DEF Standing
    <3>2. \A x \in C : b.pieces[x].pos \in Squares
      BY <3>1, ShownGoes
    <3> QED
      BY <3>2, SquareBounds
  <2> QED
    BY <2>1, <2>2, <2>3, <2>4, <1>4, <1>5, <1>6, ColumnPawnsTold
<1>8. CASE ~SameCol(p.pos, r.pos)
  <2>0. ~SameCol(r.pos, p.pos)
    BY <1>8 DEF SameCol
  <2>1. /\ IsFiniteSet(C) /\ IsFiniteSet(D) /\ D \subseteq S \ C
        /\ Cardinality(C) + Cardinality(D) <= 5
        /\ Cardinality(C) \in Nat \ {0} /\ Cardinality(D) \in Nat \ {0}
    BY <1>2, <1>3, <1>8, ColumnsApart
  <2>2. C \subseteq S \ D
    BY <1>2, <1>3, <2>0, ColumnsApart
  <2>3. ASSUME Cardinality(C) # 1, Cardinality(D) # 1
        PROVE  Crowded(b, S, C) /\ Crowded(b, S, D)
    <3>1. Crowded(b, S, C)
      BY <2>1, <2>3, <1>2, <1>3, ColumnCrowds
    <3>2. Crowded(b, S, D)
      BY <2>1, <2>2, <2>3, <1>2, <1>3, ColumnCrowds
    <3> QED
      BY <3>1, <3>2
  <2>4. PICK c1, c2 \in BOOLEAN : (c1 <=> Crowded(b, S, C)) /\ (c2 <=> Crowded(b, S, D))
    OBVIOUS
  <2>5. PICK n1, n2 : n1 = Cardinality(C) /\ n2 = Cardinality(D)
    OBVIOUS
  <2>6. PawnSays(down, c1, p.pos, n1, RankOf(b, C, i, down)) # PawnSays(down, c2, r.pos, n2, RankOf(b, D, j, down))
    BY <2>1, <2>3, <2>4, <2>5, <1>6, <1>8, ColumnsTold
  <2>7. /\ PawnSays(down, Crowded(b, S, C), p.pos, n1, RankOf(b, C, i, down))
             = PawnSays(down, c1, p.pos, n1, RankOf(b, C, i, down))
        /\ PawnSays(down, Crowded(b, S, D), r.pos, n2, RankOf(b, D, j, down))
             = PawnSays(down, c2, r.pos, n2, RankOf(b, D, j, down))
    BY <2>4 DEF PawnSays
  <2> QED
    BY <2>5, <2>6, <2>7, <1>4, <1>5
<1> QED
  BY <1>7, <1>8

(* Of any two men of a side, the heads differ. *)
LEMMA HeadsDiffer ==
  ASSUME NEW b, InPlay(b), Mustered(b), NEW side \in {Red, Black},
         NEW i \in Shown(b, side), NEW j \in Shown(b, side),
         NEW p, p = b.pieces[i], NEW r, r = b.pieces[j], NEW down \in BOOLEAN,
         HeadText(b, p, down) = HeadText(b, r, down)
  PROVE  i = j
PROOF
<1> SUFFICES ASSUME i # j PROVE FALSE
  OBVIOUS
<1>1. IsBoard(b) /\ OneKing(b, side)
  BY DEF InPlay
<1>2. p \in Piece /\ r \in Piece /\ p.side = side /\ r.side = side
      /\ i \in DOMAIN b.pieces /\ j \in DOMAIN b.pieces
  BY <1>1, ShownGoes
<1>3. p.type = r.type
  BY <1>2, KindTold
<1>4. CASE p.type = King
  <2>1. PICK k \in DOMAIN b.pieces :
          \A l \in DOMAIN b.pieces : b.pieces[l].type = King /\ b.pieces[l].side = side <=> l = k
    BY <1>1 DEF OneKing
  <2> QED
    BY <2>1, <1>2, <1>3, <1>4
<1>5. CASE p.type = Pawn
  <2>1. HeadText(b, p, down) = PawnHead(b, p, down) /\ HeadText(b, r, down) = PawnHead(b, r, down)
    BY <1>3, <1>5 DEF HeadText
  <2> QED
    BY <2>1, <1>1, <1>3, <1>5, PawnsTold
<1>6. CASE p.type \in Advisor..Cannon
  <2>1. p.type # Pawn /\ r.type # Pawn
    BY <1>3, <1>6 DEF Advisor, Cannon, Pawn
  <2>2. HeadText(b, p, down) = PieceHead(b, p, down) /\ HeadText(b, r, down) = PieceHead(b, r, down)
    BY <2>1 DEF HeadText
  <2> QED
    BY <2>2, <1>1, <1>3, <1>6, TwinsTold
<1>7. p.type = King \/ p.type = Pawn \/ p.type \in Advisor..Cannon
  BY <1>2, PieceTypes DEF Types, King, Advisor, Bishop, Knight, Rook, Cannon, Pawn
<1> QED
  BY <1>4, <1>5, <1>6, <1>7

(* A move that is generated: whose it is and where it leads. *)
LEMMA GeneratedIs ==
  ASSUME NEW b, InPlay(b), NEW i \in Shown(b, b.cur), NEW mv \in GenerateMoves(b, i),
         NEW p, p = b.pieces[i]
  PROVE  /\ p \in Piece /\ p.side = b.cur /\ p.pos \in Squares
         /\ \E q : /\ mv = GetMove(p.pos, q) /\ q = EndOfMove(mv) /\ PieceAt(b, StartOfMove(mv)) = p
                   /\ Goes(b, p, q) /\ LegalMovePiece(b, p, q) /\ q \in Squares
PROOF
<1>1. IsBoard(b)
  BY DEF InPlay
<1>2. PICK q \in Dests(b, p) : mv = GetMove(p.pos, q)
  BY DEF GenerateMoves
<1>3. /\ p \in Piece /\ p.side = b.cur /\ p.pos \in Squares /\ DOMAIN b.at \subseteq Squares
      /\ PieceAt(b, p.pos) = p /\ i \in DOMAIN b.pieces
      /\ \A x \in Squares : ~OwnAt(b, p, x) => Goes(b, p, x)
  BY <1>1, ShownGoes
<1>4. p.type = Bishop => BishopPoint(p.pos)
  BY <1>3 DEF InPlay
<1>5. q \in Squares /\ ~OwnAt(b, p, q)
  BY <1>3, <1>4, DestsAreFree
<1>6. Goes(b, p, q) /\ ~Beyond(b, p, q)
  BY <1>3, <1>5, GeneratedNotBeyond
<1>7. LegalMovePiece(b, p, q)
  BY <1>2, <1>3, <1>4, <1>6, DestsAgree
<1>8. StartOfMove(mv) = p.pos /\ EndOfMove(mv) = q
  BY <1>2, <1>3, <1>5, MoveSquares
<1> QED
  BY <1>2, <1>3, <1>5, <1>6, <1>7, <1>8

(* Two moves of a position that are written the same way are the same. *)
LEMMA TextsDiffer ==
  ASSUME NEW b, InPlay(b), Mustered(b),
         NEW i \in Shown(b, b.cur), NEW mv \in GenerateMoves(b, i),
         NEW j \in Shown(b, b.cur), NEW mv2 \in GenerateMoves(b, j),
         ToChineseMove(b, mv) = ToChineseMove(b, mv2)
  PROVE  mv = mv2
PROOF
<1>1. PICK p, r : p = b.pieces[i] /\ r = b.pieces[j]
  OBVIOUS
<1>2. PICK q : /\ mv = GetMove(p.pos, q) /\ q = EndOfMove(mv) /\ PieceAt(b, StartOfMove(mv)) = p
               /\ Goes(b, p, q) /\ LegalMovePiece(b, p, q)
  BY <1>1, GeneratedIs
<1>3. PICK z : /\ mv2 = GetMove(r.pos, z) /\ z = EndOfMove(mv2) /\ PieceAt(b, StartOfMove(mv2)) = r
               /\ Goes(b, r, z) /\ LegalMovePiece(b, r, z)
  BY <1>1, GeneratedIs
<1>4. p \in Piece /\ p.side = b.cur /\ r \in Piece /\ r.side = b.cur
  BY <1>1, GeneratedIs
<1>k. IsBoard(b) /\ b.cur \in {Red, Black} /\ OneKing(b, b.cur)
  BY BoardTyping DEF InPlay
<1>5. PICK down \in BOOLEAN : down = Lower(KingPos(b, b.cur))
  <2>1. PICK k \in DOMAIN b.pieces :
          \A l \in DOMAIN b.pieces : b.pieces[l].type = King /\ b.pieces[l].side = b.cur <=> l = k
    BY <1>k DEF OneKing
  <2>2. KingPos(b, b.cur) = b.pieces[k].pos
    BY <1>k, <2>1, KingFound
  <2>3. KingPos(b, b.cur) \in Int
    BY <1>k, <2>2, BoardTyping, PieceRecord, SquareBounds
  <2>4. Lower(KingPos(b, b.cur)) \in BOOLEAN
    BY <2>3 DEF Lower
  <2> QED
    BY <2>4, Zenon
<1>6. ToChineseMove(b, mv) = HeadText(b, p, down) \o TailText(p, q, down)
  BY <1>2, <1>4, <1>5, TextHalves
<1>7. ToChineseMove(b, mv2) = HeadText(b, r, down) \o TailText(r, z, down)
  <2>1. down = Lower(KingPos(b, r.side)) /\ r = PieceAt(b, StartOfMove(mv2)) /\ z = EndOfMove(mv2)
    BY <1>3, <1>4, <1>5
  <2> QED
    BY <2>1, TextHalves, SMTT(30)
<1>8. PICK h, h2, t, t2 : /\ h = HeadText(b, p, down) /\ h2 = HeadText(b, r, down)
                          /\ t = TailText(p, q, down) /\ t2 = TailText(r, z, down)
  OBVIOUS
<1>9. IsPair(h) /\ IsPair(h2) /\ IsPair(t) /\ IsPair(t2)
  BY <1>8, HeadIsPair, TailIsPair
<1>10. PICK c : Joins(h, t, c) /\ Joins(h2, t2, c)
  BY <1>6, <1>7, <1>8 DEF Joins
<1>12. h = h2 /\ t = t2
  BY <1>9, <1>10, HalvesSame
<1>s. HeadText(b, p, down) = HeadText(b, r, down) /\ TailText(p, q, down) = TailText(r, z, down)
  BY <1>8, <1>12
<1>13. i = j
  BY <1>k, <1>s, <1>1, HeadsDiffer
<1>14. p = r
  BY <1>1, <1>13
<1>15. q = z
  <2>1. Goes(b, p, z) /\ LegalMovePiece(b, p, z) /\ TailText(p, q, down) = TailText(p, z, down)
    BY <1>3, <1>14, <1>s
  <2> QED
    BY <2>1, <1>2, <1>4, TailsDiffer
<1> QED
  BY <1>2, <1>3, <1>14, <1>15

(* As many texts as moves. *)
LEMMA TextsCounted ==
  ASSUME NEW b, InPlay(b), Mustered(b),
         NEW moves, moves = UNION {GenerateMoves(b, i) : i \in Shown(b, b.cur)}
  PROVE  Cardinality({ToChineseMove(b, mv) : mv \in moves}) = Cardinality(moves)
PROOF
<1>1. ASSUME NEW mv \in moves
      PROVE  mv \in Nat /\ mv <= 255 + 256 * 255
  <2>1. PICK i \in Shown(b, b.cur) : mv \in GenerateMoves(b, i)
    BY <1>1
  <2>2. PICK p : p = b.pieces[i]
    OBVIOUS
  <2>3. PICK q \in Squares : mv = GetMove(p.pos, q) /\ p.pos \in Squares
    BY <2>1, <2>2, GeneratedIs
  <2>4. /\ p.pos \in Nat /\ q \in Nat /\ p.pos <= 255 /\ q <= 255
    BY <2>3, SquareBounds
  <2> QED
    BY <2>3, <2>4 DEF GetMove
<1>2. IsFiniteSet(moves)
  <2>1. PICK n \in Nat : \A mv \in moves : mv <= n
    BY <1>1
  <2>2. moves \in SUBSET Nat
    BY <1>1
  <2> QED
    BY <2>1, <2>2, FS_BoundedSetOfNaturals
<1> DEFINE texts == {ToChineseMove(b, mv) : mv \in moves}
<1> DEFINE f == [mv \in moves |-> ToChineseMove(b, mv)]
<1>3. f \in [moves -> texts] /\ \A t \in texts : \E mv \in moves : f[mv] = t
  OBVIOUS
<1>4. \A mv, mv2 \in moves : f[mv] = f[mv2] => mv = mv2
  <2> SUFFICES ASSUME NEW mv \in moves, NEW mv2 \in moves, ToChineseMove(b, mv) = ToChineseMove(b, mv2)
               PROVE  mv = mv2
    OBVIOUS
  <2> QED
    BY TextsDiffer
<1> HIDE DEF f, texts
<1>5. f \in Surjection(moves, texts) /\ f \in Injection(moves, texts)
  BY <1>3, <1>4 DEF Surjection, Injection, IsInjective
<1>6. Cardinality(texts) = Cardinality(moves)
  BY <1>2, <1>5, FS_Surjection
<1> QED
  BY <1>6 DEF texts
=============================================================================
