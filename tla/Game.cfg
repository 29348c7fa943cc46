CONSTANTS
  Nil = Nil
  Users = {u1, u2}
  ConnIds = {i1, i2, i3}
  RoomTypes = {"QUICKLY_PATTERN"}
  Moves = {"m", "mate"}
  MaxPlies = 2
  MaxUnderWay = 2
  MaxReturns = 1
  Buttons = {"selfForgive", "selfDraw", "giveup"}
  Fens <- MCFens
SPECIFICATION GameSpec
SYMMETRY Symmetry
VIEW View
INVARIANTS BoardsAgree OwnRecordIsRight DialogFitsState
PROPERTIES MoveIsHeard KeepsContract
CHECK_DEADLOCK FALSE
