CONSTANTS
  Users = {u1, u2}
  RoomTypes = {"QUICKLY_PATTERN", "SLOWLY_PATTERN"}
  Scores = {1000}
  Copies = {1, 2}
  Conns = {c1, c2}
  Nil = Nil
SPECIFICATION FairSpec
INVARIANTS NeverPairedWithSelf
PROPERTIES WorkerGoesOn
CHECK_DEADLOCK FALSE
