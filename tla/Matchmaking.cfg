CONSTANTS
  Users = {u1, u2, u3}
  RoomTypes = {"QUICKLY_PATTERN", "SLOWLY_PATTERN"}
  Scores = {1000}
  Copies = {1, 2}
  Conns = {c1}
  Nil = Nil
  MaxCancels = 1
  MayHurry = FALSE
  MaxUnderWay = 2
SPECIFICATION FairMatchmakingSpec
INVARIANTS BothKnowWhoWaits GamesAreWhole
PROPERTIES SomeoneIsMatched
CHECK_DEADLOCK FALSE
