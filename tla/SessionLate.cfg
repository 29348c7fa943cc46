CONSTANTS
  Nil = Nil
  Users = {u1, u2}
  ConnIds = {i1, i2}
  RoomTypes = {"QUICKLY_PATTERN", "SLOWLY_PATTERN"}
  Fens = {f1, f2}
  LoginInfos <- MCLoginInfos
  Flaky = {}
  MaxGames = 2
  MaxSteps = 2
  MaxAsking = 3
SPECIFICATION Spec
SYMMETRY Symmetry
VIEW View
INVARIANTS SurvivesLateMessages
CHECK_DEADLOCK FALSE
