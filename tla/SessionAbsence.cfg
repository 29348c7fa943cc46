CONSTANTS
  Nil = Nil
  Users = {u1, u2}
  ConnIds = {i1, i2, i3}
  RoomTypes = {"QUICKLY_PATTERN"}
  Fens = {f1}
  LoginInfos <- MCLoginInfos
  Flaky = {}
  MaxGames = 1
  MaxSteps = 2
  MaxAsking = 1
SPECIFICATION FairSpec
VIEW View
PROPERTIES AbsenceEnds ImplementsLobby
CHECK_DEADLOCK FALSE
