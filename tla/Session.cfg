CONSTANTS
  Nil = Nil
  Users = {u1, u2, u3}
  ConnIds = {i1, i2, i3}
  RoomTypes = {"QUICKLY_PATTERN"}
  Fens = {f1}
  LoginInfos <- MCLoginInfos
  Flaky = {"login"}
  MaxGames = 1
  MaxSteps = 2
  MaxAsking = 3
SPECIFICATION Spec
SYMMETRY Symmetry
VIEW View
INVARIANTS SessionTypeOK HallOK RoomOK ClockOK CallersOK
PROPERTIES OnlyLateAnswersCrash SettledOnce
CHECK_DEADLOCK FALSE
