CONSTANTS
  Users = {u1, u2, u3}
  Returners = {u1}
  MaxGames = 2
  MaxUnderWay = 3
  Nil = Nil
SPECIFICATION Spec
INVARIANTS PatientLoseNothing
CHECK_DEADLOCK FALSE
