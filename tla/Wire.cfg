CONSTANTS
  b1 = b1
  b2 = b2
  Browsers = {b1, b2}
  MayFail = {b1}
  Scripts <- MCScripts
SPECIFICATION WireFairSpec
INVARIANTS ReadAsWritten AnsweringIsKept
PROPERTIES EveryMessageIsHandled SilentIsDropped
CHECK_DEADLOCK FALSE
