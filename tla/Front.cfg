CONSTANTS
  Socks = {s1, s2, s3}
  MaxConns = 2
  Word = 2
  MaxLosses = 2
  MaxUnderWay = 2
  Nil = Nil
SPECIFICATION FairSpec
INVARIANTS PoolIsWhole DisconnectedFirst RepliesArrive
 
CHECK_DEADLOCK FALSE
