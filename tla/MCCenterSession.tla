--------------------------- MODULE MCCenterSession ---------------------------
(* Small instances of CenterSession. *)
EXTENDS CenterSession, TLC

NewUser == [score |-> 1000, total |-> 0, nwin |-> 0, nloss |-> 0]
MCLoginInfos == {NewUser}

Symmetry == Permutations(Users) \cup Permutations(ConnIds)

\* What the last handler sent is never read again; of a user's record only the
\* number of games is ever tested, and a result only adds to the other fields.
Totals == [u \in Users |-> IF userInfo[u] = Nil THEN Nil ELSE userInfo[u].total]
View == <<entrys, userList, connId, state, Totals, gameInfo, rooms, timers,
          links, up, sessionVars>>
=============================================================================
