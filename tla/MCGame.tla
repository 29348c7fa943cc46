------------------------------- MODULE MCGame -------------------------------
(* A small instance of Game. *)
EXTENDS Game

MCFens == UNION {[1..n -> Moves] : n \in 0..MaxPlies}

Symmetry == Permutations(Users) \cup Permutations(ConnIds)

\* What the last handler sent is never read again, and nothing happens once
\* the server is down.
View == IF up THEN <<hallVars, gameVars, pageVars, upq, downq, record, returns, mishaps>>
              ELSE <<up>>
=============================================================================
