------------------------------- MODULE MCWire -------------------------------
(* A small instance of Wire: two browsers, and what may be said. *)
EXTENDS Wire

CONSTANTS b1, b2

Msg(type, data) == [type |-> type, data |-> data, damage |-> FALSE]
Ask == Msg("DrawRequest", <<>>)
Refuse == Msg("DrawResponse", [agree |-> FALSE])
Broken == [Ask EXCEPT !.damage = TRUE]

Infos == {[username |-> "u", score |-> s, total |-> 2, nwin |-> n, nloss |-> 2 - n] :
            s \in {-10, 0}, n \in {0, 1}}
Times == {[gameSpendTime |-> g, stepSpendTime |-> 3] : g \in {0, 7}}
OneInfo == CHOOSE i \in Infos : TRUE

\* Every message a page sends (net.js, toLogin to toGiveup).
PageSays ==
  {Msg("LoginRequest", [username |-> "u", passwd |-> p]) : p \in {"", "p"}}
  \cup {Msg("MatchRequest", [type |-> t]) : t \in Range(RoomType)}
  \cup {Msg(t, <<>>) : t \in {"CancelMatchRequest", "Giveup", "ForgiveRequest", "DrawRequest"}}
  \cup {Msg("MoveStep", [over |-> o, mv |-> 17, fen |-> "f"]) : o \in BOOLEAN}
  \cup {Msg("ForgiveResponse", [agree |-> FALSE]),
        Msg("ForgiveResponse", [agree |-> TRUE, fen |-> "f", mv |-> 17])}
  \cup {Msg("DrawResponse", [agree |-> a]) : a \in BOOLEAN}

\* Every message the center sends to a page (center_server.cc).
CenterSays ==
  {Msg("LoginSuccessResponse", [userInfo |-> i]) : i \in Infos}
  \cup {Msg("LoginFailedResponse", [reason |-> r]) : r \in Range(FailedReason)}
  \cup {Msg("MatchResponse", [oppUser |-> OneInfo, selfType |-> p, type |-> t]) :
          p \in Range(PlayerType), t \in Range(RoomType)}
  \cup {Msg("MoveStep", [over |-> o, mv |-> 17, fen |-> "f"]) : o \in BOOLEAN}
  \cup {Msg(t, <<>>) : t \in {"ForgiveRequest", "DrawRequest", "OppDisconnected", "OppReconnected"}}
  \cup {Msg("ForgiveResponse", [agree |-> a]) : a \in BOOLEAN}
  \cup {Msg("DrawResponse", [agree |-> FALSE])}
  \cup {Msg("GameSituation",
            [self |-> OneInfo, opp |-> OneInfo, red |-> r, turnToMe |-> t, roomType |-> p,
             selfTime |-> g, oppTime |-> [gameSpendTime |-> 5, stepSpendTime |-> 0],
             lastMv |-> m[1], fen |-> m[2]]) :
          r \in {TRUE}, t \in BOOLEAN, p \in {"SLOWLY_PATTERN"}, g \in Times, m \in {<<0, "">>, <<17, "f">>}}
  \cup {Msg("GameOver", [type |-> t, changeScore |-> c, selfSpendGameTime |-> 4,
                         oppSpendGameTime |-> 9]) : t \in Range(OverType), c \in {-10}}

Silence == [b \in Browsers |-> <<>>]

\* One message of each kind with nobody else there, and some talk at once.
MCScripts ==
  {[there |-> {b1}, up |-> [Silence EXCEPT ![b1] = <<m>>], down |-> <<>>] : m \in PageSays}
  \cup {[there |-> {b1}, up |-> Silence, down |-> <<<<b1, m>>>>] : m \in CenterSays}
  \cup {[there |-> {b1}, up |-> [Silence EXCEPT ![b1] = <<Ask, Refuse, Ask>>], down |-> <<>>]}
  \cup {[there |-> Browsers, up |-> [Silence EXCEPT ![b1] = <<Refuse>>, ![b2] = <<m>>], down |-> <<>>] :
          m \in {Ask, Broken}}
  \cup {[there |-> Browsers, up |-> Silence, down |-> <<<<b1, Ask>>, <<b2, Refuse>>, <<b1, Refuse>>>>]}
=============================================================================
