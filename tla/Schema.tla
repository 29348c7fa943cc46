------------------------------- MODULE Schema -------------------------------
(***************************************************************************)
(* The messages as protocol buffers: what each class writes and what it    *)
(* reads back.  The page has classes generated for it (cchess_proto.js),   *)
(* the servers have theirs from cchess.proto; nothing but the numbers of   *)
(* the fields and of the enumerators travels, so the two sides understand  *)
(* each other only as far as their numbers agree.                          *)
(*                                                                         *)
(* A class is a function from its fields to a number and a kind.  A value  *)
(* that equals its kind's default (0, false, "", the first enumerator) is  *)
(* not written and comes back as the default; a field whose number the     *)
(* reader does not know is skipped; a field that is itself a message is    *)
(* written if it is set, and nests one level deep.                         *)
(*                                                                         *)
(* GameOverSwapped is a variant with a plausible mistake that nothing uses.*)
(***************************************************************************)
EXTENDS Integers, Sequences

Field(num, kind) == [num |-> num, kind |-> kind]
Empty == [f \in {} |-> Field(0, "none")]

-----------------------------------------------------------------------------
(* The page's classes.                                                     *)

UserInfo == [username |-> Field(1, "string"), score |-> Field(2, "int32"),
             total |-> Field(3, "int32"), nwin |-> Field(4, "int32"), nloss |-> Field(5, "int32")]
GameTimeInfo == [gameSpendTime |-> Field(1, "int32"), stepSpendTime |-> Field(2, "int32")]

LoginRequest == [username |-> Field(1, "string"), passwd |-> Field(2, "string")]
LoginSuccessResponse == [userInfo |-> Field(1, "UserInfo")]
LoginFailedResponse == [reason |-> Field(1, "FailedReason")]
MatchRequest == [type |-> Field(1, "RoomType")]
CancelMatchRequest == Empty
MatchResponse == [oppUser |-> Field(1, "UserInfo"), selfType |-> Field(2, "PlayerType"),
                  type |-> Field(3, "RoomType")]
MoveStep == [over |-> Field(1, "bool"), mv |-> Field(2, "int32"), fen |-> Field(3, "string")]
Giveup == Empty
ForgiveRequest == Empty
ForgiveResponse == [agree |-> Field(1, "bool"), fen |-> Field(2, "string"), mv |-> Field(3, "int32")]
DrawRequest == Empty
DrawResponse == [agree |-> Field(1, "bool")]
OppDisconnected == Empty
OppReconnected == Empty
GameSituation ==
  [self |-> Field(1, "UserInfo"), opp |-> Field(2, "UserInfo"), red |-> Field(3, "bool"),
   turnToMe |-> Field(4, "bool"), roomType |-> Field(5, "RoomType"),
   selfTime |-> Field(6, "GameTimeInfo"), oppTime |-> Field(7, "GameTimeInfo"),
   lastMv |-> Field(8, "int32"), fen |-> Field(9, "string")]
GameOverSwapped ==
  [type |-> Field(1, "OverType"), changeScore |-> Field(2, "int32"),
   selfSpendGameTime |-> Field(4, "int32"), oppSpendGameTime |-> Field(3, "int32")]
GameOver ==
  [type |-> Field(1, "OverType"), changeScore |-> Field(2, "int32"),
   selfSpendGameTime |-> Field(3, "int32"), oppSpendGameTime |-> Field(4, "int32")]

\* The enumerators of each enumeration, from 0 on.
FailedReason == <<"MULTI_LOGIN", "VERTIFY_ERROR">>
PlayerType == <<"RED", "BLACK">>
RoomType == <<"QUICKLY_PATTERN", "SLOWLY_PATTERN">>
OverType == <<"SELF_TIMEOUT", "OPP_TIMEOUT", "SELF_GIVEUP", "OPP_GIVEUP", "DRAW", "WIN", "LOSS">>

PageSide ==
  [classes |->
     [UserInfo |-> UserInfo, GameTimeInfo |-> GameTimeInfo, LoginRequest |-> LoginRequest,
      LoginSuccessResponse |-> LoginSuccessResponse, LoginFailedResponse |-> LoginFailedResponse,
      MatchRequest |-> MatchRequest, CancelMatchRequest |-> CancelMatchRequest,
      MatchResponse |-> MatchResponse, MoveStep |-> MoveStep, Giveup |-> Giveup,
      ForgiveRequest |-> ForgiveRequest, ForgiveResponse |-> ForgiveResponse,
      DrawRequest |-> DrawRequest, DrawResponse |-> DrawResponse,
      OppDisconnected |-> OppDisconnected, OppReconnected |-> OppReconnected,
      GameSituation |-> GameSituation, GameOver |-> GameOver],
   enums |-> [FailedReason |-> FailedReason, PlayerType |-> PlayerType, RoomType |-> RoomType,
              OverType |-> OverType]]

-----------------------------------------------------------------------------
(* cchess.proto, from which the servers' classes are generated: the fields *)
(* of each message in the order of their numbers.                          *)

Numbered(fields) ==
  [name \in {fields[k][1] : k \in DOMAIN fields} |->
     LET k == CHOOSE j \in DOMAIN fields : fields[j][1] = name IN Field(k, fields[k][2])]

ProtoSide ==
  [classes |->
     [UserInfo |-> Numbered(<<<<"username", "string">>, <<"score", "int32">>, <<"total", "int32">>,
                              <<"nwin", "int32">>, <<"nloss", "int32">>>>),
      GameTimeInfo |-> Numbered(<<<<"gameSpendTime", "int32">>, <<"stepSpendTime", "int32">>>>),
      LoginRequest |-> Numbered(<<<<"username", "string">>, <<"passwd", "string">>>>),
      LoginSuccessResponse |-> Numbered(<<<<"userInfo", "UserInfo">>>>),
      LoginFailedResponse |-> Numbered(<<<<"reason", "FailedReason">>>>),
      MatchRequest |-> Numbered(<<<<"type", "RoomType">>>>),
      CancelMatchRequest |-> Numbered(<<>>),
      MatchResponse |-> Numbered(<<<<"oppUser", "UserInfo">>, <<"selfType", "PlayerType">>,
                                   <<"type", "RoomType">>>>),
      MoveStep |-> Numbered(<<<<"over", "bool">>, <<"mv", "int32">>, <<"fen", "string">>>>),
      Giveup |-> Numbered(<<>>),
      ForgiveRequest |-> Numbered(<<>>),
      ForgiveResponse |-> Numbered(<<<<"agree", "bool">>, <<"fen", "string">>, <<"mv", "int32">>>>),
      DrawRequest |-> Numbered(<<>>),
      DrawResponse |-> Numbered(<<<<"agree", "bool">>>>),
      OppDisconnected |-> Numbered(<<>>),
      OppReconnected |-> Numbered(<<>>),
      GameSituation |->
        Numbered(<<<<"self", "UserInfo">>, <<"opp", "UserInfo">>, <<"red", "bool">>,
                   <<"turnToMe", "bool">>, <<"roomType", "RoomType">>, <<"selfTime", "GameTimeInfo">>,
                   <<"oppTime", "GameTimeInfo">>, <<"lastMv", "int32">>, <<"fen", "string">>>>),
      Disconnected |-> Numbered(<<>>),
      GameOver |-> Numbered(<<<<"type", "OverType">>, <<"changeScore", "int32">>,
                              <<"selfSpendGameTime", "int32">>, <<"oppSpendGameTime", "int32">>>>)],
   enums |->
     [FailedReason |-> <<"MULTI_LOGIN", "VERTIFY_ERROR">>,
      PlayerType |-> <<"RED", "BLACK">>,
      RoomType |-> <<"QUICKLY_PATTERN", "SLOWLY_PATTERN">>,
      OverType |-> <<"SELF_TIMEOUT", "OPP_TIMEOUT", "SELF_GIVEUP", "OPP_GIVEUP", "DRAW", "WIN", "LOSS">>]]

-----------------------------------------------------------------------------
(* serializeBinaryToWriter and deserializeBinaryFromReader.                *)

IsEnum(side, kind) == kind \in DOMAIN side.enums
IsClass(side, kind) == kind \in DOMAIN side.classes

Ordinal(names, name) == (CHOOSE k \in DOMAIN names : names[k] = name) - 1
Scalar(side, kind, v) == IF IsEnum(side, kind) THEN Ordinal(side.enums[kind], v) ELSE v
Meaning(side, kind, w) == IF IsEnum(side, kind) THEN side.enums[kind][w + 1] ELSE w
Default(kind) == CASE kind = "string" -> "" [] kind = "bool" -> FALSE [] OTHER -> 0

\* Nested says how a field that is a message is written; fields not set
\* (those data does not have) and defaults are left out.
Written(side, class, data, Nested(_, _)) ==
  LET fs == side.classes[class]
      kept == {f \in DOMAIN fs \cap DOMAIN data :
                 IsClass(side, fs[f].kind)
                 \/ Scalar(side, fs[f].kind, data[f]) # Default(fs[f].kind)}
  IN  [n \in {fs[f].num : f \in kept} |->
         LET f == CHOOSE f \in kept : fs[f].num = n
         IN  IF IsClass(side, fs[f].kind) THEN Nested(fs[f].kind, data[f])
                                          ELSE Scalar(side, fs[f].kind, data[f])]

WriteFlat(side, class, data) == Written(side, class, data, LAMBDA kind, v : v)
Write(side, class, data) ==
  Written(side, class, data, LAMBDA kind, v : WriteFlat(side, kind, v))

ReadBack(side, class, wire, Nested(_, _)) ==
  LET fs == side.classes[class]
      known == {f \in DOMAIN fs : ~IsClass(side, fs[f].kind) \/ fs[f].num \in DOMAIN wire}
  IN  [f \in known |->
         IF IsClass(side, fs[f].kind) THEN Nested(fs[f].kind, wire[fs[f].num])
         ELSE Meaning(side, fs[f].kind,
                      IF fs[f].num \in DOMAIN wire THEN wire[fs[f].num] ELSE Default(fs[f].kind))]

ReadFlat(side, class, wire) == ReadBack(side, class, wire, LAMBDA kind, w : w)
Read(side, class, wire) ==
  ReadBack(side, class, wire, LAMBDA kind, w : ReadFlat(side, kind, w))

-----------------------------------------------------------------------------
(* What a class lets one say: fields it has, of enumerators only those that*)
(* there are, and messages in messages whole.                              *)
Holds(side, class, data) ==
  LET fs == side.classes[class]
  IN  /\ DOMAIN data \subseteq DOMAIN fs
      /\ \A f \in DOMAIN data :
           IsEnum(side, fs[f].kind) => \E k \in DOMAIN side.enums[fs[f].kind] :
                                         side.enums[fs[f].kind][k] = data[f]
Sayable(side, m) ==
  /\ m.type \in DOMAIN side.classes
  /\ Holds(side, m.type, m.data)
  /\ \A f \in DOMAIN m.data :
       LET kind == side.classes[m.type][f].kind
       IN  IsClass(side, kind) => /\ m.data[f] = [g \in DOMAIN side.classes[kind] |-> m.data[f][g]]
                                  /\ Holds(side, kind, m.data[f])
=============================================================================
