----------------------------- MODULE GameProofs -----------------------------
(***************************************************************************)
(* Theorems about Game that rest on WorldInv of CenterProofs: what the     *)
(* dialog of a page says is what the center thinks of its user.            *)
(*                                                                         *)
(* The invariant, DialogInv, has two parts for each page.  ScreenOK is     *)
(* about the page and the messages under way to it: who is asked to log    *)
(* in has no Entry or will hear of it, and what is about a game comes      *)
(* behind its board.  AgreedOK is about the wishes under way from it: the  *)
(* last request or cancellation tells what the center will think.          *)
(***************************************************************************)
EXTENDS CenterProofs

-----------------------------------------------------------------------------
(* What the dialog of a page says.  A request for a match and the taking   *)
(* back of it are wishes; the last one under way tells what the center     *)
(* will think of the page.                                                 *)

IsWish(m) == m.type \in {"MatchRequest", "CancelMatchRequest"}
NoWish(q) == \A k \in DOMAIN q : ~IsWish(q[k])

\* Is the user, whose state is st, looking for an opponent once the messages
\* q of its page are handled, if no game is found?
Wants(q, st) ==
  \/ NoWish(q) /\ st = "kMatching"
  \/ \E k \in DOMAIN q : /\ q[k].type = "MatchRequest"
                         /\ \A l \in DOMAIN q : IsWish(q[l]) => l <= k
\* The state a user in the hall has after the message m.
Wished(m, st) ==
  CASE m.type = "MatchRequest" -> "kMatching"
    [] m.type = "CancelMatchRequest" -> "kOnline"
    [] OTHER -> st

LEMMA WishHeard ==
  ASSUME NEW q \in Seq(Said), q # <<>>, NEW st
  PROVE  /\ NoWish(q) => ~IsWish(Head(q)) /\ NoWish(Tail(q))
         /\ Wants(q, st) <=> Wants(Tail(q), Wished(Head(q), st))
<1> DEFINE t == Tail(q)
           m == Head(q)
<1>1. /\ 1 \in DOMAIN q /\ q[1] = m
      /\ \A k \in DOMAIN t : k + 1 \in DOMAIN q /\ t[k] = q[k + 1]
      /\ \A k \in DOMAIN q : k # 1 => k - 1 \in DOMAIN t /\ t[k - 1] = q[k]
      /\ DOMAIN q \subseteq Nat \ {0} /\ DOMAIN t \subseteq Nat \ {0}
  BY TailOf
<1> HIDE DEF t, m
<1>2. NoWish(q) => ~IsWish(m) /\ NoWish(t)
  BY <1>1 DEF NoWish
<1>3. ~IsWish(m) /\ NoWish(t) => NoWish(q)
  BY <1>1 DEF NoWish
<1>4. ASSUME NEW k \in DOMAIN t, t[k].type = "MatchRequest",
             \A l \in DOMAIN t : IsWish(t[l]) => l <= k
      PROVE  Wants(q, st)
  <2>1. ASSUME NEW l \in DOMAIN q, IsWish(q[l])
        PROVE  l <= k + 1
    <3>1. CASE l = 1
      BY <1>1, <3>1
    <3>2. CASE l # 1
      <4>1. l - 1 <= k
        BY <1>1, <1>4, <2>1, <3>2
      <4> QED
        BY <1>1, <4>1
    <3> QED
      BY <3>1, <3>2
  <2> QED
    BY <1>1, <1>4, <2>1 DEF Wants
<1>5. ASSUME NEW k \in DOMAIN q, q[k].type = "MatchRequest",
             \A l \in DOMAIN q : IsWish(q[l]) => l <= k, k # 1
      PROVE  \E j \in DOMAIN t : /\ t[j].type = "MatchRequest"
                                 /\ \A l \in DOMAIN t : IsWish(t[l]) => l <= j
  <2>1. k - 1 \in DOMAIN t /\ t[k - 1] = q[k]
    BY <1>1, <1>5
  <2>2. ASSUME NEW l \in DOMAIN t, IsWish(t[l])
        PROVE  l <= k - 1
    <3>1. l + 1 <= k
      BY <1>1, <1>5, <2>2
    <3> QED
      BY <1>1, <3>1
  <2> QED
    BY <1>5, <2>1, <2>2
<1>6. ASSUME NEW k \in DOMAIN q, q[k].type = "MatchRequest",
             \A l \in DOMAIN q : IsWish(q[l]) => l <= k, k = 1
      PROVE  NoWish(t) /\ m.type = "MatchRequest"
  <2>1. ASSUME NEW l \in DOMAIN t, IsWish(t[l])
        PROVE  FALSE
    <3>1. l + 1 <= 1
      BY <1>1, <1>6, <2>1
    <3> QED
      BY <1>1, <3>1
  <2> QED
    BY <1>1, <1>6, <2>1 DEF NoWish
<1>7. ASSUME NoWish(t), m.type = "MatchRequest"
      PROVE  Wants(q, st)
  <2>1. ASSUME NEW l \in DOMAIN q, IsWish(q[l])
        PROVE  l <= 1
    <3>1. CASE l # 1
      <4>1. l - 1 \in DOMAIN t /\ IsWish(t[l - 1])
        BY <1>1, <2>1, <3>1
      <4> QED
        BY <1>7, <4>1 DEF NoWish
    <3> QED
      BY <3>1
  <2> QED
    BY <1>1, <1>7, <2>1 DEF Wants
<1>8. Wants(t, Wished(m, st)) => Wants(q, st)
  BY <1>3, <1>4, <1>7 DEF Wants, Wished, IsWish
<1>9. Wants(q, st) => Wants(t, Wished(m, st))
  <2>1. CASE NoWish(q) /\ st = "kMatching"
    BY <1>2, <2>1 DEF Wants, Wished, IsWish
  <2>2. CASE \E k \in DOMAIN q : /\ q[k].type = "MatchRequest"
                                 /\ \A l \in DOMAIN q : IsWish(q[l]) => l <= k
    BY <1>5, <1>6, <2>2 DEF Wants, Wished
  <2> QED
    BY <2>1, <2>2 DEF Wants
<1> QED
  BY <1>2, <1>8, <1>9 DEF t, m

LEMMA WishSaid ==
  ASSUME NEW q \in Seq(Said), NEW m \in Said, NEW st
  PROVE  /\ ~IsWish(m) => /\ NoWish(Append(q, m)) <=> NoWish(q)
                          /\ Wants(Append(q, m), st) <=> Wants(q, st)
         /\ m.type = "MatchRequest" => Wants(Append(q, m), st)
         /\ m.type = "CancelMatchRequest" => ~Wants(Append(q, m), st)
<1> DEFINE q2 == Append(q, m)
           n == Len(q) + 1
<1>1. /\ n \in DOMAIN q2 /\ q2[n] = m /\ n \in Nat
      /\ \A k \in DOMAIN q : k \in DOMAIN q2 /\ q2[k] = q[k] /\ k < n /\ k \in Nat
      /\ \A k \in DOMAIN q2 : k \in DOMAIN q \/ k = n
  <2>1. /\ Len(q) \in Nat /\ DOMAIN q = 1..Len(q) /\ DOMAIN q2 = 1..(Len(q) + 1)
        /\ q2[Len(q) + 1] = m /\ \A k \in 1..Len(q) : q2[k] = q[k]
    BY AppendProperties
  <2> QED
    BY <2>1
<1> HIDE DEF q2, n
<1>2. ASSUME ~IsWish(m)
      PROVE  (NoWish(q2) <=> NoWish(q)) /\ (Wants(q2, st) <=> Wants(q, st))
  <2>1. NoWish(q2) <=> NoWish(q)
    BY <1>1, <1>2 DEF NoWish
  <2>2. m.type # "MatchRequest"
    BY <1>2 DEF IsWish
  <2>3. ASSUME NEW k \in DOMAIN q2, q2[k].type = "MatchRequest",
               \A l \in DOMAIN q2 : IsWish(q2[l]) => l <= k
        PROVE  /\ k \in DOMAIN q /\ q[k].type = "MatchRequest"
               /\ \A l \in DOMAIN q : IsWish(q[l]) => l <= k
    BY <1>1, <2>2, <2>3
  <2>4. ASSUME NEW k \in DOMAIN q, q[k].type = "MatchRequest",
               \A l \in DOMAIN q : IsWish(q[l]) => l <= k
        PROVE  /\ k \in DOMAIN q2 /\ q2[k].type = "MatchRequest"
               /\ \A l \in DOMAIN q2 : IsWish(q2[l]) => l <= k
    BY <1>1, <1>2, <2>4
  <2> QED
    BY <2>1, <2>3, <2>4 DEF Wants
<1>3. ASSUME m.type = "MatchRequest"
      PROVE  Wants(q2, st)
  <2>1. \A l \in DOMAIN q2 : l <= n
    BY <1>1
  <2> QED
    BY <1>1, <1>3, <2>1 DEF Wants
<1>4. ASSUME m.type = "CancelMatchRequest"
      PROVE  ~Wants(q2, st)
  <2>1. IsWish(q2[n])
    BY <1>1, <1>4 DEF IsWish
  <2>2. ASSUME NEW k \in DOMAIN q2, q2[k].type = "MatchRequest",
               \A l \in DOMAIN q2 : IsWish(q2[l]) => l <= k
        PROVE  FALSE
    <3>1. k # n
      BY <1>1, <1>4, <2>2
    <3>2. k < n /\ n <= k /\ k \in Nat
      BY <1>1, <2>1, <2>2, <3>1
    <3> QED
      BY <1>1, <3>2
  <2> QED
    BY <1>1, <2>1, <2>2 DEF Wants, NoWish
<1> QED
  BY <1>2, <1>3, <1>4 DEF q2

-----------------------------------------------------------------------------
(* A page with the dialog dlg, the position p, the result dd to be shown,  *)
(* the record s and the messages d under way to it.                        *)

\* What is about a game comes behind the board of that game, a game behind
\* the welcome.
NeedsBoard(m) == m.type \in {"ForgiveRequest", "DrawRequest", "GameOver"}
Grounded(d, p) ==
  \A k \in DOMAIN d : NeedsBoard(d[k]) =>
    p # Nil \/ \E l \in DOMAIN d : l < k /\ IsBoard(d[l])
LateMatch(d) ==
  \A k \in DOMAIN d : d[k].type = "MatchResponse" => \E l \in DOMAIN d : l < k /\ IsTell(d[l])
OneTell(d) == \A k, l \in DOMAIN d : IsTell(d[k]) /\ IsTell(d[l]) => k = l

\* Who has no Entry, or is about to hear of it, is asked to log in and has no
\* board; a board leaves no way to the queue but over a finished game.
Screen(dlg, p, dd, s, home, d) ==
  /\ dlg = "login" <=> ~home \/ ~NoTell(d)
  /\ dlg = "login" => p = Nil /\ LateMatch(d)
  /\ p # Nil => dlg # "matching" /\ (dlg \in {"match", "result"} => ~(s.total < 1))
  /\ dd # Nil => p # Nil
  /\ Grounded(d, p) /\ OneTell(d)

\* The page shows that it looks for an opponent when the center, once it has
\* heard everything, thinks so too; or a game was found.
Agreed(dlg, p, home, st, q, d, crossed) ==
  /\ dlg = "login" => NoWish(q)
  /\ home /\ ~crossed => IF Gets(d, p) THEN st # "kMatching"
                         ELSE dlg = "matching" <=> Wants(q, st)

LEMMA GroundedHeard ==
  ASSUME NEW d \in Seq(Heard), d # <<>>, NEW p, NEW p2, Grounded(d, p),
         p2 # Nil \/ (p2 = p /\ ~IsBoard(Head(d)))
  PROVE  Grounded(Tail(d), p2)
<1>1. CASE p2 # Nil
  BY <1>1 DEF Grounded
<1>2. CASE p2 = Nil
  <2>1. p = Nil /\ ~IsBoard(d[1]) /\ 1 \in DOMAIN d
    BY <1>2, TailOf
  <2>2. ASSUME NEW k \in DOMAIN Tail(d), NeedsBoard(Tail(d)[k])
        PROVE  \E l \in DOMAIN Tail(d) : l < k /\ IsBoard(Tail(d)[l])
    <3>1. k + 1 \in DOMAIN d /\ NeedsBoard(d[k + 1]) /\ k \in Nat
      BY <2>2, TailOf
    <3>2. PICK l \in DOMAIN d : l < k + 1 /\ IsBoard(d[l])
      BY <2>1, <3>1 DEF Grounded
    <3>3. l # 1
      BY <2>1, <3>2
    <3>4. l \in Nat /\ l - 1 \in DOMAIN Tail(d) /\ Tail(d)[l - 1] = d[l]
      BY <3>3, TailOf
    <3>5. l - 1 < k
      BY <3>1, <3>2, <3>4
    <3> QED
      BY <3>2, <3>4, <3>5
  <2> QED
    BY <2>2 DEF Grounded
<1> QED
  BY <1>1, <1>2

LEMMA LateMatchHeard ==
  ASSUME NEW d \in Seq(Heard), d # <<>>, LateMatch(d), ~IsTell(Head(d))
  PROVE  LateMatch(Tail(d))
<1>1. ~IsTell(d[1]) /\ 1 \in DOMAIN d
  BY TailOf
<1> SUFFICES ASSUME NEW k \in DOMAIN Tail(d), Tail(d)[k].type = "MatchResponse"
             PROVE  \E l \in DOMAIN Tail(d) : l < k /\ IsTell(Tail(d)[l])
  BY DEF LateMatch
<1>2. k + 1 \in DOMAIN d /\ d[k + 1].type = "MatchResponse" /\ k \in Nat
  BY TailOf
<1>3. PICK l \in DOMAIN d : l < k + 1 /\ IsTell(d[l])
  BY <1>2 DEF LateMatch
<1>4. l # 1
  BY <1>1, <1>3
<1>5. l \in Nat /\ l - 1 \in DOMAIN Tail(d) /\ Tail(d)[l - 1] = d[l]
  BY <1>4, TailOf
<1>6. l - 1 < k
  BY <1>2, <1>3, <1>5
<1> QED
  BY <1>3, <1>5, <1>6

LEMMA OneTellHeard ==
  ASSUME NEW d \in Seq(Heard), d # <<>>, OneTell(d)
  PROVE  OneTell(Tail(d)) /\ (IsTell(Head(d)) => NoTell(Tail(d)))
<1>1. /\ 1 \in DOMAIN d /\ Head(d) = d[1]
      /\ \A k \in DOMAIN Tail(d) : /\ k + 1 \in DOMAIN d /\ Tail(d)[k] = d[k + 1]
                                   /\ k \in Nat \ {0}
  BY TailOf
<1>2. ASSUME NEW k \in DOMAIN Tail(d), NEW l \in DOMAIN Tail(d),
             IsTell(Tail(d)[k]), IsTell(Tail(d)[l])
      PROVE  k = l
  <2>1. k + 1 = l + 1
    BY <1>1, <1>2 DEF OneTell
  <2> QED
    BY <1>1, <2>1
<1>3. ASSUME IsTell(Head(d)), NEW k \in DOMAIN Tail(d), IsTell(Tail(d)[k])
      PROVE  FALSE
  <2>1. k + 1 = 1
    BY <1>1, <1>3 DEF OneTell
  <2> QED
    BY <1>1, <2>1
<1> QED
  BY <1>2, <1>3 DEF OneTell, NoTell

\* What the first message of a page tells of the page.
LEMMA FirstHeard ==
  ASSUME NEW d \in Seq(Heard), d # <<>>,
         NEW dlg, NEW p, NEW dd, NEW s, NEW home, Screen(dlg, p, dd, s, home, d)
  PROVE  /\ NeedsBoard(Head(d)) => p # Nil
         /\ IsTell(Head(d)) => dlg = "login" /\ p = Nil
         /\ Head(d).type = "MatchResponse" => dlg # "login"
<1>1. 1 \in DOMAIN d /\ d[1] = Head(d) /\ DOMAIN d \subseteq Nat \ {0}
  BY TailOf
<1>2. \A l \in DOMAIN d : ~(l < 1)
  BY <1>1
<1>3. NeedsBoard(Head(d)) => p # Nil
  BY <1>1, <1>2 DEF Screen, Grounded
<1>4. IsTell(Head(d)) => ~NoTell(d)
  BY <1>1 DEF NoTell
<1>5. Head(d).type = "MatchResponse" => ~LateMatch(d)
  BY <1>1, <1>2 DEF LateMatch
<1> QED
  BY <1>3, <1>4, <1>5 DEF Screen

\* A message that neither tells who the user is nor brings a board.
LEMMA OtherShown ==
  ASSUME NEW d \in Seq(Heard), d # <<>>, ~IsTell(Head(d)), ~IsBoard(Head(d)),
         NEW dlg, NEW p, NEW dd, NEW s, NEW home, Screen(dlg, p, dd, s, home, d),
         NEW st, NEW q, NEW crossed, Agreed(dlg, p, home, st, q, d, crossed)
  PROVE  /\ Screen(dlg, p, dd, s, home, Tail(d))
         /\ Agreed(dlg, p, home, st, q, Tail(d), crossed)
<1>1. NoTell(d) <=> NoTell(Tail(d))
  BY TailNews
<1>2. Grounded(Tail(d), p) /\ OneTell(Tail(d)) /\ (LateMatch(d) => LateMatch(Tail(d)))
  BY GroundedHeard, LateMatchHeard, OneTellHeard DEF Screen
<1>3. Gets(d, p) <=> Gets(Tail(d), p)
  <2>1. /\ 1 \in DOMAIN d /\ d[1] = Head(d)
        /\ \A k \in DOMAIN Tail(d) : k + 1 \in DOMAIN d /\ Tail(d)[k] = d[k + 1]
        /\ \A k \in DOMAIN d : k # 1 => k - 1 \in DOMAIN Tail(d) /\ Tail(d)[k - 1] = d[k]
    BY TailOf
  <2>2. (\E k \in DOMAIN d : IsBoard(d[k])) => \E k \in DOMAIN Tail(d) : IsBoard(Tail(d)[k])
    <3> SUFFICES ASSUME NEW k \in DOMAIN d, IsBoard(d[k])
                 PROVE  \E l \in DOMAIN Tail(d) : IsBoard(Tail(d)[l])
      OBVIOUS
    <3>1. k - 1 \in DOMAIN Tail(d) /\ Tail(d)[k - 1] = d[k]
      BY <2>1
    <3> QED
      BY <3>1
  <2>3. (\E k \in DOMAIN Tail(d) : IsBoard(Tail(d)[k])) => \E k \in DOMAIN d : IsBoard(d[k])
    BY <2>1
  <2> QED
    BY <2>2, <2>3 DEF Gets
<1>4. Screen(dlg, p, dd, s, home, Tail(d))
  BY <1>1, <1>2 DEF Screen
<1> QED
  BY <1>3, <1>4 DEF Agreed

\* The welcome.
LEMMA WelcomeShown ==
  ASSUME NEW d \in Seq(Heard), d # <<>>, IsTell(Head(d)), ~IsBoard(Head(d)),
         NEW dlg, NEW p, NEW dd, NEW s, NEW s2, Screen(dlg, p, dd, s, TRUE, d),
         NEW st, NEW q, NEW crossed, Agreed(dlg, p, TRUE, st, q, d, crossed)
  PROVE  /\ Screen("match", p, dd, s2, TRUE, Tail(d))
         /\ Agreed("match", p, TRUE, st, q, Tail(d), crossed)
<1>1. NoTell(Tail(d)) /\ OneTell(Tail(d)) /\ dlg = "login" /\ p = Nil
  BY OneTellHeard, FirstHeard DEF Screen
<1>2. Grounded(Tail(d), p)
  BY GroundedHeard DEF Screen
<1>3. Gets(d, p) <=> Gets(Tail(d), p)
  <2>1. /\ 1 \in DOMAIN d /\ d[1] = Head(d)
        /\ \A k \in DOMAIN Tail(d) : k + 1 \in DOMAIN d /\ Tail(d)[k] = d[k + 1]
        /\ \A k \in DOMAIN d : k # 1 => k - 1 \in DOMAIN Tail(d) /\ Tail(d)[k - 1] = d[k]
    BY TailOf
  <2>2. ASSUME NEW k \in DOMAIN d, IsBoard(d[k])
        PROVE  \E l \in DOMAIN Tail(d) : IsBoard(Tail(d)[l])
    <3>1. k - 1 \in DOMAIN Tail(d) /\ Tail(d)[k - 1] = d[k]
      BY <2>1, <2>2
    <3> QED
      BY <2>2, <3>1
  <2>3. (\E k \in DOMAIN Tail(d) : IsBoard(Tail(d)[k])) => \E k \in DOMAIN d : IsBoard(d[k])
    BY <2>1
  <2> QED
    BY <2>2, <2>3 DEF Gets
<1> QED
  BY <1>1, <1>2, <1>3 DEF Screen, Agreed

\* A new board.
LEMMA BoardShown ==
  ASSUME NEW d \in Seq(Heard), d # <<>>, IsBoard(Head(d)), NEW home, IsTell(Head(d)) => home,
         NEW dlg, NEW p, NEW p2, p2 # Nil, NEW dd, NEW s, NEW s2, Screen(dlg, p, dd, s, home, d),
         NEW st, NEW q, NEW crossed, Agreed(dlg, p, home, st, q, d, crossed)
  PROVE  /\ Screen("none", p2, dd, s2, home, Tail(d))
         /\ Agreed("none", p2, home, st, q, Tail(d), crossed)
<1>1. NoTell(Tail(d)) /\ home
  <2>1. CASE IsTell(Head(d))
    BY <2>1, OneTellHeard DEF Screen
  <2>2. CASE ~IsTell(Head(d))
    <3>1. Head(d).type = "MatchResponse"
      BY <2>2 DEF IsBoard, IsTell
    <3>2. dlg # "login"
      BY <3>1, FirstHeard
    <3>3. home /\ NoTell(d)
      BY <3>2 DEF Screen
    <3> QED
      BY <3>3, TailNews
  <2> QED
    BY <2>1, <2>2
<1>2. Grounded(Tail(d), p2) /\ OneTell(Tail(d))
  BY GroundedHeard, OneTellHeard DEF Screen
<1>3. Gets(d, p) /\ Gets(Tail(d), p2)
  BY TailOf DEF Gets
<1> QED
  BY <1>1, <1>2, <1>3 DEF Screen, Agreed

\* Other buttons and messages change neither who is asked to log in nor who
\* looks for an opponent.
LEMMA Unaware ==
  ASSUME NEW dlg, NEW p, NEW dd, NEW s, NEW home, NEW d, Screen(dlg, p, dd, s, home, d),
         NEW st, NEW q, NEW crossed, Agreed(dlg, p, home, st, q, d, crossed),
         NEW dlg2, NEW p2, NEW dd2, NEW s2, NEW q2,
         \/ dlg2 = dlg /\ s2 = s
         \/ /\ dlg \notin {"login", "matching"} /\ dlg2 \notin {"login", "matching"}
            /\ p # Nil /\ dlg2 \in {"match", "result"} => ~(s2.total < 1),
         p2 = Nil <=> p = Nil, dd2 # Nil => p # Nil,
         NoWish(q) => NoWish(q2), Wants(q2, st) <=> Wants(q, st)
  PROVE  /\ Screen(dlg2, p2, dd2, s2, home, d)
         /\ Agreed(dlg2, p2, home, st, q2, d, crossed)
<1>1. (Grounded(d, p2) <=> Grounded(d, p)) /\ (Gets(d, p2) <=> Gets(d, p))
  BY DEF Grounded, Gets
<1>2. (dlg2 = "login" <=> dlg = "login") /\ (dlg2 = "matching" <=> dlg = "matching")
  OBVIOUS
<1>3. p # Nil => (dlg2 \in {"match", "result"} => ~(s2.total < 1))
  BY DEF Screen
<1>4. Screen(dlg2, p2, dd2, s2, home, d)
  BY <1>1, <1>2, <1>3 DEF Screen
<1> QED
  BY <1>1, <1>2, <1>4 DEF Agreed

\* Who presses the button that asks for a match, and the one that takes it
\* back.
LEMMA MatchWished ==
  ASSUME NEW p, NEW dd, NEW s, NEW home, NEW d, Screen("match", p, dd, s, home, d), s.total < 1,
         NEW st, NEW q, NEW crossed, Agreed("match", p, home, st, q, d, crossed),
         NEW q2, Wants(q2, st)
  PROVE  /\ Screen("matching", p, dd, s, home, d)
         /\ Agreed("matching", p, home, st, q2, d, crossed)
  BY DEF Screen, Agreed

LEMMA MatchUnwished ==
  ASSUME NEW p, NEW dd, NEW s, NEW home, NEW d, Screen("matching", p, dd, s, home, d),
         NEW st, NEW q, NEW crossed, Agreed("matching", p, home, st, q, d, crossed),
         NEW q2, ~Wants(q2, st)
  PROVE  /\ Screen("match", p, dd, s, home, d)
         /\ Agreed("match", p, home, st, q2, d, crossed)
  BY DEF Screen, Agreed

-----------------------------------------------------------------------------
(* The invariant of the dialogs.                                           *)

Crossed == "crossed" \in mishaps
ScreenOK(u) ==
  Screen(dialog[u], pos[u], due[u], selfUser[u], IsHome(u), downq[cid[u]])
AgreedOK(u) ==
  Agreed(dialog[u], pos[u], IsHome(u), state[u], upq[cid[u]], downq[cid[u]], Crossed)
DialogInv ==
  /\ dialog \in [Users -> Dialogs]
  /\ \A u \in Users : ScreenOK(u) /\ AgreedOK(u)

LEMMA HomeOrNobody ==
  ASSUME WorldInv, NEW u \in Users
  PROVE  /\ cid[u] \in ConnIds
         /\ ~IsHome(u) <=> entrys[cid[u]] = Nil
         /\ IsHome(u) => state[u] # "none" /\ connId[u] = cid[u]
<1>1. cid[u] \in ConnIds /\ CenterInv /\ OwnersOK /\ u # Nil
  BY NilAssumption DEF WorldInv, WorldTypeOK
<1>2. ASSUME entrys[cid[u]] # Nil
      PROVE  IsHome(u)
  <2>1. entrys[cid[u]] \in Users
    BY <1>1, <1>2, EntryIsUser
  <2>2. Claims(entrys[cid[u]], cid[u]) /\ Claims(u, cid[u])
    BY DEF Claims
  <2> QED
    BY <1>1, <2>1, <2>2 DEF OwnersOK, IsHome
<1>3. IsHome(u) => entrys[cid[u]] # Nil
  BY <1>1 DEF IsHome
<1>4. IsHome(u) => state[u] # "none" /\ connId[u] = cid[u]
  BY <1>1, <1>3, EntryIsUser DEF IsHome
<1> QED
  BY <1>1, <1>2, <1>3, <1>4

\* The invariant says what it is there for.
LEMMA DialogsFit ==
  ASSUME WorldInv, DialogInv
  PROVE  DialogFitsState
<1> SUFFICES ASSUME NEW u \in Users, Quiet(u), "crossed" \notin mishaps
             PROVE  /\ dialog[u] = "matching" <=> entrys[cid[u]] = u /\ state[u] = "kMatching"
                    /\ dialog[u] = "match" => entrys[cid[u]] = u /\ state[u] = "kOnline"
                    /\ dialog[u] = "login" <=> entrys[cid[u]] = Nil
                    /\ InGame(u) => pos[u] # Nil /\ due[u] = Nil /\ dialog[u] # "result"
  BY DEF DialogFitsState
<1>1. upq[cid[u]] = <<>> /\ downq[cid[u]] = <<>> /\ ~Crossed
  BY DEF Quiet, Crossed
<1>2. NoTell(<<>>) /\ NoOver(<<>>) /\ NoWish(<<>>)
  BY DEF NoTell, NoOver, NoWish
<1>3. /\ Gets(<<>>, pos[u]) <=> pos[u] # Nil
      /\ Wants(<<>>, state[u]) <=> state[u] = "kMatching"
  BY <1>2 DEF Gets, Wants
<1>4. /\ Screen(dialog[u], pos[u], due[u], selfUser[u], IsHome(u), <<>>)
      /\ Agreed(dialog[u], pos[u], IsHome(u), state[u], <<>>, <<>>, Crossed)
  BY <1>1 DEF DialogInv, ScreenOK, AgreedOK
<1>5. dialog[u] = "login" <=> ~IsHome(u)
  BY <1>2, <1>4 DEF Screen
<1>6. IsHome(u) => IF pos[u] # Nil THEN state[u] # "kMatching"
                   ELSE dialog[u] = "matching" <=> state[u] = "kMatching"
  BY <1>1, <1>3, <1>4 DEF Agreed
<1>7. /\ pos[u] # Nil => dialog[u] # "matching"
      /\ pos[u] # Nil /\ dialog[u] \in {"match", "result"} => ~(selfUser[u].total < 1)
  BY <1>4 DEF Screen
<1>8. ASSUME IsHome(u), IsInRoom(u)
      PROVE  pos[u] # Nil /\ due[u] = Nil /\ dialog[u] \notin {"match", "result"}
  <2>1. pos[u] # Nil
    BY <1>1, <1>3, <1>8 DEF WorldInv, BoardsCome
  <2>2. Fits(<<>>, due[u], selfUser[u], NewUser)
    <3>1. record[u] = NewUser
      BY <1>8 DEF WorldInv, FilesOK
    <3>2. Fits(<<>>, due[u], selfUser[u], record[u])
      BY <1>1, <1>8 DEF WorldInv, RecordsCome
    <3> QED
      BY <3>1, <3>2
  <2>3. due[u] = Nil
    BY <2>2, CountedOnce DEF Fits
  <2>4. selfUser[u] = NewUser
    BY <1>2, <2>2, <2>3 DEF Fits, Known
  <2>5. selfUser[u].total < 1
    BY <2>4 DEF NewUser
  <2> QED
    BY <1>7, <2>1, <2>3, <2>5
<1>9. state[u] \in States
  BY DEF WorldInv, CenterInv, TypeOK
<1>10. /\ ~IsHome(u) <=> entrys[cid[u]] = Nil
       /\ IsHome(u) => state[u] # "none"
  BY HomeOrNobody
<1>11. IsHome(u) <=> entrys[cid[u]] = u
  BY DEF IsHome
<1>12. dialog[u] = "matching" <=> IsHome(u) /\ state[u] = "kMatching"
  BY <1>5, <1>6, <1>7
<1>13. dialog[u] = "match" => IsHome(u) /\ state[u] = "kOnline"
  BY <1>5, <1>8, <1>9, <1>10, <1>12 DEF States, IsInRoom
<1>14. InGame(u) => pos[u] # Nil /\ due[u] = Nil /\ dialog[u] # "result"
  BY <1>8, <1>11 DEF InGame, IsInRoom
<1> QED
  BY <1>5, <1>10, <1>11, <1>12, <1>13, <1>14

-----------------------------------------------------------------------------
(* The steps of a page change nothing for the others.                      *)

LEMMA OtherPages ==
  ASSUME DialogInv, NEW u \in Users, UNCHANGED <<entrys, state>>, Crossed' <=> Crossed,
         dialog' \in [Users -> Dialogs],
         \A w \in Users \ {u} :
           /\ cid'[w] = cid[w] /\ upq'[cid[w]] = upq[cid[w]] /\ downq'[cid[w]] = downq[cid[w]]
           /\ dialog'[w] = dialog[w] /\ pos'[w] = pos[w] /\ due'[w] = due[w]
           /\ selfUser'[w] = selfUser[w],
         ScreenOK(u)', AgreedOK(u)'
  PROVE  DialogInv'
<1>1. ASSUME NEW w \in Users \ {u}
      PROVE  ScreenOK(w)' /\ AgreedOK(w)'
  <2>1. ScreenOK(w) /\ AgreedOK(w)
    BY DEF DialogInv
  <2>2. IsHome(w)' <=> IsHome(w)
    BY DEF IsHome
  <2>3. ScreenOK(w)'
    BY <2>1, <2>2 DEF ScreenOK, Screen
  <2>4. AgreedOK(w)'
    BY <2>1, <2>2 DEF AgreedOK, Agreed
  <2> QED
    BY <2>3, <2>4
<1> QED
  BY <1>1 DEF DialogInv

\* A page says anything but a wish.
Chats(u) ==
  \/ UNCHANGED upq
  \/ \E m : Sayable(u, m) /\ ~IsWish(m) /\ upq' = [upq EXCEPT ![cid[u]] = Append(@, m)]

LEMMA Chatted ==
  ASSUME WorldInv, NEW u \in Users, Chats(u)
  PROVE  /\ \A w \in Users \ {u} : upq'[cid[w]] = upq[cid[w]]
         /\ NoWish(upq[cid[u]]) => NoWish(upq'[cid[u]])
         /\ Wants(upq'[cid[u]], state[u]) <=> Wants(upq[cid[u]], state[u])
<1>1. upq \in [ConnIds -> Seq(Said)] /\ cid[u] \in ConnIds
  BY DEF WorldInv, WorldTypeOK
<1>2. CASE UNCHANGED upq
  BY <1>2
<1>3. ASSUME NEW m, Sayable(u, m), ~IsWish(m), upq' = [upq EXCEPT ![cid[u]] = Append(@, m)]
      PROVE  /\ \A w \in Users \ {u} : upq'[cid[w]] = upq[cid[w]]
             /\ NoWish(upq[cid[u]]) => NoWish(upq'[cid[u]])
             /\ Wants(upq'[cid[u]], state[u]) <=> Wants(upq[cid[u]], state[u])
  <2>1. upq'[cid[u]] = Append(upq[cid[u]], m) /\ m \in Said /\ upq[cid[u]] \in Seq(Said)
    BY <1>1, <1>3 DEF Sayable
  <2>2. /\ NoWish(upq[cid[u]]) => NoWish(upq'[cid[u]])
        /\ Wants(upq'[cid[u]], state[u]) <=> Wants(upq[cid[u]], state[u])
    BY <1>3, <2>1, WishSaid
  <2>3. \A w \in Users \ {u} : upq'[cid[w]] = upq[cid[w]]
    BY <1>1, <1>3, OwnPages
  <2> QED
    BY <2>2, <2>3
<1> QED
  BY <1>2, <1>3 DEF Chats

LEMMA SaidChats ==
  ASSUME NEW u \in Users, NEW type, NEW data, Say(u, type, data),
         Sayable(u, [type |-> type, data |-> data]),
         type \notin {"MatchRequest", "CancelMatchRequest"}
  PROVE  Chats(u)
<1>1. ~IsWish([type |-> type, data |-> data])
  BY DEF IsWish
<1> QED
  BY <1>1 DEF Say, Chats

\* What a step leaves of the dialog.
Leads(dlg, dlg2) ==
  \/ dlg2 = dlg
  \/ /\ dlg \notin {"login", "matching"} /\ dlg2 \notin {"login", "matching"}
     /\ dlg2 \in {"match", "result"} => dlg \in {"match", "result"}

LEMMA TalkServes ==
  ASSUME WorldInv, DialogInv, NEW u \in Users, Chats(u),
         UNCHANGED <<entrys, state, cid, due, selfUser, downq>>, Crossed' <=> Crossed,
         NEW d \in Dialogs, Leads(dialog[u], d),
         (UNCHANGED dialog /\ d = dialog[u]) \/ dialog' = [dialog EXCEPT ![u] = d],
         \A w \in Users : pos'[w] = Nil <=> pos[w] = Nil,
         \A w \in Users \ {u} : pos'[w] = pos[w]
  PROVE  DialogInv'
<1>1. /\ \A w \in Users \ {u} : upq'[cid[w]] = upq[cid[w]]
      /\ NoWish(upq[cid[u]]) => NoWish(upq'[cid[u]])
      /\ Wants(upq'[cid[u]], state[u]) <=> Wants(upq[cid[u]], state[u])
  BY Chatted
<1>2. /\ dialog' \in [Users -> Dialogs] /\ dialog'[u] = d
      /\ \A w \in Users \ {u} : dialog'[w] = dialog[w]
  BY DEF DialogInv
<1>3. ScreenOK(u) /\ AgreedOK(u)
  BY DEF DialogInv
<1>4. PICK home \in BOOLEAN : home <=> IsHome(u)
  OBVIOUS
<1>5. PICK crossed \in BOOLEAN : crossed <=> Crossed
  OBVIOUS
<1>6. /\ Screen(dialog[u], pos[u], due[u], selfUser[u], home, downq[cid[u]])
      /\ Agreed(dialog[u], pos[u], home, state[u], upq[cid[u]], downq[cid[u]], crossed)
  BY <1>3, <1>4, <1>5 DEF ScreenOK, AgreedOK, Screen, Agreed
<1>7. \/ d = dialog[u]
      \/ /\ dialog[u] \notin {"login", "matching"} /\ d \notin {"login", "matching"}
         /\ pos[u] # Nil /\ d \in {"match", "result"} => ~(selfUser[u].total < 1)
  BY <1>6 DEF Leads, Screen
<1>8. due[u] # Nil => pos[u] # Nil
  BY <1>6 DEF Screen
<1>9. /\ Screen(d, pos'[u], due[u], selfUser[u], home, downq[cid[u]])
      /\ Agreed(d, pos'[u], home, state[u], upq'[cid[u]], downq[cid[u]], crossed)
  BY <1>1, <1>6, <1>7, <1>8, Unaware
<1>10. (IsHome(u)' <=> home) /\ (Crossed' <=> crossed)
  BY <1>4, <1>5 DEF IsHome
<1>11. ScreenOK(u)' /\ AgreedOK(u)'
  BY <1>2, <1>9, <1>10 DEF ScreenOK, AgreedOK, Screen, Agreed
<1> QED
  BY <1>1, <1>2, <1>11, OtherPages

LEMMA WishServes ==
  ASSUME WorldInv, DialogInv, NEW u \in Users,
         UNCHANGED <<entrys, state, cid, pos, due, selfUser, downq>>, Crossed' <=> Crossed,
         (ChooseMatch(u) /\ dialog[u] = "match") \/ (CancelMatching(u) /\ dialog[u] = "matching")
  PROVE  DialogInv'
<1>1. PICK m : /\ m \in Said
               /\ upq' = [upq EXCEPT ![cid[u]] = Append(@, m)]
               /\ \/ /\ m.type = "MatchRequest" /\ dialog[u] = "match" /\ selfUser[u].total < 1
                     /\ dialog' = [dialog EXCEPT ![u] = "matching"]
                  \/ /\ m.type = "CancelMatchRequest" /\ dialog[u] = "matching"
                     /\ dialog' = [dialog EXCEPT ![u] = "match"]
  <2>1. CASE ChooseMatch(u) /\ dialog[u] = "match"
    <3>1. PICK type \in RoomTypes : Say(u, "MatchRequest", [type |-> type])
      BY <2>1 DEF ChooseMatch
    <3> DEFINE m == [type |-> "MatchRequest", data |-> [type |-> type]]
    <3>2. m \in Said /\ m.type = "MatchRequest"
      BY SaidTyped DEF Sayable
    <3>3. upq' = [upq EXCEPT ![cid[u]] = Append(@, m)]
      BY <3>1 DEF Say
    <3>4. dialog[u] = "match" /\ dialog' = [dialog EXCEPT ![u] = "matching"] /\ selfUser[u].total < 1
      BY <2>1 DEF ChooseMatch, Show
    <3> HIDE DEF m
    <3> QED
      BY <3>2, <3>3, <3>4
  <2>2. CASE CancelMatching(u) /\ dialog[u] = "matching"
    <3> DEFINE m == [type |-> "CancelMatchRequest", data |-> NoBody]
    <3>1. m \in Said /\ m.type = "CancelMatchRequest"
      BY SaidTyped DEF Sayable
    <3>2. upq' = [upq EXCEPT ![cid[u]] = Append(@, m)]
      BY <2>2 DEF CancelMatching, Say
    <3>3. dialog[u] = "matching" /\ dialog' = [dialog EXCEPT ![u] = "match"]
      BY <2>2 DEF CancelMatching, Show
    <3> HIDE DEF m
    <3> QED
      BY <3>1, <3>2, <3>3
  <2> QED
    BY <2>1, <2>2
<1>2. /\ upq \in [ConnIds -> Seq(Said)] /\ cid[u] \in ConnIds
      /\ dialog \in [Users -> Dialogs]
  BY DEF WorldInv, WorldTypeOK, DialogInv
<1>3. upq'[cid[u]] = Append(upq[cid[u]], m) /\ upq[cid[u]] \in Seq(Said)
  BY <1>1, <1>2
<1>4. \A w \in Users \ {u} : upq'[cid[w]] = upq[cid[w]] /\ dialog'[w] = dialog[w]
  BY <1>1, <1>2, OwnPages
<1>5. /\ dialog' \in [Users -> Dialogs]
      /\ \/ /\ dialog[u] = "match" /\ selfUser[u].total < 1 /\ dialog'[u] = "matching"
            /\ Wants(upq'[cid[u]], state[u])
         \/ /\ dialog[u] = "matching" /\ dialog'[u] = "match"
            /\ ~Wants(upq'[cid[u]], state[u])
  BY <1>1, <1>2, <1>3, WishSaid DEF Dialogs
<1>6. PICK home \in BOOLEAN : home <=> IsHome(u)
  OBVIOUS
<1>7. PICK crossed \in BOOLEAN : crossed <=> Crossed
  OBVIOUS
<1>8. /\ Screen(dialog[u], pos[u], due[u], selfUser[u], home, downq[cid[u]])
      /\ Agreed(dialog[u], pos[u], home, state[u], upq[cid[u]], downq[cid[u]], crossed)
  BY <1>6, <1>7 DEF DialogInv, ScreenOK, AgreedOK, Screen, Agreed
<1>9. /\ Screen(dialog'[u], pos[u], due[u], selfUser[u], home, downq[cid[u]])
      /\ Agreed(dialog'[u], pos[u], home, state[u], upq'[cid[u]], downq[cid[u]], crossed)
  BY <1>5, <1>8, MatchWished, MatchUnwished
<1>10. (IsHome(u)' <=> home) /\ (Crossed' <=> crossed)
  BY <1>6, <1>7 DEF IsHome
<1>11. ScreenOK(u)' /\ AgreedOK(u)'
  BY <1>9, <1>10 DEF ScreenOK, AgreedOK, Screen, Agreed
<1> QED
  BY <1>4, <1>5, <1>11, OtherPages

LEMMA TakenBackKeeps ==
  ASSUME WorldInv, NEW u \in Users, undo[u] > 0, TakeBack(u)
  PROVE  /\ \A w \in Users : pos'[w] = Nil <=> pos[w] = Nil
         /\ \A w \in Users \ {u} : pos'[w] = pos[w]
<1>1. /\ pos[u] \in Fens /\ pos \in [Users -> Fens \cup {Nil}]
      /\ pos' = [pos EXCEPT ![u] = Front(pos[u])] /\ Front(pos[u]) \in Fens
  BY TakenBack, PageTyped DEF TakeBack
<1> QED
  BY <1>1, NilAssumption

LEMMA ConfirmChats ==
  ASSUME NEW u \in Users
  PROVE  /\ Say(u, "LoginRequest", [username |-> u]) => Chats(u)
         /\ \A type \in {"ForgiveRequest", "DrawRequest", "Giveup"} :
              Say(u, type, NoBody) => Chats(u)
         /\ \A type \in {"ForgiveResponse", "DrawResponse"}, agree \in BOOLEAN, fen \in Fens :
              Say(u, type, [agree |-> agree, fen |-> fen]) => Chats(u)
         /\ \A fen \in Fens, over \in BOOLEAN :
              fen # <<>> /\ Say(u, "MoveStep", [over |-> over, fen |-> fen]) => Chats(u)
<1>1. ASSUME Say(u, "LoginRequest", [username |-> u])
      PROVE  Chats(u)
  <2>1. Sayable(u, [type |-> "LoginRequest", data |-> [username |-> u]])
    BY SaidTyped
  <2> QED
    BY <1>1, <2>1, SaidChats
<1>2. ASSUME NEW type \in {"ForgiveRequest", "DrawRequest", "Giveup"}, Say(u, type, NoBody)
      PROVE  Chats(u)
  <2>1. Sayable(u, [type |-> type, data |-> NoBody])
    BY SaidTyped
  <2> QED
    BY <1>2, <2>1, SaidChats
<1>3. ASSUME NEW type \in {"ForgiveResponse", "DrawResponse"}, NEW agree \in BOOLEAN,
             NEW fen \in Fens, Say(u, type, [agree |-> agree, fen |-> fen])
      PROVE  Chats(u)
  <2>1. Sayable(u, [type |-> type, data |-> [agree |-> agree, fen |-> fen]])
    BY SaidTyped
  <2> QED
    BY <1>3, <2>1, SaidChats
<1>4. ASSUME NEW fen \in Fens, NEW over \in BOOLEAN, fen # <<>>,
             Say(u, "MoveStep", [over |-> over, fen |-> fen])
      PROVE  Chats(u)
  <2>1. Sayable(u, [type |-> "MoveStep", data |-> [over |-> over, fen |-> fen]])
    BY <1>4, SaidTyped
  <2> QED
    BY <1>4, <2>1, SaidChats
<1> QED
  BY <1>1, <1>2, <1>3, <1>4

LEMMA ClickServes ==
  ASSUME WorldInv, DialogInv, NEW u \in Users, Click(u)
  PROVE  DialogInv'
<1>1. /\ UNCHANGED <<entrys, state, cid, due, selfUser, downq>> /\ (Crossed' <=> Crossed)
      /\ Press(u, dialog[u])
  BY DEF Click, restOfPage, restOfWorld, centerVars, hallVars, Crossed
<1>2. ASSUME Chats(u), UNCHANGED pos, NEW d \in Dialogs, Leads(dialog[u], d),
             (UNCHANGED dialog /\ d = dialog[u]) \/ Show(u, d)
      PROVE  DialogInv'
  BY <1>1, <1>2, TalkServes DEF Show
<1>3. dialog[u] \in Dialogs /\ Leads(dialog[u], dialog[u]) /\ "none" \in Dialogs
  BY DEF DialogInv, Leads, Dialogs
<1>4. CASE dialog[u] = "login" /\ LogIn(u)
  <2>1. Chats(u)
    BY <1>4, ConfirmChats DEF LogIn
  <2> QED
    BY <1>2, <1>3, <1>4, <2>1 DEF LogIn, boardVars
<1>5. CASE dialog[u] = "match" /\ ChooseMatch(u)
  BY <1>1, <1>5, WishServes DEF ChooseMatch, boardVars
<1>6. CASE dialog[u] = "matching" /\ CancelMatching(u)
  BY <1>1, <1>6, WishServes DEF CancelMatching, boardVars
<1>7. CASE dialog[u] = "result" /\ Again(u)
  <2>1. Leads("result", "match") /\ "match" \in Dialogs
    BY DEF Leads, Dialogs
  <2> QED
    BY <1>2, <1>7, <2>1 DEF Again, boardVars, Chats
<1>8. ASSUME dialog[u] \in Questions
      PROVE  Leads(dialog[u], "none")
  BY <1>8 DEF Questions, Leads
<1>9. ASSUME NEW type \in {"ForgiveRequest", "DrawRequest", "Giveup"},
             dialog[u] \in Questions, Confirm(u, type)
      PROVE  DialogInv'
  <2>1. Chats(u)
    BY <1>9, ConfirmChats DEF Confirm
  <2> QED
    BY <1>2, <1>3, <1>8, <1>9, <2>1 DEF Confirm, Clear, boardVars
<1>10. CASE dialog[u] \in Questions /\ Decline(u)
  BY <1>2, <1>3, <1>8, <1>10 DEF Decline, Clear, boardVars, Chats
<1>11. ASSUME NEW type \in {"ForgiveResponse", "DrawResponse"}, NEW agree \in BOOLEAN,
              dialog[u] \in Questions, Answer(u, type, agree)
       PROVE  DialogInv'
  <2>1. Chats(u)
    BY <1>11, ConfirmChats, FensFacts DEF Answer
  <2> QED
    BY <1>2, <1>3, <1>8, <1>11, <2>1 DEF Answer, Clear, boardVars
<1>12. CASE dialog[u] = "oppForgive" /\ AgreeToTakeBack(u)
  <2>1. CASE undo[u] > 0
    <3>1. TakeBack(u) /\ Say(u, "ForgiveResponse", [agree |-> TRUE, fen |-> Front(pos[u])])
          /\ Clear(u)
      BY <1>12, <2>1 DEF AgreeToTakeBack
    <3>2. Front(pos[u]) \in Fens
      BY <2>1, <3>1, TakenBack
    <3>3. Chats(u)
      BY <3>1, <3>2, ConfirmChats
    <3>4. /\ \A w \in Users : pos'[w] = Nil <=> pos[w] = Nil
          /\ \A w \in Users \ {u} : pos'[w] = pos[w]
      BY <2>1, <3>1, TakenBackKeeps
    <3>5. Leads(dialog[u], "none")
      BY <1>12 DEF Leads
    <3> QED
      BY <1>1, <1>3, <3>1, <3>3, <3>4, <3>5, TalkServes DEF Clear, Show
  <2>2. CASE ~(undo[u] > 0)
    <3>1. UNCHANGED <<dialog, upq, pos>>
      BY <1>12, <2>2 DEF AgreeToTakeBack, boardVars
    <3> QED
      BY <1>2, <1>3, <3>1 DEF Chats
  <2> QED
    BY <2>1, <2>2
<1>13. /\ "oppForgive" \in Questions /\ "oppDraw" \in Questions /\ "selfForgive" \in Questions
       /\ "selfDraw" \in Questions /\ "giveup" \in Questions
  BY DEF Questions
<1> QED
  BY <1>1, <1>4, <1>5, <1>6, <1>7, <1>9, <1>10, <1>11, <1>12, <1>13 DEF Press

LEMMA AskServes ==
  ASSUME WorldInv, DialogInv, NEW u \in Users, Ask(u)
  PROVE  DialogInv'
<1>1. PICK b \in Buttons : dialog' = [dialog EXCEPT ![u] = b]
  BY DEF Ask, Show
<1>2. dialog[u] = "none" /\ UNCHANGED upq /\ (Crossed' <=> Crossed)
      /\ UNCHANGED <<entrys, state, cid, pos, due, selfUser, downq>>
  BY DEF Ask, Free, boardVars, restOfPage, restOfWorld, centerVars, hallVars, Crossed
<1>3. b \in {"selfForgive", "selfDraw", "giveup"}
  BY GameAssumption
<1>4. b \in Dialogs /\ Leads(dialog[u], b)
  BY <1>2, <1>3 DEF Dialogs, Questions, Leads
<1>5. Chats(u)
  BY <1>2 DEF Chats
<1> QED
  BY <1>1, <1>2, <1>4, <1>5, TalkServes

LEMMA PlayServes ==
  ASSUME WorldInv, NEW u \in Users, pos[u] # Nil, NEW fen \in Fens, Play(u, fen)
  PROVE  /\ \A w \in Users : pos'[w] = Nil <=> pos[w] = Nil
         /\ \A w \in Users \ {u} : pos'[w] = pos[w]
<1>1. fen # Nil
  BY NilAssumption
<1>2. pos' = [pos EXCEPT ![u] = fen] /\ pos \in [Users -> Fens \cup {Nil}]
  BY PageTyped DEF Play
<1> QED
  BY <1>1, <1>2

LEMMA PlayMoveServes ==
  ASSUME WorldInv, DialogInv, NEW u \in Users, NEW m \in Moves, PlayMove(u, m)
  PROVE  DialogInv'
<1> DEFINE fen == Append(pos[u], m)
<1>1. /\ pos[u] # Nil /\ Len(fen) <= MaxPlies
      /\ Play(u, fen) /\ Say(u, "MoveStep", [over |-> Mated(fen), fen |-> fen])
  BY DEF PlayMove, Free, MoveStepOf
<1>2. UNCHANGED <<entrys, state, cid, due, selfUser, downq, dialog>> /\ (Crossed' <=> Crossed)
  BY DEF PlayMove, restOfPage, restOfWorld, centerVars, hallVars, Crossed
<1>3. pos[u] \in Fens
  BY <1>1, PageTyped
<1>4. fen \in Fens /\ fen # <<>> /\ Mated(fen) \in BOOLEAN
  BY <1>1, <1>3, Played
<1> HIDE DEF fen
<1>5. Chats(u)
  BY <1>1, <1>4, ConfirmChats
<1>6. /\ \A w \in Users : pos'[w] = Nil <=> pos[w] = Nil
      /\ \A w \in Users \ {u} : pos'[w] = pos[w]
  BY <1>1, <1>4, PlayServes
<1>7. dialog[u] \in Dialogs /\ Leads(dialog[u], dialog[u])
  BY DEF DialogInv, Leads
<1> QED
  BY <1>2, <1>5, <1>6, <1>7, TalkServes

\* The result is shown on the board it was reached on, and it is the record
\* of a game.
LEMMA ShowResultServes ==
  ASSUME WorldInv, DialogInv, NEW u \in Users, ShowResult(u)
  PROVE  DialogInv'
<1> DEFINE d == due[u]
           s == Counted(selfUser[u], d.type, d.changescore)
<1>1. /\ d # Nil /\ selfUser' = [selfUser EXCEPT ![u] = s] /\ due' = [due EXCEPT ![u] = Nil]
      /\ dialog' = [dialog EXCEPT ![u] = "result"]
      /\ UNCHANGED <<entrys, state, cid, pos, upq, downq>> /\ (Crossed' <=> Crossed)
  BY DEF ShowResult, boardVars, restOfWorld, Show, centerVars, hallVars, Crossed
<1>2. /\ downq[cid[u]] \in Seq(Heard)
      /\ due \in [Users -> GameResult \cup {Nil}] /\ selfUser \in [Users -> Info \cup {Nil}]
      /\ dialog \in [Users -> Dialogs]
  BY DEF WorldInv, WorldTypeOK, DialogInv
<1>3. IsHome(u) /\ Fits(downq[cid[u]], d, selfUser[u], record[u])
  BY <1>1 DEF WorldInv, RecordsCome
<1>4. s.total = 1
  <2>1. NoTell(downq[cid[u]]) /\ NoOver(downq[cid[u]])
    BY <1>1, <1>3 DEF Fits, NoTell, NoOver
  <2>2. selfUser[u] = NewUser
    BY <1>1, <1>3, <2>1 DEF Fits, Known
  <2> QED
    BY <2>2, CountedOnce
<1>5. PICK home \in BOOLEAN : home <=> IsHome(u)
  OBVIOUS
<1>6. PICK crossed \in BOOLEAN : crossed <=> Crossed
  OBVIOUS
<1>7. /\ Screen(dialog[u], pos[u], d, selfUser[u], home, downq[cid[u]])
      /\ Agreed(dialog[u], pos[u], home, state[u], upq[cid[u]], downq[cid[u]], crossed)
  BY <1>5, <1>6 DEF DialogInv, ScreenOK, AgreedOK, Screen, Agreed
<1> HIDE DEF d, s
<1>8. pos[u] # Nil /\ dialog[u] \notin {"login", "matching"} /\ ~(s.total < 1)
  BY <1>1, <1>4, <1>7 DEF Screen
<1>9. /\ Screen("result", pos[u], Nil, s, home, downq[cid[u]])
      /\ Agreed("result", pos[u], home, state[u], upq[cid[u]], downq[cid[u]], crossed)
  BY <1>7, <1>8, Unaware
<1>10. /\ dialog'[u] = "result" /\ due'[u] = Nil /\ selfUser'[u] = s
       /\ (IsHome(u)' <=> home) /\ (Crossed' <=> crossed)
  BY <1>1, <1>2, <1>5, <1>6 DEF IsHome
<1>11. ScreenOK(u)' /\ AgreedOK(u)'
  BY <1>1, <1>9, <1>10 DEF ScreenOK, AgreedOK, Screen, Agreed
<1>12. dialog' \in [Users -> Dialogs]
  BY <1>1, <1>2 DEF Dialogs
<1>13. \A w \in Users \ {u} :
         /\ cid'[w] = cid[w] /\ upq'[cid[w]] = upq[cid[w]] /\ downq'[cid[w]] = downq[cid[w]]
         /\ dialog'[w] = dialog[w] /\ pos'[w] = pos[w] /\ due'[w] = due[w]
         /\ selfUser'[w] = selfUser[w]
  BY <1>1, <1>2
<1> QED
  BY <1>1, <1>11, <1>12, <1>13, OtherPages

LEMMA RefreshServes ==
  ASSUME WorldInv, DialogInv, NEW u \in Users, Refresh(u)
  PROVE  DialogInv'
<1> DEFINE c == cid[u]
<1>1. PICK i \in ConnIds : /\ ~Present(i) /\ entrys[i] = Nil /\ upq[i] = <<>>
                           /\ cid' = [cid EXCEPT ![u] = i]
  BY DEF Refresh
<1>2. /\ upq' = [upq EXCEPT ![c] = Append(upq[c], [type |-> "Disconnected", data |-> NoBody])]
      /\ downq' = [downq EXCEPT ![c] = <<>>]
      /\ pos' = [pos EXCEPT ![u] = Nil]
      /\ due' = [due EXCEPT ![u] = Nil] /\ selfUser' = [selfUser EXCEPT ![u] = Nil]
      /\ dialog' = [dialog EXCEPT ![u] = "login"]
      /\ UNCHANGED <<entrys, state>> /\ (Crossed' <=> Crossed)
  BY DEF Refresh, Say, Show, centerVars, hallVars, Crossed
<1>3. /\ c \in ConnIds /\ c # i
      /\ cid \in [Users -> ConnIds]
      /\ upq \in [ConnIds -> Seq(Said)] /\ downq \in [ConnIds -> Seq(Heard)]
      /\ pos \in [Users -> Fens \cup {Nil}] /\ due \in [Users -> GameResult \cup {Nil}]
      /\ selfUser \in [Users -> Info \cup {Nil}] /\ dialog \in [Users -> Dialogs]
      /\ downq[i] = <<>>
  BY <1>1 DEF WorldInv, WorldTypeOK, DialogInv, OwnersOK, Present
<1>4. \A w \in Users : w # u => cid'[w] = cid[w] /\ cid[w] # c
  BY <1>1, <1>3, OwnPages
<1> HIDE DEF c
<1>5. /\ cid'[u] = i /\ upq'[i] = <<>> /\ downq'[i] = <<>>
      /\ dialog'[u] = "login" /\ pos'[u] = Nil /\ due'[u] = Nil /\ selfUser'[u] = Nil
      /\ entrys'[i] = Nil
  BY <1>1, <1>2, <1>3
<1>6. ~IsHome(u)'
  BY <1>5, NilAssumption DEF IsHome
<1>7. NoTell(<<>>) /\ NoWish(<<>>) /\ LateMatch(<<>>) /\ Grounded(<<>>, Nil) /\ OneTell(<<>>)
  BY DEF NoTell, NoWish, LateMatch, Grounded, OneTell
<1>8. \A st, crossed :
        /\ Screen("login", Nil, Nil, Nil, FALSE, <<>>)
        /\ Agreed("login", Nil, FALSE, st, <<>>, <<>>, crossed)
  BY <1>7 DEF Screen, Agreed
<1>9. ScreenOK(u)' /\ AgreedOK(u)'
  BY <1>5, <1>6, <1>8 DEF ScreenOK, AgreedOK, Screen, Agreed
<1>10. dialog' \in [Users -> Dialogs]
  BY <1>2, <1>3 DEF Dialogs
<1>11. \A w \in Users \ {u} :
         /\ cid'[w] = cid[w] /\ upq'[cid[w]] = upq[cid[w]] /\ downq'[cid[w]] = downq[cid[w]]
         /\ dialog'[w] = dialog[w] /\ pos'[w] = pos[w] /\ due'[w] = due[w]
         /\ selfUser'[w] = selfUser[w]
  BY <1>2, <1>3, <1>4
<1> QED
  BY <1>2, <1>9, <1>10, <1>11, OtherPages

-----------------------------------------------------------------------------
(* What a page makes of a message.                                         *)

\* Whatever else the page of u does with the message, it is the first one it
\* has, and what it shows then is in order.
LEMMA HeardServes ==
  ASSUME WorldInv, DialogInv, NEW u \in Users, downq[cid[u]] # <<>>, Pop(u), Chats(u),
         UNCHANGED <<entrys, state, cid>>, Crossed' <=> Crossed,
         NEW d \in Dialogs, (UNCHANGED dialog /\ d = dialog[u]) \/ Show(u, d),
         \A w \in Users \ {u} :
           pos'[w] = pos[w] /\ due'[w] = due[w] /\ selfUser'[w] = selfUser[w],
         \A home \in BOOLEAN, crossed \in BOOLEAN :
           /\ Screen(dialog[u], pos[u], due[u], selfUser[u], home, downq[cid[u]])
           /\ Agreed(dialog[u], pos[u], home, state[u], upq[cid[u]], downq[cid[u]], crossed)
           /\ home <=> IsHome(u)
           => /\ Screen(d, pos'[u], due'[u], selfUser'[u], home, Tail(downq[cid[u]]))
              /\ Agreed(d, pos'[u], home, state[u], upq[cid[u]], Tail(downq[cid[u]]), crossed)
  PROVE  DialogInv'
<1>1. /\ \A w \in Users \ {u} : upq'[cid[w]] = upq[cid[w]]
      /\ NoWish(upq[cid[u]]) => NoWish(upq'[cid[u]])
      /\ Wants(upq'[cid[u]], state[u]) <=> Wants(upq[cid[u]], state[u])
  BY Chatted
<1>2. /\ dialog' \in [Users -> Dialogs] /\ dialog'[u] = d
      /\ \A w \in Users \ {u} : dialog'[w] = dialog[w]
  BY DEF DialogInv, Show
<1>3. downq \in [ConnIds -> Seq(Heard)] /\ cid[u] \in ConnIds
  BY DEF WorldInv, WorldTypeOK
<1>4. /\ downq'[cid[u]] = Tail(downq[cid[u]])
      /\ \A w \in Users \ {u} : downq'[cid[w]] = downq[cid[w]]
  BY <1>3, OwnPages DEF Pop
<1>5. PICK home \in BOOLEAN : home <=> IsHome(u)
  OBVIOUS
<1>6. PICK crossed \in BOOLEAN : crossed <=> Crossed
  OBVIOUS
<1>7. /\ Screen(dialog[u], pos[u], due[u], selfUser[u], home, downq[cid[u]])
      /\ Agreed(dialog[u], pos[u], home, state[u], upq[cid[u]], downq[cid[u]], crossed)
  BY <1>5, <1>6 DEF DialogInv, ScreenOK, AgreedOK, Screen, Agreed
<1>8. /\ Screen(d, pos'[u], due'[u], selfUser'[u], home, Tail(downq[cid[u]]))
      /\ Agreed(d, pos'[u], home, state[u], upq[cid[u]], Tail(downq[cid[u]]), crossed)
  BY <1>5, <1>7
<1>9. Agreed(d, pos'[u], home, state[u], upq'[cid[u]], Tail(downq[cid[u]]), crossed)
  BY <1>1, <1>8 DEF Agreed
<1>10. (IsHome(u)' <=> home) /\ (Crossed' <=> crossed)
  BY <1>5, <1>6 DEF IsHome
<1>11. ScreenOK(u)' /\ AgreedOK(u)'
  BY <1>2, <1>4, <1>8, <1>9, <1>10 DEF ScreenOK, AgreedOK, Screen, Agreed
<1> QED
  BY <1>1, <1>2, <1>4, <1>11, OtherPages

\* A message that is about neither the login nor the match.
LEMMA OtherServes ==
  ASSUME NEW h \in Seq(Heard), h # <<>>, ~IsTell(Head(h)), ~IsBoard(Head(h)),
         NEW dlg, NEW p, NEW dd, NEW s, NEW home, Screen(dlg, p, dd, s, home, h),
         NEW st, NEW q, NEW crossed, Agreed(dlg, p, home, st, q, h, crossed),
         NEW dlg2, NEW p2, NEW dd2,
         dlg2 = dlg \/ (/\ p # Nil /\ dlg2 \notin {"login", "match", "matching", "result"}),
         p2 = Nil <=> p = Nil, dd2 # Nil => p # Nil
  PROVE  /\ Screen(dlg2, p2, dd2, s, home, Tail(h))
         /\ Agreed(dlg2, p2, home, st, q, Tail(h), crossed)
<1>1. /\ Screen(dlg, p, dd, s, home, Tail(h))
      /\ Agreed(dlg, p, home, st, q, Tail(h), crossed)
  BY OtherShown
<1>2. PICK t : t = Tail(h)
  OBVIOUS
<1>3. /\ Screen(dlg, p, dd, s, home, t)
      /\ Agreed(dlg, p, home, st, q, t, crossed)
  BY <1>1, <1>2
<1>4. (Grounded(t, p2) <=> Grounded(t, p)) /\ (Gets(t, p2) <=> Gets(t, p))
  BY DEF Grounded, Gets
<1>5. p # Nil => dlg \notin {"login", "matching"}
  BY <1>3 DEF Screen
<1>6. (dlg2 = "login" <=> dlg = "login") /\ (dlg2 = "matching" <=> dlg = "matching")
  BY <1>5
<1>7. Screen(dlg2, p2, dd2, s, home, t)
  BY <1>3, <1>4, <1>5, <1>6 DEF Screen
<1>8. Agreed(dlg2, p2, home, st, q, t, crossed)
  BY <1>3, <1>4, <1>6 DEF Agreed
<1> QED
  BY <1>2, <1>7, <1>8

LEMMA ReceiveServes ==
  ASSUME WorldInv, DialogInv, NEW u \in Users, Receive(u)
  PROVE  DialogInv'
<1> DEFINE h == downq[cid[u]]
           m == Head(h)
           p == pos[u]
<1>1. h # <<>> /\ Pop(u) /\ UNCHANGED <<entrys, state>>
  BY DEF Receive, centerVars, hallVars
<1>2. /\ h \in Seq(Heard) /\ dialog \in [Users -> Dialogs]
      /\ pos \in [Users -> Fens \cup {Nil}] /\ due \in [Users -> GameResult \cup {Nil}]
      /\ selfUser \in [Users -> Info \cup {Nil}]
  BY DEF WorldInv, WorldTypeOK, DialogInv
<1>3. m \in Heard
  BY <1>1, <1>2, TailOf
<1>4. Screen(dialog[u], p, due[u], selfUser[u], IsHome(u), h)
  BY DEF DialogInv, ScreenOK
<1>5. IsTell(m) => IsHome(u)
  <2>1. ~IsHome(u) => NoTell(h)
    BY DEF WorldInv, RecordsCome
  <2>2. 1 \in DOMAIN h /\ h[1] = m
    BY <1>1, <1>2, TailOf
  <2> QED
    BY <2>1, <2>2 DEF NoTell
<1>6. NeedsBoard(m) \/ m.type = "MoveStep" => p # Nil
  <2>1. NeedsBoard(m) => p # Nil
    <3>1. PICK home : home = IsHome(u)
      OBVIOUS
    <3>2. Screen(dialog[u], p, due[u], selfUser[u], home, h)
      BY <1>4, <3>1
    <3> HIDE DEF h
    <3> QED
      BY <1>1, <1>2, <3>2, FirstHeard
  <2>2. Seats(h, p)
    BY DEF WorldInv, BoardsCome
  <2>3. m.type = "MoveStep" => p # Nil
    BY <1>1, <1>2, <2>2, MoveHasBoard
  <2> QED
    BY <2>1, <2>3
\* Messages that bring neither the record nor a board.
<1>7. ASSUME ~IsTell(m), ~IsBoard(m), Chats(u), UNCHANGED <<cid, selfUser>>,
             Crossed' <=> Crossed,
             NEW d \in Dialogs, (UNCHANGED dialog /\ d = dialog[u]) \/ Show(u, d),
             d = dialog[u] \/ (p # Nil /\ d \notin {"login", "match", "matching", "result"}),
             \A w \in Users \ {u} : pos'[w] = pos[w] /\ due'[w] = due[w],
             pos'[u] = Nil <=> p = Nil,
             due'[u] = due[u] \/ p # Nil
      PROVE  DialogInv'
  <2>1. ASSUME NEW home \in BOOLEAN, NEW crossed \in BOOLEAN,
               Screen(dialog[u], p, due[u], selfUser[u], home, h),
               Agreed(dialog[u], p, home, state[u], upq[cid[u]], h, crossed)
        PROVE  /\ Screen(d, pos'[u], due'[u], selfUser'[u], home, Tail(h))
               /\ Agreed(d, pos'[u], home, state[u], upq[cid[u]], Tail(h), crossed)
    <3>1. due'[u] # Nil => p # Nil
      BY <1>7, <2>1 DEF Screen
    <3>2. PICK p2, dd2 : p2 = pos'[u] /\ dd2 = due'[u]
      OBVIOUS
    <3>3. PICK st, q : st = state[u] /\ q = upq[cid[u]]
      OBVIOUS
    <3>4. /\ Screen(d, p2, dd2, selfUser[u], home, Tail(h))
          /\ Agreed(d, p2, home, st, q, Tail(h), crossed)
      <4> HIDE DEF h
      <4> QED
        BY <1>1, <1>2, <1>7, <2>1, <3>1, <3>2, <3>3, OtherServes
    <3> QED
      BY <1>7, <3>2, <3>3, <3>4
  <2> QED
    BY <1>1, <1>7, <2>1, HeardServes
<1>8. /\ dialog[u] \in Dialogs /\ "match" \in Dialogs /\ "none" \in Dialogs
      /\ "oppForgive" \in Dialogs /\ "oppDraw" \in Dialogs
  BY <1>2 DEF Dialogs, Questions
<1>9. CASE m.type = "LoginSuccessResponse" /\ LoginSuccess(u, m)
  <2>1. ~IsBoard(m) /\ IsTell(m)
    BY <1>9 DEF IsBoard, IsTell
  <2>2. /\ UNCHANGED <<cid, upq, pos, due>> /\ Show(u, "match") /\ (Crossed' <=> Crossed)
        /\ \A w \in Users \ {u} : selfUser'[w] = selfUser[w]
    BY <1>2, <1>9 DEF LoginSuccess, keepPage, boardVars, Crossed
  <2>3. ASSUME NEW home \in BOOLEAN, NEW crossed \in BOOLEAN, home <=> IsHome(u),
               Screen(dialog[u], p, due[u], selfUser[u], home, h),
               Agreed(dialog[u], p, home, state[u], upq[cid[u]], h, crossed)
        PROVE  /\ Screen("match", pos'[u], due'[u], selfUser'[u], home, Tail(h))
               /\ Agreed("match", pos'[u], home, state[u], upq[cid[u]], Tail(h), crossed)
    <3>1. home = TRUE
      BY <1>5, <2>1, <2>3
    <3>2. PICK s2 : s2 = selfUser'[u]
      OBVIOUS
    <3>3. PICK st, q : st = state[u] /\ q = upq[cid[u]]
      OBVIOUS
    <3>4. /\ Screen("match", p, due[u], s2, TRUE, Tail(h))
          /\ Agreed("match", p, TRUE, st, q, Tail(h), crossed)
      <4>1. /\ Screen(dialog[u], p, due[u], selfUser[u], TRUE, h)
            /\ Agreed(dialog[u], p, TRUE, st, q, h, crossed)
        BY <2>3, <3>1, <3>3
      <4> HIDE DEF h
      <4> QED
        BY <1>1, <1>2, <2>1, <4>1, WelcomeShown
    <3> QED
      BY <2>2, <3>1, <3>2, <3>3, <3>4
  <2>4. Chats(u)
    BY <2>2 DEF Chats
  <2> QED
    BY <1>1, <1>8, <2>2, <2>3, <2>4, HeardServes
\* Messages that bring a board.
<1>10. ASSUME IsBoard(m), NEW fen \in Fens, NEW red, NewBoard(u, fen, red),
              UNCHANGED <<cid, upq, due>>, Crossed' <=> Crossed,
              \A w \in Users \ {u} : selfUser'[w] = selfUser[w]
       PROVE  DialogInv'
  <2>1. /\ pos' = [pos EXCEPT ![u] = fen] /\ Show(u, "none") /\ fen # Nil
    BY <1>10, NilAssumption DEF NewBoard, Clear
  <2>2. pos'[u] = fen /\ \A w \in Users \ {u} : pos'[w] = pos[w]
    BY <1>2, <2>1
  <2>3. ASSUME NEW home \in BOOLEAN, NEW crossed \in BOOLEAN, home <=> IsHome(u),
               Screen(dialog[u], p, due[u], selfUser[u], home, h),
               Agreed(dialog[u], p, home, state[u], upq[cid[u]], h, crossed)
        PROVE  /\ Screen("none", pos'[u], due'[u], selfUser'[u], home, Tail(h))
               /\ Agreed("none", pos'[u], home, state[u], upq[cid[u]], Tail(h), crossed)
    <3>1. IsTell(m) => home
      BY <1>5, <2>3
    <3>2. PICK s2 : s2 = selfUser'[u]
      OBVIOUS
    <3>3. PICK st, q : st = state[u] /\ q = upq[cid[u]]
      OBVIOUS
    <3>4. /\ Screen("none", fen, due[u], s2, home, Tail(h))
          /\ Agreed("none", fen, home, st, q, Tail(h), crossed)
      <4>1. /\ Screen(dialog[u], p, due[u], selfUser[u], home, h)
            /\ Agreed(dialog[u], p, home, st, q, h, crossed)
        BY <2>3, <3>3
      <4> HIDE DEF h
      <4> QED
        BY <1>1, <1>2, <1>10, <2>1, <3>1, <4>1, BoardShown
    <3> QED
      BY <1>10, <2>2, <3>2, <3>3, <3>4
  <2>4. Chats(u)
    BY <1>10 DEF Chats
  <2>5. \A w \in Users \ {u} : due'[w] = due[w]
    BY <1>10
  <2> QED
    BY <1>1, <1>8, <1>10, <2>1, <2>2, <2>3, <2>4, <2>5, HeardServes
<1>11. CASE m.type = "MatchResponse" /\ MatchStarts(u, m)
  BY <1>10, <1>11, FensFacts DEF MatchStarts, keepPage, IsBoard, Crossed
<1>12. CASE m.type = "GameSituation" /\ Situation(u, m)
  <2>1. If(m.data.fen # Nil, m.data.fen) \in Fens
    BY <1>3, <1>12, FensFacts DEF Heard, If
  <2>2. IsBoard(m) /\ \A w \in Users \ {u} : selfUser'[w] = selfUser[w]
    BY <1>2, <1>12 DEF Situation, IsBoard
  <2> QED
    BY <1>10, <1>12, <2>1, <2>2 DEF Situation, keepPage, Crossed
<1>13. CASE m.type = "MoveStep" /\ OppMove(u, m)
  <2>1. /\ ~IsTell(m) /\ ~IsBoard(m) /\ p # Nil
        /\ UNCHANGED <<cid, selfUser, dialog, due>> /\ (Crossed' <=> Crossed)
    BY <1>6, <1>13 DEF OppMove, IsTell, IsBoard, Crossed
  <2> DEFINE fen == m.data.fen
             played == Append(p, Last(fen))
  <2>2. fen \in Fens /\ fen # <<>>
    BY <1>3, <1>13 DEF Heard
  <2>3. fen \in Seq(Moves)
    BY <2>2, FensFacts
  <2>4. Last(fen) \in Moves
    BY <2>2, <2>3 DEF Last
  <2>5. p \in Fens
    BY <1>2, <2>1
  <2>6. \/ /\ played = fen \/ Len(played) <= MaxPlies
           /\ Play(u, played)
           /\ UNCHANGED upq \/ Say(u, "MoveStep", MoveStepOf(played))
        \/ UNCHANGED <<pos, upq>>
    BY Zenon, <1>13 DEF OppMove, boardVars
  <2>7. ASSUME played = fen \/ Len(played) <= MaxPlies, Play(u, played),
               UNCHANGED upq \/ Say(u, "MoveStep", MoveStepOf(played))
        PROVE  /\ Chats(u) /\ (pos'[u] = Nil <=> p = Nil)
               /\ \A w \in Users \ {u} : pos'[w] = pos[w]
    <3>1. Len(played) <= MaxPlies
      BY <2>2, <2>7, FensFacts
    <3>2. played \in Fens /\ played # <<>> /\ Mated(played) \in BOOLEAN
      BY <2>4, <2>5, <3>1, Played
    <3>3. UNCHANGED upq \/ Say(u, "MoveStep", [over |-> Mated(played), fen |-> played])
      BY <2>7 DEF MoveStepOf
    <3> HIDE DEF played, fen
    <3>4. Chats(u)
      BY <3>2, <3>3, ConfirmChats DEF Chats
    <3> QED
      BY <2>1, <2>7, <3>2, <3>4, PlayServes
  <2>8. UNCHANGED <<pos, upq>> => /\ Chats(u) /\ (pos'[u] = Nil <=> p = Nil)
                                  /\ \A w \in Users \ {u} : pos'[w] = pos[w]
    BY DEF Chats
  <2>9. /\ Chats(u) /\ (pos'[u] = Nil <=> p = Nil)
        /\ \A w \in Users \ {u} : pos'[w] = pos[w]
    BY <2>6, <2>7, <2>8
  <2> QED
    BY <1>7, <1>8, <2>1, <2>9
<1>14. CASE m.type = "ForgiveRequest" /\ ForgiveAsked(u)
  <2>1. /\ ~IsTell(m) /\ ~IsBoard(m) /\ p # Nil
        /\ UNCHANGED <<cid, selfUser, pos, due>> /\ (Crossed' <=> Crossed)
    BY <1>6, <1>14 DEF ForgiveAsked, boardVars, IsTell, IsBoard, NeedsBoard, Crossed
  <2>2. CASE Show(u, "oppForgive") /\ UNCHANGED upq
    BY <1>7, <1>8, <2>1, <2>2 DEF Chats
  <2>3. CASE UNCHANGED dialog /\ Say(u, "ForgiveResponse", [agree |-> FALSE, fen |-> <<>>])
    <3>1. Chats(u)
      BY <2>3, FensFacts, ConfirmChats
    <3> QED
      BY <1>7, <1>8, <2>1, <2>3, <3>1
  <2> QED
    BY <1>14, <2>2, <2>3 DEF ForgiveAsked
<1>15. CASE m.type = "ForgiveResponse" /\ ForgiveAnswered(u, m)
  <2>1. /\ ~IsTell(m) /\ ~IsBoard(m) /\ Chats(u)
        /\ UNCHANGED <<cid, selfUser, due, dialog>> /\ (Crossed' <=> Crossed)
    BY <1>15 DEF ForgiveAnswered, IsTell, IsBoard, Chats, Crossed
  <2>2. /\ pos'[u] = Nil <=> p = Nil
        /\ \A w \in Users \ {u} : pos'[w] = pos[w]
    <3>1. CASE UNCHANGED pos
      BY <3>1
    <3>2. CASE undo[u] > 0 /\ TakeBack(u)
      BY <3>2, TakenBackKeeps
    <3> QED
      BY <1>15, <3>1, <3>2 DEF ForgiveAnswered, boardVars
  <2> QED
    BY <1>7, <1>8, <2>1, <2>2
<1>16. CASE m.type = "DrawRequest" /\ DrawAsked(u)
  <2>1. /\ ~IsTell(m) /\ ~IsBoard(m) /\ p # Nil /\ Chats(u) /\ Show(u, "oppDraw")
        /\ UNCHANGED <<cid, selfUser, pos, due>> /\ (Crossed' <=> Crossed)
    BY <1>6, <1>16 DEF DrawAsked, keepPage, boardVars, IsTell, IsBoard, NeedsBoard, Chats, Crossed
  <2> QED
    BY <1>7, <1>8, <2>1
<1>17. CASE m.type = "GameOver" /\ Over(u, m)
  <2>1. /\ ~IsTell(m) /\ ~IsBoard(m) /\ p # Nil /\ Chats(u)
        /\ UNCHANGED <<cid, selfUser, pos, dialog>> /\ (Crossed' <=> Crossed)
        /\ \A w \in Users \ {u} : due'[w] = due[w]
    BY <1>2, <1>6, <1>17
       DEF Over, keepPage, boardVars, IsTell, IsBoard, NeedsBoard, Chats, Crossed
  <2> QED
    BY <1>7, <1>8, <2>1
<1>18. CASE m.type \in Labels /\ UNCHANGED <<pageVars, upq, mishaps>>
  <2>1. /\ ~IsTell(m) /\ ~IsBoard(m) /\ Chats(u)
        /\ UNCHANGED <<cid, selfUser, pos, due, dialog>> /\ (Crossed' <=> Crossed)
    BY <1>18 DEF pageVars, IsTell, IsBoard, Labels, Chats, Crossed
  <2> QED
    BY <1>7, <1>8, <2>1
<1> QED
  BY <1>9, <1>11, <1>12, <1>13, <1>14, <1>15, <1>16, <1>17, <1>18 DEF Receive

-----------------------------------------------------------------------------
(* The steps of the center.  What a page gets to hear.                     *)

LEMMA SameType ==
  ASSUME NEW m
  PROVE  /\ OnTheWay(m).type = m.type
         /\ IsTell(OnTheWay(m)) <=> IsTell(m)
         /\ IsBoard(OnTheWay(m)) <=> IsBoard(m)
         /\ NeedsBoard(OnTheWay(m)) <=> NeedsBoard(m)
<1>1. OnTheWay(m).type = m.type
  BY DEF OnTheWay
<1> QED
  BY <1>1 DEF IsTell, IsBoard, NeedsBoard

\* What has come was fit to be heard.
LEMMA ArrivedHeard ==
  ASSUME PassOn, NEW u \in Users, cid[u] \in ConnIds, sent' \in Seq(Message),
         downq[cid[u]] \in Seq(Heard), downq'[cid[u]] \in Seq(Heard)
  PROVE  \A k \in ForPage(u) : OnTheWay(sent'[k]) \in Heard
<1> DEFINE q == downq[cid[u]]
           q2 == downq'[cid[u]]
           ks == ForPage(u)
           t == [k \in DOMAIN SentTo(cid[u]) |-> OnTheWay(SentTo(cid[u])[k])]
           any == Heard \cup {OnTheWay(sent'[k]) : k \in ks}
<1>1. q2 = q \o t
  BY DEF PassOn, Present
<1>2. PICK c \in Nat, f \in [1..Cardinality(ks) -> ks] :
        /\ c = Cardinality(ks) /\ Range(f) = ks
        /\ SentTo(cid[u]) = [n \in DOMAIN f |-> sent'[f[n]]]
  <2>1. Len(sent') \in Nat /\ ks \in SUBSET (1..Len(sent'))
    BY DEF ForPage
  <2>2. SentTo(cid[u]) = [n \in DOMAIN InOrder(ks) |-> sent'[InOrder(ks)[n]]]
    BY DEF SentTo, ForPage
  <2> HIDE DEF ks
  <2>3. /\ Cardinality(ks) \in Nat
        /\ InOrder(ks) \in [1..Cardinality(ks) -> ks]
        /\ Range(InOrder(ks)) = ks
    BY <2>1, InOrderFacts
  <2> QED
    BY <2>2, <2>3
<1>3. f \in [1..c -> ks]
  BY <1>2
<1>4. t = [n \in 1..c |-> OnTheWay(sent'[f[n]])]
  BY <1>2, <1>3
<1>5. \A n \in 1..c : f[n] \in ks /\ OnTheWay(sent'[f[n]]) \in any
  BY <1>3
<1>6. \A k \in ks : \E n \in 1..c : f[n] = k
  BY <1>2, <1>3 DEF Range
<1>7. Heard \subseteq any
  OBVIOUS
<1> HIDE DEF ks, t, any
<1>8. /\ t \in Seq(any) /\ Len(t) = c
      /\ \A n \in 1..c : t[n] = OnTheWay(sent'[f[n]])
  BY <1>4, <1>5
<1>9. q \in Seq(any)
  <2>1. ASSUME NEW x \in Seq(Heard) PROVE x \in Seq(any)
    BY <1>7, SeqGrows
  <2> QED
    BY <2>1
<1> HIDE DEF q, q2
<1>10. /\ Len(q2) = Len(q) + c /\ Len(q) \in Nat
       /\ \A n \in 1..c : q2[Len(q) + n] = t[n]
  <2>1. ASSUME NEW x \in Seq(any), NEW y \in Seq(any)
        PROVE  /\ Len(x) \in Nat /\ Len(x \o y) = Len(x) + Len(y)
               /\ \A k \in 1..Len(y) : (x \o y)[Len(x) + k] = y[k]
    BY Concatenated
  <2> QED
    BY <1>1, <1>8, <1>9, <2>1
<1>11. \A n \in 1..c : q2[Len(q) + n] \in Heard
  <2>1. q2 \in Seq(Heard)
    BY DEF q2
  <2>2. \A n \in 1..c : Len(q) + n \in 1..Len(q2)
    BY <1>10
  <2>3. \A k \in 1..Len(q2) : q2[k] \in Heard
    BY <2>1
  <2> QED
    BY <2>2, <2>3
<1> SUFFICES ASSUME NEW k \in ks PROVE OnTheWay(sent'[k]) \in Heard
  BY DEF ks
<1>12. PICK n \in 1..c : f[n] = k
  BY <1>6
<1> QED
  BY <1>8, <1>10, <1>11, <1>12

\* More messages.
LEMMA ScreenServed ==
  ASSUME NEW d, NEW d2, Longer(d2, d), NEW dlg, NEW p, NEW dd, NEW s, NEW home, NEW home2,
         Screen(dlg, p, dd, s, home, d),
         \A n \in Added(d2, d) : /\ NeedsBoard(d2[n]) => Gets(d, p)
                                 /\ d2[n].type = "MatchResponse" => home,
         \/ /\ home2 <=> home
            /\ \A n \in Added(d2, d) : ~IsTell(d2[n])
         \/ /\ ~home /\ home2 /\ NoTell(d)
            /\ \E n \in Added(d2, d) : \A k \in Added(d2, d) : IsTell(d2[k]) <=> k = n
  PROVE  Screen(dlg, p, dd, s, home2, d2)
<1>1. Grounded(d2, p)
  <2> SUFFICES ASSUME NEW k \in DOMAIN d2, NeedsBoard(d2[k]), p = Nil
               PROVE  \E l \in DOMAIN d2 : l < k /\ IsBoard(d2[l])
    BY DEF Grounded
  <2>1. CASE k \in DOMAIN d
    <3>1. NeedsBoard(d[k])
      BY <2>1, LongerParts
    <3>2. PICK l \in DOMAIN d : l < k /\ IsBoard(d[l])
      BY <2>1, <3>1 DEF Screen, Grounded
    <3> QED
      BY <3>2, LongerParts
  <2>2. CASE k \in Added(d2, d)
    <3>1. PICK l \in DOMAIN d : IsBoard(d[l])
      BY <2>2 DEF Gets
    <3>2. l < k /\ l \in DOMAIN d2 /\ d2[l] = d[l]
      BY <2>2, LongerParts
    <3> QED
      BY <3>1, <3>2
  <2> QED
    BY <2>1, <2>2, LongerParts
<1>2. OneTell(d2)
  <2>1. \A k, l \in DOMAIN d : IsTell(d[k]) /\ IsTell(d[l]) => k = l
    BY DEF Screen, OneTell
  <2>2. CASE \A n \in Added(d2, d) : ~IsTell(d2[n])
    BY <2>1, <2>2, LongerParts DEF OneTell
  <2>3. ASSUME NoTell(d), NEW n \in Added(d2, d), \A k \in Added(d2, d) : IsTell(d2[k]) <=> k = n
        PROVE  OneTell(d2)
    <3>1. \A k \in DOMAIN d2 : IsTell(d2[k]) => k = n
      BY <2>3, LongerParts DEF NoTell
    <3> QED
      BY <3>1 DEF OneTell
  <2> QED
    BY <2>2, <2>3
<1>3. dlg = "login" => LateMatch(d2)
  <2> SUFFICES ASSUME dlg = "login", NEW k \in DOMAIN d2, d2[k].type = "MatchResponse"
               PROVE  \E l \in DOMAIN d2 : l < k /\ IsTell(d2[l])
    BY DEF LateMatch
  <2>1. CASE k \in DOMAIN d
    <3>1. d[k].type = "MatchResponse"
      BY <2>1, LongerParts
    <3>2. PICK l \in DOMAIN d : l < k /\ IsTell(d[l])
      BY <2>1, <3>1 DEF Screen, LateMatch
    <3> QED
      BY <3>2, LongerParts
  <2>2. CASE k \in Added(d2, d)
    <3>1. home
      BY <2>2
    <3>2. PICK l \in DOMAIN d : IsTell(d[l])
      BY <3>1 DEF Screen, NoTell
    <3>3. l < k /\ l \in DOMAIN d2 /\ d2[l] = d[l]
      BY <2>2, LongerParts
    <3> QED
      BY <3>2, <3>3
  <2> QED
    BY <2>1, <2>2, LongerParts
<1>4. ~home2 \/ ~NoTell(d2) <=> ~home \/ ~NoTell(d)
  <2>1. NoTell(d2) => NoTell(d)
    BY LongerParts DEF NoTell
  <2>2. (\A n \in Added(d2, d) : ~IsTell(d2[n])) /\ NoTell(d) => NoTell(d2)
    BY LongerParts DEF NoTell
  <2>3. (\E n \in Added(d2, d) : IsTell(d2[n])) => ~NoTell(d2)
    BY LongerParts DEF NoTell
  <2> QED
    BY <2>1, <2>2, <2>3
<1> QED
  BY <1>1, <1>2, <1>3, <1>4 DEF Screen

LEMMA AgreedServed ==
  ASSUME NEW d, NEW d2, Longer(d2, d), NEW dlg, NEW p, NEW dd, NEW s, NEW home, NEW home2,
         Screen(dlg, p, dd, s, home, d),
         NEW st, NEW st2, NEW q, NEW q2, NEW crossed, NEW crossed2,
         Agreed(dlg, p, home, st, q, d, crossed),
         NoWish(q) => NoWish(q2), crossed => crossed2,
         home2 /\ ~crossed2 =>
           \/ /\ home /\ \A n \in Added(d2, d) : ~IsBoard(d2[n])
              /\ Wants(q2, st2) <=> Wants(q, st)
              /\ st2 = "kMatching" => st = "kMatching" \/ ~Gets(d, p)
           \/ st2 # "kMatching" /\ Gets(d2, p)
           \/ ~home /\ st2 # "kMatching"
  PROVE  Agreed(dlg, p, home2, st2, q2, d2, crossed2)
<1>1. dlg = "login" => NoWish(q2)
  BY DEF Agreed
<1>2. ASSUME home2, ~crossed2
      PROVE  IF Gets(d2, p) THEN st2 # "kMatching" ELSE dlg = "matching" <=> Wants(q2, st2)
  <2>1. CASE /\ home /\ \A n \in Added(d2, d) : ~IsBoard(d2[n])
             /\ Wants(q2, st2) <=> Wants(q, st)
             /\ st2 = "kMatching" => st = "kMatching" \/ ~Gets(d, p)
    <3>1. Gets(d2, p) <=> Gets(d, p)
      BY <2>1, LongerParts DEF Gets
    <3>2. IF Gets(d, p) THEN st # "kMatching" ELSE dlg = "matching" <=> Wants(q, st)
      BY <1>2, <2>1 DEF Agreed
    <3> QED
      BY <2>1, <3>1, <3>2
  <2>2. CASE st2 # "kMatching" /\ Gets(d2, p)
    BY <2>2
  <2>3. CASE ~home /\ st2 # "kMatching"
    <3>1. dlg = "login"
      BY <2>3 DEF Screen
    <3>2. NoWish(q2)
      BY <1>1, <3>1
    <3>3. ~Wants(q2, st2)
      BY <2>3, <3>2 DEF Wants, NoWish, IsWish
    <3> QED
      BY <2>3, <3>1, <3>3
  <2> QED
    BY <1>2, <2>1, <2>2, <2>3
<1> QED
  BY <1>1, <1>2 DEF Agreed

-----------------------------------------------------------------------------
(* What a step of the center means to one user.                            *)

\* What is about a game goes to who is in one, a game to who is in the hall.
Mailed(u) ==
  \A k \in ForPage(u) :
    /\ NeedsBoard(sent'[k]) => IsHome(u) /\ IsInRoom(u)
    /\ sent'[k].type = "MatchResponse" => IsHome(u)

\* Nobody is told who it is but who comes in.
Stays(u) ==
  /\ IsHome(u)' <=> IsHome(u)
  /\ \A k \in ForPage(u) : ~IsTell(sent'[k])
ComesIn(u) ==
  /\ ~IsHome(u) /\ IsHome(u)' /\ state'[u] # "kMatching"
  /\ \E k \in ForPage(u) : \A l \in ForPage(u) : IsTell(sent'[l]) <=> l = k

\* What is known of u's wish for a game.
Unboarded(u) == \A k \in ForPage(u) : ~IsBoard(sent'[k])
SameWish(u) ==
  /\ Unboarded(u)
  /\ Wants(upq'[cid[u]], state'[u]) <=> Wants(upq[cid[u]], state[u])
  /\ state'[u] = "kMatching" =>
       state[u] = "kMatching" \/ Crossed' \/ ~Gets(downq[cid[u]], pos[u])
HasGame(u) ==
  /\ state'[u] # "kMatching"
  /\ IsInRoom(u) \/ ~Unboarded(u)

Serves(u) ==
  /\ Mailed(u)
  /\ Stays(u) \/ ComesIn(u)
  /\ IsHome(u) => SameWish(u) \/ HasGame(u)

LEMMA DialogServed ==
  ASSUME WorldInv, WorldInv', DialogInv, PassOn,
         \A u \in Users : NoWish(upq[cid[u]]) => NoWish(upq'[cid[u]]),
         Crossed => Crossed',
         \A u \in Users : Serves(u)
  PROVE  DialogInv'
<1>1. /\ UNCHANGED <<cid, dialog, pos, due, selfUser>>
      /\ \A u \in Users : cid[u] \in ConnIds
      /\ downq \in [ConnIds -> Seq(Heard)] /\ downq' \in [ConnIds -> Seq(Heard)]
      /\ sent' \in Seq(Message)
  BY DEF PassOn, pageVars, WorldInv, WorldTypeOK, CenterInv, TypeOK
<1>2. ASSUME NEW u \in Users
      PROVE  /\ Screen(dialog[u], pos[u], due[u], selfUser[u], IsHome(u)', downq'[cid[u]])
             /\ Agreed(dialog[u], pos[u], IsHome(u)', state'[u], upq'[cid[u]],
                       downq'[cid[u]], Crossed')
  <2> DEFINE d == downq[cid[u]]
             d2 == downq'[cid[u]]
  <2>1. d \in Seq(Heard) /\ d2 \in Seq(Heard)
    BY <1>1
  <2>2. \A k \in ForPage(u) : OnTheWay(sent'[k]) \in Heard
    BY <1>1, <2>1, ArrivedHeard
  <2>3. /\ Longer(d2, d)
        /\ \A n \in Added(d2, d) : \E k \in ForPage(u) : d2[n] = OnTheWay(sent'[k])
        /\ \A k \in ForPage(u) : \E n \in Added(d2, d) :
             /\ d2[n] = OnTheWay(sent'[k])
             /\ \A m \in Added(d2, d) : m # n =>
                  \E l \in ForPage(u) : l # k /\ d2[m] = OnTheWay(sent'[l])
    BY <1>1, <2>2, Arrivals
  <2>4. PICK home \in BOOLEAN : home <=> IsHome(u)
    BY DEF IsHome
  <2>5. PICK home2 \in BOOLEAN : home2 <=> IsHome(u)'
    BY DEF IsHome
  <2>6. PICK crossed \in BOOLEAN : crossed <=> Crossed
    BY DEF Crossed
  <2>7. PICK crossed2 \in BOOLEAN : crossed2 <=> Crossed'
    BY DEF Crossed
  <2>8. /\ Screen(dialog[u], pos[u], due[u], selfUser[u], home, d)
        /\ Agreed(dialog[u], pos[u], home, state[u], upq[cid[u]], d, crossed)
    BY <2>4, <2>6 DEF DialogInv, ScreenOK, AgreedOK, Screen, Agreed
  <2>9. home /\ IsInRoom(u) => Gets(d, pos[u])
    BY <2>4 DEF WorldInv, BoardsCome
  <2>10. ~home => NoTell(d)
    BY <2>4 DEF WorldInv, RecordsCome
  <2>11. Serves(u)
    OBVIOUS
  <2> HIDE DEF d, d2
  <2>12. \A n \in Added(d2, d) : \E k \in ForPage(u) :
           /\ d2[n].type = sent'[k].type
           /\ IsTell(d2[n]) <=> IsTell(sent'[k])
           /\ IsBoard(d2[n]) <=> IsBoard(sent'[k])
           /\ NeedsBoard(d2[n]) <=> NeedsBoard(sent'[k])
    BY <2>3, SameType
  <2>13. \A n \in Added(d2, d) : /\ NeedsBoard(d2[n]) => Gets(d, pos[u])
                                 /\ d2[n].type = "MatchResponse" => home
    BY <2>4, <2>9, <2>11, <2>12 DEF Serves, Mailed
  <2>14. \/ /\ home2 <=> home
            /\ \A n \in Added(d2, d) : ~IsTell(d2[n])
         \/ /\ ~home /\ home2 /\ NoTell(d)
            /\ \E n \in Added(d2, d) : \A k \in Added(d2, d) : IsTell(d2[k]) <=> k = n
    <3>1. CASE Stays(u)
      BY <2>4, <2>5, <2>12, <3>1 DEF Stays
    <3>2. CASE ComesIn(u)
      <4>1. PICK k \in ForPage(u) : \A l \in ForPage(u) : IsTell(sent'[l]) <=> l = k
        BY <3>2 DEF ComesIn
      <4>2. PICK n \in Added(d2, d) :
              /\ d2[n] = OnTheWay(sent'[k])
              /\ \A m \in Added(d2, d) : m # n =>
                   \E l \in ForPage(u) : l # k /\ d2[m] = OnTheWay(sent'[l])
        BY <2>3
      <4>3. IsTell(d2[n])
        BY <4>1, <4>2, SameType
      <4>4. \A m \in Added(d2, d) : m # n => ~IsTell(d2[m])
        BY <4>1, <4>2, SameType
      <4> QED
        BY <2>4, <2>5, <2>10, <3>2, <4>3, <4>4 DEF ComesIn
    <3> QED
      BY <2>11, <3>1, <3>2 DEF Serves
  <2>15. Screen(dialog[u], pos[u], due[u], selfUser[u], home2, d2)
    BY <2>3, <2>8, <2>13, <2>14, ScreenServed
  <2>16. ASSUME home2, ~crossed2
         PROVE  \/ /\ home /\ \A n \in Added(d2, d) : ~IsBoard(d2[n])
                   /\ Wants(upq'[cid[u]], state'[u]) <=> Wants(upq[cid[u]], state[u])
                   /\ state'[u] = "kMatching" => state[u] = "kMatching" \/ ~Gets(d, pos[u])
                \/ state'[u] # "kMatching" /\ Gets(d2, pos[u])
                \/ ~home /\ state'[u] # "kMatching"
    <3>1. CASE ~home
      BY <2>4, <2>5, <2>11, <2>16, <3>1 DEF Serves, Stays, ComesIn
    <3>2. CASE home /\ SameWish(u)
      BY <2>7, <2>12, <2>16, <3>2 DEF SameWish, Unboarded, d
    <3>3. CASE home /\ HasGame(u)
      <4>1. Gets(d, pos[u]) => Gets(d2, pos[u])
        BY <2>3, LongerParts DEF Gets
      <4>2. ~Unboarded(u) => Gets(d2, pos[u])
        <5> SUFFICES ASSUME NEW k \in ForPage(u), IsBoard(sent'[k])
                     PROVE  Gets(d2, pos[u])
          BY DEF Unboarded
        <5>1. PICK n \in Added(d2, d) : d2[n] = OnTheWay(sent'[k])
          BY <2>3
        <5>2. n \in DOMAIN d2 /\ IsBoard(d2[n])
          BY <2>3, <5>1, SameType, LongerParts
        <5> QED
          BY <5>2 DEF Gets
      <4> QED
        BY <2>9, <3>3, <4>1, <4>2 DEF HasGame
    <3> QED
      BY <2>4, <2>11, <3>1, <3>2, <3>3 DEF Serves
  <2>17. Agreed(dialog[u], pos[u], home2, state'[u], upq'[cid[u]], d2, crossed2)
    <3>1. PICK st, st2 : st = state[u] /\ st2 = state'[u]
      OBVIOUS
    <3>2. PICK q, q2 : q = upq[cid[u]] /\ q2 = upq'[cid[u]]
      OBVIOUS
    <3>3. Longer(d2, d) /\ (NoWish(q) => NoWish(q2)) /\ (crossed => crossed2)
      BY <2>3, <2>6, <2>7, <3>2
    <3>4. Agreed(dialog[u], pos[u], home, st, q, d, crossed)
      BY <2>8, <3>1, <3>2
    <3>5. home2 /\ ~crossed2 =>
            \/ /\ home /\ \A n \in Added(d2, d) : ~IsBoard(d2[n])
               /\ Wants(q2, st2) <=> Wants(q, st)
               /\ st2 = "kMatching" => st = "kMatching" \/ ~Gets(d, pos[u])
            \/ st2 # "kMatching" /\ Gets(d2, pos[u])
            \/ ~home /\ st2 # "kMatching"
      BY <2>16, <3>1, <3>2
    <3>6. Agreed(dialog[u], pos[u], home2, st2, q2, d2, crossed2)
      BY <2>8, <3>3, <3>4, <3>5, AgreedServed
    <3> QED
      BY <3>1, <3>2, <3>6
  <2> QED
    BY <2>5, <2>7, <2>15, <2>17 DEF Screen, Agreed, d2
<1>3. \A u \in Users : ScreenOK(u)' /\ AgreedOK(u)'
  BY <1>1, <1>2 DEF ScreenOK, AgreedOK
<1> QED
  BY <1>1, <1>3 DEF DialogInv

-----------------------------------------------------------------------------
(* What the handlers mean to everybody.                                    *)

\* The wishes under way from u's page are no others after this step.
WishKept(u) == \A st : Wants(upq'[cid[u]], st) <=> Wants(upq[cid[u]], st)

\* What tells nobody who it is and starts no game.
PlainMail ==
  \A k \in DOMAIN sent' : sent'[k].to = "front" =>
    /\ ~IsTell(sent'[k]) /\ ~IsBoard(sent'[k])
    /\ NeedsBoard(sent'[k]) => entrys[sent'[k].id] # Nil /\ IsInRoom(entrys[sent'[k].id])

LEMMA PlainServes ==
  ASSUME WorldInv, UNCHANGED cid, PlainMail, NEW u \in Users,
         IsHome(u)' <=> IsHome(u),
         IsHome(u) => \/ state'[u] = state[u] /\ WishKept(u)
                      \/ IsInRoom(u) /\ state'[u] # "kMatching"
                      \/ SameWish(u)
  PROVE  Serves(u)
<1>1. ASSUME NEW k \in ForPage(u)
      PROVE  /\ ~IsTell(sent'[k]) /\ ~IsBoard(sent'[k])
             /\ NeedsBoard(sent'[k]) => entrys[cid[u]] # Nil /\ IsInRoom(entrys[cid[u]])
  BY DEF ForPage, PlainMail
<1>2. entrys[cid[u]] # Nil => entrys[cid[u]] = u /\ IsHome(u)
  BY HomeOrNobody DEF IsHome
<1>3. Mailed(u)
  BY <1>1, <1>2 DEF Mailed, IsBoard
<1>4. Stays(u) /\ Unboarded(u)
  BY <1>1 DEF Stays, Unboarded
<1>5. IsHome(u) => SameWish(u) \/ HasGame(u)
  BY <1>4 DEF SameWish, HasGame, WishKept
<1> QED
  BY <1>3, <1>4, <1>5 DEF Serves

\* The hall stays as it is.
LEMMA QuietServes ==
  ASSUME WorldInv, UNCHANGED <<cid, entrys, state>>, PlainMail,
         \A u \in Users : IsHome(u) => WishKept(u)
  PROVE  \A u \in Users : Serves(u)
<1> SUFFICES ASSUME NEW u \in Users PROVE Serves(u)
  OBVIOUS
<1>1. IsHome(u)' <=> IsHome(u)
  BY DEF IsHome
<1> QED
  BY <1>1, PlainServes

LEMMA NoMailServes ==
  ASSUME WorldInv, UNCHANGED cid, Ignore, \A u \in Users : IsHome(u) => WishKept(u)
  PROVE  \A u \in Users : Serves(u)
<1>1. PlainMail /\ UNCHANGED <<entrys, state>>
  BY DEF PlainMail, Ignore, hallVars
<1> QED
  BY <1>1, QuietServes

\* One message at most.
LEMMA OnePlain ==
  ASSUME NEW to, NEW id, NEW type, NEW data, NEW cond,
         type \notin {"LoginSuccessResponse", "GameSituation", "MatchResponse", "GameOver"},
         type \in {"ForgiveRequest", "DrawRequest"} =>
           entrys[id] # Nil /\ IsInRoom(entrys[id]),
         \/ sent' = <<>>
         \/ sent' = <<Msg(to, id, type, data)>>
         \/ sent' = If(cond, <<Msg(to, id, type, data)>>)
  PROVE  PlainMail
<1>1. sent' = <<>> \/ sent' = <<Msg(to, id, type, data)>>
  BY DEF If
<1>2. Msg(to, id, type, data).type = type /\ Msg(to, id, type, data).id = id
  BY DEF Msg
<1>3. \A k \in DOMAIN sent' : sent'[k] = Msg(to, id, type, data)
  BY <1>1
<1> QED
  BY <1>2, <1>3 DEF PlainMail, IsTell, IsBoard, NeedsBoard

\* A message of the page at i is handled.
LEMMA WishHandled ==
  ASSUME WorldInv, NEW i \in ConnIds, upq[i] # <<>>, upq' = [upq EXCEPT ![i] = Tail(upq[i])],
         NEW u \in Users
  PROVE  /\ NoWish(upq[cid[u]]) => NoWish(upq'[cid[u]])
         /\ cid[u] # i \/ ~IsWish(Head(upq[i])) => WishKept(u)
         /\ cid[u] = i => \A st : Wants(upq'[i], Wished(Head(upq[i]), st)) <=> Wants(upq[i], st)
<1>1. upq \in [ConnIds -> Seq(Said)] /\ cid[u] \in ConnIds
  BY DEF WorldInv, WorldTypeOK
<1>2. CASE cid[u] # i
  <2>1. upq'[cid[u]] = upq[cid[u]]
    BY <1>1, <1>2
  <2> QED
    BY <1>2, <2>1 DEF WishKept
<1>3. CASE cid[u] = i
  <2> DEFINE q == upq[i]
             m == Head(q)
  <2>1. upq'[i] = Tail(q) /\ q \in Seq(Said) /\ q # <<>>
    BY <1>1
  <2> HIDE DEF q
  <2>2. NoWish(q) => NoWish(Tail(q))
    BY <2>1, WishHeard
  <2>3. \A st : Wants(Tail(q), Wished(m, st)) <=> Wants(q, st)
    <3> SUFFICES ASSUME NEW st PROVE Wants(Tail(q), Wished(m, st)) <=> Wants(q, st)
      OBVIOUS
    <3> QED
      BY <2>1, WishHeard
  <2>4. ~IsWish(m) => \A st : Wished(m, st) = st
    BY DEF IsWish, Wished
  <2>5. ~IsWish(m) => \A st : Wants(Tail(q), st) <=> Wants(q, st)
    BY <2>3, <2>4
  <2> QED
    BY <1>3, <2>1, <2>2, <2>3, <2>5 DEF WishKept, q
<1> QED
  BY <1>2, <1>3

-----------------------------------------------------------------------------
(* Looking for an opponent.                                                *)

\* A page that is told of a game, or will be, has no request of its own to wait
\* for.
LEMMA ToldIsOutdated ==
  ASSUME WorldInv, DialogInv, NEW u \in Users, IsHome(u), Gets(downq[cid[u]], pos[u])
  PROVE  Outdated(cid[u])
<1> DEFINE d == downq[cid[u]]
<1>1. Screen(dialog[u], pos[u], due[u], selfUser[u], IsHome(u), d)
  BY DEF DialogInv, ScreenOK
<1>2. CASE pos[u] # Nil
  BY <1>1, <1>2 DEF Screen, Outdated
<1>3. ASSUME NEW k \in DOMAIN d, d[k].type = "MatchResponse"
      PROVE  Outdated(cid[u])
  BY <1>3 DEF Outdated
<1>4. ASSUME NEW k \in DOMAIN d, d[k].type = "GameSituation"
      PROVE  Outdated(cid[u])
  <2>1. ~NoTell(d)
    BY <1>4 DEF NoTell, IsTell
  <2>2. dialog[u] = "login"
    BY <1>1, <2>1 DEF Screen
  <2> QED
    BY <2>2 DEF Outdated
<1> QED
  BY <1>2, <1>3, <1>4 DEF Gets, IsBoard

LEMMA QueueServes ==
  ASSUME WorldInv, DialogInv, up', UNCHANGED cid, NEW i \in ConnIds, upq[i] # <<>>,
         upq' = [upq EXCEPT ![i] = Tail(upq[i])],
         \/ /\ Head(upq[i]).type = "MatchRequest" /\ \E type \in RoomTypes : OnMatchRequest(i, type)
            /\ Outdated(i) /\ state' # state => Crossed'
         \/ Head(upq[i]).type = "CancelMatchRequest" /\ OnCancelMatchRequest(i)
  PROVE  \A u \in Users : Serves(u)
<1> DEFINE e == entrys[i]
           m == Head(upq[i])
<1>1. CenterInv /\ entrys' = entrys /\ PlainMail
  <2>1. ASSUME Ignore
        PROVE  entrys' = entrys /\ PlainMail
    BY <2>1 DEF Ignore, hallVars, PlainMail
  <2>2. ASSUME NEW type, OnMatchRequest(i, type), ~Ignore
        PROVE  entrys' = entrys /\ PlainMail
    <3>1. /\ entrys' = entrys
          /\ sent' = <<Msg("match", i, "MatchBackendRequest",
                           [username |-> e, type |-> type, score |-> userInfo[e].score])>>
      BY <2>2 DEF OnMatchRequest, Crash
    <3>2. PICK data : data = [username |-> e, type |-> type, score |-> userInfo[e].score]
      OBVIOUS
    <3>3. sent' = <<Msg("match", i, "MatchBackendRequest", data)>>
      BY <3>1, <3>2
    <3>4. PlainMail
      BY <3>3, OnePlain
    <3> QED
      BY <3>1, <3>4
  <2>3. ASSUME OnCancelMatchRequest(i), ~Ignore
        PROVE  entrys' = entrys /\ PlainMail
    <3>1. entrys' = entrys /\ sent' = <<CancelMatchMsg(e)>>
      BY <2>3 DEF OnCancelMatchRequest, Crash
    <3> QED
      BY <3>1, OnePlain DEF CancelMatchMsg
  <2> QED
    BY <2>1, <2>2, <2>3 DEF WorldInv
<1>2. state \in [Users -> States]
  BY <1>1 DEF CenterInv, TypeOK
<1>3. e # Nil => e \in Users /\ connId[e] = i
  BY <1>1, EntryIsUser
<1>4. ASSUME NEW w \in Users, w # e
      PROVE  state'[w] = state[w]
  BY <1>2, <1>4 DEF OnMatchRequest, OnCancelMatchRequest, Ignore, Crash, hallVars
<1>5. ASSUME e # Nil
      PROVE  IF IsInRoom(e) THEN state'[e] = state[e]
             ELSE state'[e] = Wished(m, state[e]) /\ (state'[e] = state[e] \/ state' # state)
  <2>1. state[e] \in States \ {"none"} /\ e \in Users
    BY <1>1, <1>2, <1>5, EntryIsUser
  <2>2. CASE m.type = "MatchRequest" /\ \E type \in RoomTypes : OnMatchRequest(i, type)
    <3>1. state'[e] = IF state[e] = "kOnline" THEN "kMatching" ELSE state[e]
      BY <1>2, <1>5, <2>1, <2>2 DEF OnMatchRequest, Ignore, Crash, hallVars
    <3> QED
      BY <2>1, <2>2, <3>1 DEF Wished, States, IsInRoom
  <2>3. CASE m.type = "CancelMatchRequest" /\ OnCancelMatchRequest(i)
    <3>1. state'[e] = IF state[e] = "kMatching" THEN "kOnline" ELSE state[e]
      BY <1>2, <1>5, <2>1, <2>3 DEF OnCancelMatchRequest, Ignore, Crash, hallVars
    <3> QED
      BY <2>1, <2>3, <3>1 DEF Wished, States, IsInRoom
  <2> QED
    BY <2>2, <2>3
<1> SUFFICES ASSUME NEW u \in Users PROVE Serves(u)
  OBVIOUS
<1>6. IsHome(u)' <=> IsHome(u)
  BY <1>1 DEF IsHome
<1>7. IsHome(u) => connId[u] = cid[u] /\ (cid[u] = i => e = u /\ e # Nil)
  BY HomeOrNobody, NilAssumption DEF IsHome
<1>8. ASSUME IsHome(u), cid[u] # i
      PROVE  state'[u] = state[u] /\ WishKept(u)
  <2>1. u # e
    BY <1>3, <1>7, <1>8, NilAssumption
  <2> QED
    BY <1>4, <1>8, <2>1, WishHandled
<1>9. ASSUME IsHome(u), cid[u] = i, ~IsInRoom(u)
      PROVE  SameWish(u)
  <2>1. /\ state'[u] = Wished(m, state[u]) /\ e = u
        /\ state'[u] = state[u] \/ state' # state
    BY <1>5, <1>7, <1>9
  <2>2. Wants(upq'[i], Wished(m, state[u])) <=> Wants(upq[i], state[u])
    BY <1>9, WishHandled
  <2>3. Unboarded(u)
    BY <1>1 DEF PlainMail, Unboarded, ForPage
  <2>4. ASSUME state'[u] = "kMatching", state[u] # "kMatching", Gets(downq[cid[u]], pos[u])
        PROVE  Crossed'
    <3>1. Outdated(i)
      BY <1>9, <2>4, ToldIsOutdated
    <3>2. m.type = "MatchRequest" \/ m.type = "CancelMatchRequest"
      OBVIOUS
    <3>3. m.type # "CancelMatchRequest"
      BY <2>1, <2>4 DEF Wished
    <3> QED
      BY <2>1, <2>4, <3>1, <3>3
  <2> QED
    BY <1>9, <2>1, <2>2, <2>3, <2>4 DEF SameWish
<1>10. ASSUME IsHome(u), cid[u] = i, IsInRoom(u)
       PROVE  state'[u] # "kMatching"
  BY <1>5, <1>7, <1>10 DEF IsInRoom
<1> QED
  BY <1>1, <1>6, <1>8, <1>9, <1>10, PlainServes

-----------------------------------------------------------------------------
(* Talk between two players, and a page that is gone.                      *)

\* Who answers or asks is heard in the game by the opponent who is playing.
LEMMA RelayServes ==
  ASSUME WorldInv, UNCHANGED <<cid, entrys, state>>, \A u \in Users : WishKept(u),
         NEW o \in Users, IsOnPlaying(o), NEW data,
         NEW type \in {"MoveStep", "ForgiveRequest", "ForgiveResponse", "DrawRequest", "DrawResponse"},
         sent' = <<Msg("front", connId[o], type, data)>>
  PROVE  \A u \in Users : Serves(u)
<1>1. entrys[connId[o]] = o /\ o # Nil /\ IsInRoom(o)
  BY SeatHasId, NilAssumption DEF WorldInv, IsOnPlaying, IsInRoom
<1>2. PlainMail
  <2>1. /\ type \notin {"LoginSuccessResponse", "GameSituation", "MatchResponse", "GameOver"}
        /\ entrys[connId[o]] # Nil /\ IsInRoom(entrys[connId[o]])
    BY <1>1
  <2> QED
    BY <2>1, OnePlain
<1> QED
  BY <1>2, QuietServes

LEMMA SilentServes ==
  ASSUME WorldInv, UNCHANGED <<cid, entrys, state>>, sent' = <<>>, \A u \in Users : WishKept(u)
  PROVE  \A u \in Users : Serves(u)
<1>1. PlainMail
  BY DEF PlainMail
<1> QED
  BY <1>1, QuietServes

LEMMA TalkHandled ==
  ASSUME WorldInv, up', UNCHANGED cid, NEW i \in ConnIds, \A u \in Users : WishKept(u),
         \/ \E fen \in Fens : OnMoveStep(i, fen, FALSE)
         \/ OnForgiveRequest(i)
         \/ \E agree \in BOOLEAN, fen \in Fens : OnForgiveResponse(i, agree, fen)
         \/ OnDrawRequest(i)
         \/ OnDrawResponse(i, FALSE)
  PROVE  \A u \in Users : Serves(u)
<1> DEFINE s == entrys[i]
           o == FindOppEntry(s)
<1>1. CASE Ignore
  BY <1>1, NoMailServes
<1> DEFINE Talk == {"MoveStep", "ForgiveRequest", "ForgiveResponse", "DrawRequest", "DrawResponse"}
<1>2. ASSUME s # Nil, OppFound(s), NEW type \in Talk, NEW data, UNCHANGED <<entrys, state>>,
             \/ sent' = If(IsOnPlaying(o), <<Msg("front", connId[o], type, data)>>)
             \/ sent' = <<Msg("front", connId[o], type, data)>> /\ IsOnPlaying(o)
      PROVE  \A u \in Users : Serves(u)
  <2>1. CASE IsOnPlaying(o)
    <3>1. sent' = <<Msg("front", connId[o], type, data)>>
      BY <1>2, <2>1 DEF If
    <3>2. o \in Users
      BY <1>2, FoundIsInHall DEF WorldInv
    <3> HIDE DEF o
    <3> QED
      BY <1>2, <2>1, <3>1, <3>2, RelayServes
  <2>2. CASE ~IsOnPlaying(o)
    <3>1. sent' = <<>>
      BY <1>2, <2>2 DEF If
    <3> QED
      BY <1>2, <3>1, SilentServes
  <2> QED
    BY <2>1, <2>2
<1>3. ASSUME s # Nil, OppFound(s), IsOnPlaying(o), NEW type \in Talk, NEW data,
             Relay(o, type, data)
      PROVE  \A u \in Users : Serves(u)
  <2>1. sent' = <<Msg("front", connId[o], type, data)>> /\ UNCHANGED <<entrys, state>>
    BY <1>3 DEF Relay, Crash, hallVars
  <2> QED
    BY <1>2, <1>3, <2>1
<1>4. ASSUME NEW fen, OnMoveStep(i, fen, FALSE), ~Ignore
      PROVE  \A u \in Users : Serves(u)
  <2>1. /\ s # Nil /\ OppFound(s) /\ UNCHANGED <<entrys, state>>
        /\ sent' = If(IsOnPlaying(o),
                      <<Msg("front", connId[o], "MoveStep", [over |-> FALSE, fen |-> fen])>>)
    BY Zenon, <1>4 DEF OnMoveStep, PassTheMove, Crash, hallVars
  <2> QED
    BY <1>2, <2>1
<1>5. ASSUME NEW agree, NEW fen, OnForgiveResponse(i, agree, fen), ~Ignore
      PROVE  \A u \in Users : Serves(u)
  <2>1. s # Nil /\ OppFound(s)
    BY <1>5 DEF OnForgiveResponse, Crash
  <2>2. CASE agree
    <3>1. /\ UNCHANGED <<entrys, state>>
          /\ sent' = If(IsOnPlaying(o),
                        <<Msg("front", connId[o], "ForgiveResponse", [agree |-> TRUE])>>)
      BY Zenon, <1>5, <2>2 DEF OnForgiveResponse, PassTheMove, Crash, hallVars
    <3> QED
      BY <1>2, <2>1, <3>1
  <2>3. CASE ~agree
    <3>1. IsOnPlaying(o) /\ Relay(o, "ForgiveResponse", [agree |-> FALSE])
      BY <1>5, <2>3 DEF OnForgiveResponse, Crash
    <3> QED
      BY <1>3, <2>1, <3>1
  <2> QED
    BY <2>2, <2>3
<1>6. ASSUME OnForgiveRequest(i), ~Ignore
      PROVE  \A u \in Users : Serves(u)
  <2>1. /\ s # Nil /\ OppFound(s) /\ IsOnPlaying(o)
        /\ Relay(o, "ForgiveRequest", NoBody)
    BY <1>6 DEF OnForgiveRequest, Crash
  <2> QED
    BY <1>3, <2>1
<1>7. ASSUME OnDrawRequest(i), ~Ignore
      PROVE  \A u \in Users : Serves(u)
  <2>1. /\ s # Nil /\ OppFound(s) /\ IsOnPlaying(o)
        /\ Relay(o, "DrawRequest", NoBody)
    BY <1>7 DEF OnDrawRequest, Crash
  <2> QED
    BY <1>3, <2>1
<1>8. ASSUME OnDrawResponse(i, FALSE), ~Ignore
      PROVE  \A u \in Users : Serves(u)
  <2>1. /\ s # Nil /\ OppFound(s) /\ IsOnPlaying(o)
        /\ Relay(o, "DrawResponse", [agree |-> FALSE])
    BY <1>8 DEF OnDrawResponse, Crash
  <2> QED
    BY <1>3, <2>1
<1> QED
  BY <1>1, <1>4, <1>5, <1>6, <1>7, <1>8

\* A page is gone; no other page has to do with its user's Entry.
LEMMA GoneServes ==
  ASSUME WorldInv, up', UNCHANGED cid, NEW i \in ConnIds, ~Present(i),
         \A u \in Users : WishKept(u), OnDisconnected(i)
  PROVE  \A u \in Users : Serves(u)
<1> DEFINE e == entrys[i]
           o == FindOppEntry(e)
<1>1. CASE Ignore
  BY <1>1, NoMailServes
<1>2. CASE e # Nil /\ ~Ignore
  <2>1. e \in Users /\ connId[e] = i
    BY <1>2, EntryIsUser DEF WorldInv
  <2>2. /\ entrys \in [ConnIds -> Users \cup {Nil}] /\ state \in [Users -> States]
        /\ cid \in [Users -> ConnIds]
    BY DEF WorldInv, WorldTypeOK, CenterInv, TypeOK
  <2>3. /\ \A j \in ConnIds \ {i} : entrys'[j] = entrys[j]
        /\ \A w \in Users \ {e} : state'[w] = state[w]
    BY <1>2, <2>1, <2>2 DEF OnDisconnected, OutOfHall, Erase, Crash
  <2>4. PlainMail
    <3>1. CASE sent' = <<>>
      BY <3>1 DEF PlainMail
    <3>2. CASE sent' = <<CancelMatchMsg(e)>>
      BY <3>2, OnePlain DEF CancelMatchMsg
    <3>3. CASE sent' = If(IsOnPlaying(o) /\ o # e,
                          <<Msg("front", connId[o], "OppDisconnected", NoBody)>>)
      BY <3>3, OnePlain
    <3> QED
      BY <1>2, <3>1, <3>2, <3>3 DEF OnDisconnected, Crash
  <2> SUFFICES ASSUME NEW u \in Users PROVE Serves(u)
    OBVIOUS
  <2>5. cid[u] # i /\ cid[u] \in ConnIds
    BY <2>2 DEF Present
  <2>6. IsHome(u)' <=> IsHome(u)
    BY <2>3, <2>5 DEF IsHome
  <2>7. IsHome(u) => state'[u] = state[u]
    <3>1. IsHome(u) => connId[u] = cid[u]
      BY HomeOrNobody
    <3> QED
      BY <2>1, <2>3, <2>5, <3>1
  <2> QED
    BY <2>4, <2>6, <2>7, PlainServes
<1> QED
  BY <1>1, <1>2 DEF OnDisconnected

-----------------------------------------------------------------------------
(* The beginning of a game and its end.                                    *)

LEMMA PairServes ==
  ASSUME WorldInv, up', UNCHANGED cid, NEW r \in Users, NEW b \in Users, r # b,
         state[r] = "kMatching", state[b] = "kMatching",
         NEW type \in RoomTypes, OnMatchBackendResponse(r, b, type),
         \A u \in Users : WishKept(u)
  PROVE  \A u \in Users : Serves(u)
<1>1. CASE Ignore
  BY <1>1, NoMailServes
<1>2. CASE ~Ignore
  <2>1. ASSUME NEW p \in {r, b}
        PROVE  /\ p \in Users /\ entrys[connId[p]] = p /\ p # Nil
               /\ p = FindEntryByUsername(p)
    BY SeatHasId, NilAssumption DEF WorldInv, CenterInv, HallOK, FindEntryByUsername
  <2>2. /\ state' = [state EXCEPT ![r] = "kPlaying", ![b] = "kPlaying"]
        /\ UNCHANGED entrys
        /\ sent' = <<MatchResponseMsg(r, "RED", type, b), MatchResponseMsg(b, "BLACK", type, r)>>
    BY <1>2, <2>1 DEF OnMatchBackendResponse, StartNewGame, Crash
  <2>3. state \in [Users -> States]
    BY DEF WorldInv, CenterInv, TypeOK
  <2>4. /\ state'[r] = "kPlaying" /\ state'[b] = "kPlaying"
        /\ \A u \in Users : u \notin {r, b} => state'[u] = state[u]
    BY <2>2, <2>3
  <2>5. \A k \in DOMAIN sent' : /\ sent'[k].to = "front" /\ sent'[k].type = "MatchResponse"
                                /\ sent'[k].id = IF k = 1 THEN connId[r] ELSE connId[b]
    BY <2>2 DEF MatchResponseMsg, Msg
  <2>6. 1 \in DOMAIN sent' /\ 2 \in DOMAIN sent'
    BY <2>2
  <2> SUFFICES ASSUME NEW u \in Users PROVE Serves(u)
    OBVIOUS
  <2>7. entrys[cid[u]] # Nil => entrys[cid[u]] = u /\ IsHome(u)
    BY HomeOrNobody DEF IsHome
  <2>8. ASSUME NEW k \in ForPage(u)
        PROVE  IsHome(u) /\ u \in {r, b} /\ sent'[k].type = "MatchResponse"
    <3>1. \E p \in {r, b} : connId[p] = cid[u]
      BY <2>5, <2>8 DEF ForPage
    <3> QED
      BY <2>1, <2>5, <2>7, <2>8, <3>1 DEF ForPage
  <2>9. IsHome(u)' <=> IsHome(u)
    BY <2>2 DEF IsHome
  <2>10. Mailed(u) /\ Stays(u)
    BY <2>8, <2>9 DEF Mailed, Stays, NeedsBoard, IsTell
  <2>11. ASSUME IsHome(u), u \in {r, b}
         PROVE  HasGame(u)
    <3>1. connId[u] = cid[u]
      BY <2>11, HomeOrNobody
    <3>2. \E k \in {1, 2} : k \in ForPage(u) /\ IsBoard(sent'[k])
      BY <2>5, <2>6, <2>11, <3>1 DEF ForPage, IsBoard
    <3> QED
      BY <2>4, <2>11, <3>2 DEF HasGame, Unboarded
  <2>12. ASSUME u \notin {r, b}
         PROVE  SameWish(u)
    BY <2>4, <2>8, <2>12 DEF SameWish, Unboarded, WishKept
  <2> QED
    BY <2>10, <2>11, <2>12 DEF Serves
<1> QED
  BY <1>1, <1>2

LEMMA OverServes ==
  ASSUME WorldInv, UNCHANGED cid, NEW s \in Users, gameInfo[s] # Nil,
         NEW over, NEW ts, NEW before \in Seq(HallMessage),
         \A k \in DOMAIN before : /\ before[k].type \notin NewsTypes
                                  /\ ~NeedsBoard(before[k]) /\ ~IsBoard(before[k]),
         GameOver(s, FindOppEntry(s), over, ts, before),
         \A u \in Users : WishKept(u)
  PROVE  \A u \in Users : Serves(u)
<1>0. CenterInv /\ OwnersOK /\ cid \in [Users -> ConnIds]
  BY DEF WorldInv, WorldTypeOK
<1>1. PICK o \in Users : /\ o # s /\ FindOppEntry(s) = o
                         /\ IsInRoom(s) /\ IsInRoom(o)
  BY <1>0, OppIsFound
<1>2. ASSUME NEW p \in {s, o}
      PROVE  /\ p \in Users /\ p # Nil /\ connId[p] \in ConnIds /\ entrys[connId[p]] = p
             /\ IsInRoom(p)
  <2>1. p \in Users /\ state[p] # "none" /\ IsInRoom(p)
    BY <1>1 DEF IsInRoom
  <2> QED
    BY <1>0, <2>1, SeatHasId, NilAssumption
<1>3. connId[s] # connId[o]
  BY <1>1, <1>2
<1>4. /\ sent' = EndingMsgs(before, s, o, over)
      /\ DestroyRoom(s, o, [userInfo EXCEPT ![s] = SelfInfo(s, over), ![o] = OppInfo(o, over)])
  BY <1>1 DEF GameOver, EndingMsgs
<1>5. \A k \in DOMAIN sent' :
        \/ \E l \in DOMAIN before : sent'[k] = before[l]
        \/ sent'[k] \in {SelfReport(s, over), OppReport(o, over)}
        \/ sent'[k] \in {SelfOver(s, over), OppOver(o, over)}
  <2>1. PICK q : q = sent'
    OBVIOUS
  <2>2. q = EndingMsgs(before, s, o, over)
    BY <1>4, <2>1
  <2>3. \A k \in DOMAIN before : before[k].type \notin NewsTypes
    OBVIOUS
  <2>4. EndsWith(q, before, s, o, over)
    BY <1>3, <2>2, <2>3, GameOverNews
  <2> QED
    BY <2>1, <2>4 DEF EndsWith
<1>6. PlainMail
  <2>1. /\ \A m \in {SelfReport(s, over), OppReport(o, over)} : m.to = "login"
        /\ SelfOver(s, over).id = connId[s] /\ SelfOver(s, over).type = "GameOver"
        /\ OppOver(o, over).id = connId[o] /\ OppOver(o, over).type = "GameOver"
    BY DEF SelfReport, OppReport, SelfOver, OppOver, UpdateUserInfoMsg, GameOverMsg, Msg
  <2>2. ASSUME NEW k \in DOMAIN sent', sent'[k].to = "front"
        PROVE  /\ ~IsTell(sent'[k]) /\ ~IsBoard(sent'[k])
               /\ NeedsBoard(sent'[k]) =>
                    entrys[sent'[k].id] # Nil /\ IsInRoom(entrys[sent'[k].id])
    <3>1. CASE \E l \in DOMAIN before : sent'[k] = before[l]
      BY <3>1 DEF NewsTypes, IsTell
    <3>2. CASE sent'[k] \in {SelfReport(s, over), OppReport(o, over)}
      BY <2>1, <2>2, <3>2
    <3>3. CASE sent'[k] \in {SelfOver(s, over), OppOver(o, over)}
      <4>1. \E p \in {s, o} : sent'[k].id = connId[p] /\ sent'[k].type = "GameOver"
        BY <2>1, <3>3
      <4> QED
        BY <1>2, <4>1 DEF IsTell, IsBoard
    <3> QED
      BY <1>5, <3>1, <3>2, <3>3
  <2> QED
    BY <2>2 DEF PlainMail
<1>7. /\ \A i \in ConnIds : entrys'[i] = IF \E p \in {s, o} : ~IsOnPlaying(p) /\ connId[p] = i
                                           THEN Nil ELSE entrys[i]
      /\ \A u \in Users \ {s, o} : state'[u] = state[u]
      /\ \A u \in {s, o} : state'[u] \in {"none", "kOnline"}
  <2>1. state' = [u \in Users |-> CASE u \in Leavers(s, o) -> "none"
                                    [] u \in {s, o} \ Leavers(s, o) -> "kOnline"
                                    [] OTHER -> state[u]]
    BY <1>4 DEF DestroyRoom
  <2>2. Leavers(s, o) \subseteq {s, o}
    BY DEF Leavers
  <2>3. \A u \in Users \ {s, o} : state'[u] = state[u]
    BY <2>1, <2>2
  <2>4. \A u \in {s, o} : state'[u] \in {"none", "kOnline"}
    BY <1>1, <2>1, <2>2
  <2>5. entrys' = [i \in ConnIds |-> IF \E p \in {s, o} : ~IsOnPlaying(p) /\ connId[p] = i
                                       THEN Nil ELSE entrys[i]]
    BY <1>4 DEF DestroyRoom, Leavers
  <2> QED
    BY <2>3, <2>4, <2>5
<1> SUFFICES ASSUME NEW u \in Users PROVE Serves(u)
  OBVIOUS
<1>8. entrys'[cid[u]] = entrys[cid[u]]
  <2> SUFFICES ASSUME NEW p \in {s, o}, ~IsOnPlaying(p), connId[p] = cid[u]
               PROVE  FALSE
    BY <1>0, <1>7
  <2>1. IsAway(cid[u])
    BY <1>2 DEF IsAway, IsInRoom, IsOnPlaying
  <2>2. Present(cid[u]) /\ cid[u] \in ConnIds
    BY <1>0 DEF Present
  <2> QED
    BY <1>0, <2>1, <2>2 DEF OwnersOK
<1>9. IsHome(u)' <=> IsHome(u)
  BY <1>8 DEF IsHome
<1>10. \/ state'[u] = state[u] /\ WishKept(u)
       \/ IsInRoom(u) /\ state'[u] # "kMatching"
  BY <1>2, <1>7
<1> QED
  BY <1>6, <1>9, <1>10, PlainServes

-----------------------------------------------------------------------------
(* An answer to a login.                                                   *)

\* v is let in at i, or would be if its page were still there.
LEMMA EntersServes ==
  ASSUME WorldInv, UNCHANGED cid, \A u \in Users : WishKept(u),
         NEW i \in ConnIds, NEW v \in Users, Claims(v, i), ~IsHome(v),
         entrys'[i] = v, state'[v] # "kMatching",
         \A j \in ConnIds \ {i} : Present(j) => entrys'[j] = entrys[j],
         \A w \in Users \ {v} : state'[w] = state[w],
         \A k \in DOMAIN sent' :
           /\ ~NeedsBoard(sent'[k]) /\ sent'[k].type # "MatchResponse"
           /\ IsTell(sent'[k]) => sent'[k].id = i,
         \E k \in DOMAIN sent' : /\ sent'[k].to = "front" /\ sent'[k].id = i
                                 /\ \A l \in DOMAIN sent' : IsTell(sent'[l]) <=> l = k
  PROVE  \A u \in Users : Serves(u)
<1> SUFFICES ASSUME NEW u \in Users PROVE Serves(u)
  OBVIOUS
<1>1. cid[u] \in ConnIds /\ Present(cid[u]) /\ v # Nil /\ OwnersOK
  BY NilAssumption DEF WorldInv, WorldTypeOK, Present
<1>2. Mailed(u)
  BY DEF Mailed, ForPage
<1>3. CASE cid[u] = i
  <2>1. u = v
    BY <1>1, <1>3 DEF OwnersOK, Claims
  <2>2. IsHome(u)' /\ ~IsHome(u) /\ state'[u] # "kMatching"
    BY <1>3, <2>1 DEF IsHome
  <2>3. \E k \in ForPage(u) : \A l \in ForPage(u) : IsTell(sent'[l]) <=> l = k
    BY <1>3 DEF ForPage
  <2> QED
    BY <1>2, <2>2, <2>3 DEF Serves, ComesIn
<1>4. CASE cid[u] # i
  <2>1. IsHome(u)' <=> IsHome(u)
    BY <1>1, <1>4 DEF IsHome
  <2>2. \A k \in ForPage(u) : ~IsTell(sent'[k])
    BY <1>4 DEF ForPage
  <2>3. Unboarded(u)
    BY <2>2 DEF Unboarded, IsBoard, IsTell, ForPage
  <2>4. IsHome(u) => state'[u] = state[u]
    OBVIOUS
  <2>5. IsHome(u) => SameWish(u)
    BY <2>3, <2>4 DEF SameWish, WishKept
  <2> QED
    BY <1>2, <2>1, <2>2, <2>5 DEF Serves, Stays
<1> QED
  BY <1>3, <1>4

LEMMA LoginServes ==
  ASSUME WorldInv, up', UNCHANGED cid, \A u \in Users : WishKept(u),
         NEW i \in ConnIds, NEW v \in Users, Claims(v, i),
         OnLoginSuccessResponse(i, v, record[v])
  PROVE  \A u \in Users : Serves(u)
<1> DEFINE oldId == userList[v]
           e == entrys[oldId]
           info == record[v]
<1>1. CenterInv /\ OwnersOK
  BY DEF WorldInv
<1>2. /\ entrys[i] # Nil => entrys[i] = v /\ oldId = i
      /\ oldId # Nil => oldId \in ConnIds /\ e = v /\ connId[v] = oldId /\ state[v] # "none"
      /\ v # Nil
  <2>1. entrys[i] # Nil => entrys[i] = v
    <3> SUFFICES ASSUME entrys[i] # Nil PROVE entrys[i] = v
      OBVIOUS
    <3>1. entrys[i] \in Users /\ Claims(entrys[i], i)
      BY <1>1, EntryIsUser DEF Claims
    <3> QED
      BY <1>1, <3>1 DEF OwnersOK
  <2> QED
    BY <1>1, <2>1, NilAssumption DEF CenterInv, TypeOK, HallOK
<1>3. /\ state \in [Users -> States] /\ entrys \in [ConnIds -> Users \cup {Nil}]
      /\ cid[v] \in ConnIds
  BY <1>1 DEF CenterInv, TypeOK, WorldInv, WorldTypeOK
<1>4. \A j \in ConnIds : entrys[j] = v => j = oldId
  BY <1>1, <1>2 DEF CenterInv, HallOK
<1>5. CASE Ignore
  BY <1>5, NoMailServes
<1>6. CASE /\ oldId = Nil
           /\ IntoHall(i, v, info)
           /\ sent' = <<Msg("front", i, "LoginSuccessResponse", [username |-> v, info |-> info])>>
  <2>1. entrys[i] = Nil
    BY <1>2, <1>6, NilAssumption
  <2>2. entrys' = [entrys EXCEPT ![i] = v] /\ state' = [state EXCEPT ![v] = "kOnline"]
    BY <1>6, <2>1 DEF IntoHall, Insert
  <2>3. /\ entrys'[i] = v /\ state'[v] = "kOnline"
        /\ \A j \in ConnIds \ {i} : entrys'[j] = entrys[j]
        /\ \A w \in Users \ {v} : state'[w] = state[w]
    BY <1>3, <2>2
  <2>4. \A j \in ConnIds : entrys[j] # v
    BY <1>4, <1>6, NilAssumption DEF CenterInv, TypeOK
  <2>5. ~IsHome(v)
    BY <1>3, <2>4 DEF IsHome
  <2>6. /\ 1 \in DOMAIN sent' /\ \A k \in DOMAIN sent' : k = 1
        /\ sent'[1].to = "front" /\ sent'[1].id = i /\ sent'[1].type = "LoginSuccessResponse"
    BY <1>6 DEF Msg
  <2>7. /\ \A k \in DOMAIN sent' : /\ ~NeedsBoard(sent'[k]) /\ sent'[k].type # "MatchResponse"
                                   /\ IsTell(sent'[k]) => sent'[k].id = i
        /\ \E k \in DOMAIN sent' : /\ sent'[k].to = "front" /\ sent'[k].id = i
                                   /\ \A l \in DOMAIN sent' : IsTell(sent'[l]) <=> l = k
    BY <2>6 DEF IsTell, NeedsBoard
  <2> QED
    BY <2>3, <2>5, <2>7, EntersServes
<1>7. CASE /\ sent' = <<Msg("front", i, "LoginFailedResponse", [reason |-> "MULTI_LOGIN"])>>
           /\ UNCHANGED hallVars
  <2>1. PlainMail /\ UNCHANGED <<entrys, state>>
    BY <1>7, OnePlain DEF hallVars
  <2> QED
    BY <2>1, QuietServes
<1>8. CASE /\ oldId \notin {Nil, i} /\ e # Nil
           /\ state[e] = "kDisconnecteInPlaying"
           /\ OnReconnected(i, oldId, e)
  <2> DEFINE opp == gameInfo[v].opp
             note == Msg("front", connId[opp], "OppReconnected", NoBody)
             told == If(IsOnPlaying(opp), <<note>>)
             sit == SituationMsg(v, i)
             movedEntrys == Insert(Erase(entrys, oldId), i, v)
  <2>1. /\ e = v /\ entrys[i] = Nil /\ oldId \in ConnIds \ {i} /\ connId[v] = oldId
        /\ state[v] = "kDisconnecteInPlaying"
    BY <1>2, <1>8
  <2>2. gameInfo[v] # Nil
    BY <1>1, <2>1 DEF CenterInv, RoomOK, IsInRoom
  <2>3. /\ opp \in Users \ {v} /\ connId[opp] \in ConnIds \ {i, oldId}
        /\ entrys[connId[opp]] = opp /\ opp # Nil
    <3>1. opp \in Users \ {v} /\ state[opp] # "none"
      BY <1>1, <2>2, OppIsFound DEF IsInRoom
    <3>2. connId[opp] \in ConnIds /\ entrys[connId[opp]] = opp
      BY <1>1, <3>1, SeatHasId
    <3> QED
      BY <2>1, <3>1, <3>2, NilAssumption
  <2>4. movedEntrys = [[entrys EXCEPT ![oldId] = Nil] EXCEPT ![i] = v]
    BY <1>1, <2>1 DEF Insert, Erase, CenterInv, TypeOK
  <2>5. movedEntrys[connId[opp]] = opp
    BY <1>1, <2>3, <2>4 DEF CenterInv, TypeOK
  <2>6. /\ entrys' = movedEntrys
        /\ state' = [state EXCEPT ![v] = "kPlaying"]
        /\ sent' = told \o <<sit>>
    BY <1>8, <2>1, <2>5 DEF OnReconnected, Crash
  <2>7. /\ entrys'[i] = v /\ entrys'[oldId] = Nil
        /\ \A j \in ConnIds \ {i, oldId} : entrys'[j] = entrys[j]
        /\ state'[v] = "kPlaying"
        /\ \A w \in Users \ {v} : state'[w] = state[w]
    BY <1>3, <2>1, <2>4, <2>6
  <2>8. ~Present(oldId)
    <3>1. IsAway(oldId)
      BY <2>1, <1>2 DEF IsAway
    <3> QED
      BY <1>1, <2>1, <3>1 DEF OwnersOK
  <2>9. ~IsHome(v)
    BY <1>3, <1>4, <2>8 DEF IsHome, Present
  <2>10. /\ sit.to = "front" /\ sit.id = i /\ sit.type = "GameSituation"
         /\ note.type = "OppReconnected"
    BY DEF SituationMsg, Msg
  <2>11. sent' = <<note, sit>> \/ sent' = <<sit>>
    <3> HIDE DEF note, sit
    <3>1. \/ told = <<note>> \/ told = <<>>
      BY DEF If
    <3>2. ASSUME NEW a, NEW b PROVE <<a>> \o <<b>> = <<a, b>>
      <4> DEFINE x == <<a>>
                 y == <<b>>
                 z == <<a, b>>
      <4>1. /\ x \in Seq({a, b}) /\ y \in Seq({a, b}) /\ z \in Seq({a, b})
            /\ Len(x) = 1 /\ Len(y) = 1 /\ Len(z) = 2
            /\ x[1] = a /\ y[1] = b /\ z[1] = a /\ z[2] = b
        OBVIOUS
      <4> HIDE DEF x, y, z
      <4>2. /\ x \o y \in Seq({a, b}) /\ Len(x \o y) = Len(x) + Len(y)
            /\ \A k \in 1..Len(x) : (x \o y)[k] = x[k]
            /\ \A k \in 1..Len(y) : (x \o y)[Len(x) + k] = y[k]
        BY <4>1, Concatenated
      <4>3. Len(x \o y) = 2 /\ (x \o y)[1] = a /\ (x \o y)[2] = b
        BY <4>1, <4>2
      <4>4. \A k \in 1..Len(z) : z[k] = (x \o y)[k]
        BY <4>1, <4>3
      <4>5. z = x \o y
        BY <4>1, <4>2, <4>3, <4>4, SeqEqual
      <4> QED
        BY <4>5 DEF x, y, z
    <3>3. \A b : <<>> \o <<b>> = <<b>>
      OBVIOUS
    <3> HIDE DEF told
    <3> QED
      BY <2>6, <3>1, <3>2, <3>3
  <2> HIDE DEF note, sit, told, opp, movedEntrys
  <2>12. /\ \A k \in DOMAIN sent' : sent'[k] = note \/ sent'[k] = sit
         /\ \E k \in DOMAIN sent' : \A l \in DOMAIN sent' : sent'[l] = sit <=> l = k
    <3>1. note # sit
      BY <2>10
    <3>2. CASE sent' = <<note, sit>>
      <4>1. /\ DOMAIN sent' = 1..2 /\ sent'[1] = note /\ sent'[2] = sit
        BY <3>2
      <4>2. \A k \in DOMAIN sent' : k = 1 \/ k = 2
        BY <4>1
      <4>3. 2 \in DOMAIN sent' /\ \A l \in DOMAIN sent' : sent'[l] = sit <=> l = 2
        BY <3>1, <4>1, <4>2
      <4> QED
        BY <4>1, <4>2, <4>3
    <3>3. CASE sent' = <<sit>>
      <4>1. 1 \in DOMAIN sent' /\ \A k \in DOMAIN sent' : k = 1 /\ sent'[k] = sit
        BY <3>3
      <4> QED
        BY <4>1
    <3> QED
      BY <2>11, <3>2, <3>3
  <2>13. /\ \A k \in DOMAIN sent' : /\ ~NeedsBoard(sent'[k]) /\ sent'[k].type # "MatchResponse"
                                    /\ IsTell(sent'[k]) <=> sent'[k] = sit
    BY <2>10, <2>12 DEF NeedsBoard, IsTell
  <2>14. /\ \A k \in DOMAIN sent' : IsTell(sent'[k]) => sent'[k].id = i
         /\ \E k \in DOMAIN sent' : /\ sent'[k].to = "front" /\ sent'[k].id = i
                                    /\ \A l \in DOMAIN sent' : IsTell(sent'[l]) <=> l = k
    <3>1. PICK k \in DOMAIN sent' : \A l \in DOMAIN sent' : sent'[l] = sit <=> l = k
      BY <2>12
    <3>2. sent'[k] = sit
      BY <3>1
    <3> QED
      BY <2>10, <2>13, <3>1, <3>2
  <2>15. \A j \in ConnIds \ {i} : Present(j) => entrys'[j] = entrys[j]
    BY <2>7, <2>8
  <2> QED
    BY <2>7, <2>9, <2>13, <2>14, <2>15, EntersServes
<1> QED
  BY <1>5, <1>6, <1>7, <1>8 DEF OnLoginSuccessResponse, Crash

-----------------------------------------------------------------------------
(* Every step of the game.                                                 *)

LEMMA EndServes ==
  ASSUME WorldInv, up', UNCHANGED cid, \A u \in Users : WishKept(u),
         NEW s \in Users, NEW over, NEW ts, NEW before \in Seq(HallMessage),
         \A k \in DOMAIN before : /\ before[k].type \notin NewsTypes
                                  /\ ~NeedsBoard(before[k]) /\ ~IsBoard(before[k]),
         EndGame(s, over, ts, before)
  PROVE  \A u \in Users : Serves(u)
<1>1. OppInGame(s) /\ GameOver(s, FindOppEntry(s), over, ts, before)
  BY DEF EndGame, Crash
<1>2. gameInfo[s] # Nil
  BY <1>1 DEF OppInGame, OppFound, HasOpp
<1> QED
  BY <1>1, <1>2, OverServes

LEMMA NothingBefore ==
  /\ <<>> \in Seq(HallMessage)
  /\ \A k \in DOMAIN <<>> : /\ <<>>[k].type \notin NewsTypes
                            /\ ~NeedsBoard(<<>>[k]) /\ ~IsBoard(<<>>[k])
  OBVIOUS

LEMMA EndsServe ==
  ASSUME WorldInv, up', UNCHANGED cid, \A u \in Users : WishKept(u), NEW i \in ConnIds,
         OnGiveup(i) \/ OnDrawResponse(i, TRUE)
  PROVE  \A u \in Users : Serves(u)
<1>1. CASE Ignore
  BY <1>1, NoMailServes
<1>2. ASSUME entrys[i] # Nil, NEW over, EndGame(entrys[i], over, timers, <<>>)
      PROVE  \A u \in Users : Serves(u)
  <2>1. entrys[i] \in Users
    BY <1>2, EntryIsUser DEF WorldInv
  <2> QED
    BY <1>2, <2>1, NothingBefore, EndServes
<1> QED
  BY <1>1, <1>2 DEF OnGiveup, OnDrawResponse, Crash

LEMMA LastMoveServes ==
  ASSUME WorldInv, up', UNCHANGED cid, \A u \in Users : WishKept(u), NEW i \in ConnIds,
         NEW fen \in Fens, OnMoveStep(i, fen, TRUE)
  PROVE  \A u \in Users : Serves(u)
<1> DEFINE s == entrys[i]
           o == FindOppEntry(s)
           m == Msg("front", connId[o], "MoveStep", [over |-> TRUE, fen |-> fen])
<1>0. CenterInv
  BY DEF WorldInv
<1>1. CASE Ignore
  BY <1>1, NoMailServes
<1>2. CASE /\ s # Nil /\ IsOnPlaying(s) /\ OppFound(s)
           /\ EndGame(s, "WIN", timers, If(IsOnPlaying(o), <<m>>))
  <2>1. s \in Users /\ o \in Users /\ state[o] # "none"
    BY <1>0, <1>2, FoundIsInHall
  <2>2. connId[o] \in ConnIds /\ entrys[connId[o]] # Nil
    BY <1>0, <2>1, SeatHasId, NilAssumption
  <2>3. PICK before : before = If(IsOnPlaying(o), <<m>>)
    OBVIOUS
  <2>4. before = <<>> \/ before = <<m>>
    BY <2>3 DEF If
  <2>5. m \in HallMessage
    <3>1. PICK data \in Body : data = [over |-> TRUE, fen |-> fen]
      BY BodyTyped
    <3>2. Msg("front", connId[o], "MoveStep", data) \in HallMessage
      BY <2>2, HallMsg DEF Links, MessageTypes
    <3> QED
      BY <3>1, <3>2
  <2>6. m.type \notin NewsTypes /\ ~NeedsBoard(m) /\ ~IsBoard(m)
    BY DEF Msg, NewsTypes, NeedsBoard, IsBoard
  <2>7. EndGame(s, "WIN", timers, before)
    BY <1>2, <2>3
  <2> HIDE DEF m, o, s
  <2>8. before \in Seq(HallMessage) /\ \A k \in DOMAIN before : before[k] = m
    <3>1. CASE before = <<>>
      BY <3>1
    <3>2. CASE before = <<m>>
      BY <2>5, <3>2
    <3> QED
      BY <2>4, <3>1, <3>2
  <2>9. \A k \in DOMAIN before : /\ before[k].type \notin NewsTypes
                                 /\ ~NeedsBoard(before[k]) /\ ~IsBoard(before[k])
    BY <2>6, <2>8
  <2> QED
    BY <2>1, <2>7, <2>8, <2>9, EndServes
<1> QED
  BY <1>1, <1>2 DEF OnMoveStep, Crash

\* The center handles a message of the page at i.
LEMMA DeliverServes ==
  ASSUME WorldInv, DialogInv, up', NEW i \in ConnIds, Deliver(i)
  PROVE  DialogInv'
<1> DEFINE q == upq[i]
           m == Head(q)
<1>1. /\ q # <<>> /\ Handle(i, m.type, m.data)
      /\ upq' = [upq EXCEPT ![i] = Tail(q)] /\ PassOn /\ UNCHANGED cid
  BY DEF Deliver, PassOn, pageVars
<1>2. upq \in [ConnIds -> Seq(Said)] /\ OwnersOK
  BY DEF WorldInv, WorldTypeOK
<1>3. q \in Seq(Said) /\ m = q[1] /\ m \in Said /\ 1 \in DOMAIN q
  <2>1. q \in Seq(Said)
    BY <1>2
  <2> QED
    BY <1>1, <2>1, TailOf
<1>4. (Crossed => Crossed') /\ (m.type = "MatchRequest" /\ Outdated(i) /\ state' # state => Crossed')
  <2>1. mishaps' = IF m.type = "MatchRequest" /\ Outdated(i) /\ state' # state
                     THEN mishaps \cup {"crossed"} ELSE mishaps
    BY DEF Deliver
  <2> QED
    BY <2>1 DEF Crossed
<1>5. \A u \in Users : NoWish(upq[cid[u]]) => NoWish(upq'[cid[u]])
  BY <1>1, WishHandled
<1>6. ~IsWish(m) => \A u \in Users : WishKept(u)
  BY <1>1, WishHandled
<1>7. WorldInv'
  BY DeliverStep
<1>8. \A u \in Users : Serves(u)
  <2>1. CASE m.type = "LoginRequest" /\ OnLoginSuccessResponse(i, m.data.username, record[m.data.username])
    <3>1. m.data.username \in Users /\ ~IsWish(m)
      BY <1>3, <2>1 DEF Said, IsWish
    <3>2. Claims(m.data.username, i)
      BY <1>3, <2>1 DEF Claims
    <3> QED
      BY <1>1, <1>6, <2>1, <3>1, <3>2, LoginServes
  <2>2. CASE m.type = "Disconnected" /\ OnDisconnected(i)
    <3>1. ~Present(i)
      BY <1>2, <1>3, <2>2 DEF OwnersOK, Closed
    <3> QED
      BY <1>1, <1>6, <2>2, <3>1, GoneServes DEF IsWish
  <2>3. CASE m.type = "MatchRequest" /\ OnMatchRequest(i, m.data.type)
    <3>1. m.data.type \in RoomTypes
      BY <1>3, <2>3 DEF Said
    <3> QED
      BY <1>1, <1>4, <2>3, <3>1, QueueServes
  <2>4. CASE m.type = "CancelMatchRequest" /\ OnCancelMatchRequest(i)
    BY <1>1, <2>4, QueueServes
  <2>5. CASE m.type = "MoveStep" /\ OnMoveStep(i, m.data.fen, m.data.over)
    <3>1. m.data.fen \in Fens /\ m.data.over \in BOOLEAN /\ ~IsWish(m)
      BY <1>3, <2>5 DEF Said, IsWish
    <3>2. CASE m.data.over = TRUE
      BY <1>1, <1>6, <2>5, <3>1, <3>2, LastMoveServes
    <3>3. CASE m.data.over = FALSE
      BY <1>1, <1>6, <2>5, <3>1, <3>3, TalkHandled
    <3> QED
      BY <3>1, <3>2, <3>3
  <2>6. CASE m.type = "ForgiveResponse" /\ OnForgiveResponse(i, m.data.agree, m.data.fen)
    <3>1. m.data.fen \in Fens /\ m.data.agree \in BOOLEAN /\ ~IsWish(m)
      BY <1>3, <2>6 DEF Said, IsWish
    <3> QED
      BY <1>1, <1>6, <2>6, <3>1, TalkHandled
  <2>7. CASE m.type = "DrawResponse" /\ OnDrawResponse(i, m.data.agree)
    <3>1. m.data.agree \in BOOLEAN /\ ~IsWish(m)
      BY <1>3, <2>7 DEF Said, IsWish
    <3>2. CASE m.data.agree = TRUE
      BY <1>1, <1>6, <2>7, <3>1, <3>2, EndsServe
    <3>3. CASE m.data.agree = FALSE
      BY <1>1, <1>6, <2>7, <3>1, <3>3, TalkHandled
    <3> QED
      BY <3>1, <3>2, <3>3
  <2>8. CASE m.type = "Giveup" /\ OnGiveup(i)
    BY <1>1, <1>6, <2>8, EndsServe DEF IsWish
  <2>9. CASE \/ m.type = "ForgiveRequest" /\ OnForgiveRequest(i)
             \/ m.type = "DrawRequest" /\ OnDrawRequest(i)
    BY <1>1, <1>6, <2>9, TalkHandled DEF IsWish
  <2> QED
    BY <1>1, <2>1, <2>2, <2>3, <2>4, <2>5, <2>6, <2>7, <2>8, <2>9 DEF Handle
<1> QED
  BY <1>1, <1>4, <1>5, <1>7, <1>8, DialogServed

LEMMA PairServesAll ==
  ASSUME WorldInv, DialogInv, up', NEW r \in Users, NEW b \in Users, Pair(r, b)
  PROVE  DialogInv'
<1>1. PICK type \in RoomTypes : OnMatchBackendResponse(r, b, type)
  BY DEF Pair
<1>2. /\ r # b /\ state[r] = "kMatching" /\ state[b] = "kMatching"
      /\ UNCHANGED <<upq, mishaps>> /\ PassOn /\ UNCHANGED cid
  BY DEF Pair, PassOn, pageVars
<1>3. \A u \in Users : WishKept(u) /\ (NoWish(upq[cid[u]]) => NoWish(upq'[cid[u]]))
  BY <1>2 DEF WishKept
<1>4. \A u \in Users : Serves(u)
  BY <1>1, <1>2, <1>3, PairServes
<1>5. Crossed => Crossed'
  BY <1>2 DEF Crossed
<1>6. WorldInv'
  BY PairStep
<1> QED
  BY <1>2, <1>3, <1>4, <1>5, <1>6, DialogServed

LEMMA ClockServes ==
  ASSUME WorldInv, DialogInv, up', NEW s \in Users, ClockRunsOut(s)
  PROVE  DialogInv'
<1>1. EndGame(s, "SELF_TIMEOUT", CancelTimer(timers, s), <<>>)
  BY DEF ClockRunsOut, OnTimeOut
<1>2. UNCHANGED <<upq, mishaps>> /\ PassOn /\ UNCHANGED cid
  BY DEF ClockRunsOut, PassOn, pageVars
<1>3. \A u \in Users : WishKept(u) /\ (NoWish(upq[cid[u]]) => NoWish(upq'[cid[u]]))
  BY <1>2 DEF WishKept
<1>4. \A u \in Users : Serves(u)
  BY <1>1, <1>2, <1>3, NothingBefore, EndServes
<1>5. Crossed => Crossed'
  BY <1>2 DEF Crossed
<1>6. WorldInv'
  BY ClockRunsOutStep
<1> QED
  BY <1>2, <1>3, <1>4, <1>5, <1>6, DialogServed

LEMMA InitDialogInv == GameInit => DialogInv
<1> SUFFICES ASSUME GameInit PROVE DialogInv
  OBVIOUS
<1>1. /\ state = [u \in Users |-> "kOnline"]
      /\ dialog = [u \in Users |-> "match"]
      /\ pos = [u \in Users |-> Nil]
      /\ due = [u \in Users |-> Nil]
      /\ selfUser = [u \in Users |-> NewUser]
      /\ upq = [i \in ConnIds |-> <<>>]
      /\ downq = [i \in ConnIds |-> <<>>]
  BY DEF GameInit
<1>2. \A u \in Users : cid[u] \in ConnIds /\ IsHome(u)
  BY EverybodyInHall DEF IsHome
<1>3. \A k : k \notin DOMAIN <<>>
  OBVIOUS
<1>4. ASSUME NEW u \in Users
      PROVE  ScreenOK(u) /\ AgreedOK(u)
  <2>1. NoTell(<<>>) /\ NoWish(<<>>) /\ Grounded(<<>>, Nil) /\ OneTell(<<>>)
        /\ ~Gets(<<>>, Nil) /\ ~Wants(<<>>, "kOnline")
    BY <1>3 DEF NoTell, NoWish, Grounded, OneTell, Gets, Wants
  <2>2. Screen("match", Nil, Nil, NewUser, IsHome(u), <<>>)
    BY <1>2, <2>1 DEF Screen
  <2>3. Agreed("match", Nil, IsHome(u), "kOnline", <<>>, <<>>, Crossed)
    BY <1>2, <2>1 DEF Agreed
  <2>4. /\ dialog[u] = "match" /\ pos[u] = Nil /\ due[u] = Nil /\ selfUser[u] = NewUser
        /\ state[u] = "kOnline" /\ upq[cid[u]] = <<>> /\ downq[cid[u]] = <<>>
    BY <1>1, <1>2
  <2> QED
    BY <2>2, <2>3, <2>4 DEF ScreenOK, AgreedOK
<1>5. "match" \in Dialogs
  BY DEF Dialogs
<1> QED
  BY <1>1, <1>4, <1>5 DEF DialogInv

LEMMA NothingShown ==
  ASSUME DialogInv, UNCHANGED allVars
  PROVE  DialogInv'
<1>1. UNCHANGED <<cid, dialog, pos, due, selfUser, upq, downq, entrys, state, mishaps>>
  BY DEF allVars, pageVars, centerVars, hallVars
<1> QED
  BY <1>1 DEF DialogInv, ScreenOK, AgreedOK, Crossed, IsHome

LEMMA NextDialogInv ==
  ASSUME up => WorldInv /\ DialogInv, [GameNext]_allVars
  PROVE  up' => WorldInv' /\ DialogInv'
<1> SUFFICES ASSUME up' PROVE WorldInv' /\ DialogInv'
  OBVIOUS
<1>0. WorldInv'
  BY NextWorldInv
<1>1. CASE UNCHANGED allVars
  <2>1. up
    BY <1>1 DEF allVars, centerVars
  <2> QED
    BY <1>0, <1>1, <2>1, NothingShown
<1>2. ASSUME NEW u \in Users, Click(u) \/ Ask(u) \/ Receive(u) \/ ShowResult(u) \/ Refresh(u)
      PROVE  DialogInv'
  <2>1. WorldInv /\ DialogInv
    BY <1>2 DEF Click, Ask, Receive, ShowResult, Refresh, Free
  <2> QED
    BY <1>2, <2>1, ClickServes, AskServes, ReceiveServes, ShowResultServes, RefreshServes
<1>3. ASSUME NEW u \in Users, NEW m \in Moves, PlayMove(u, m)
      PROVE  DialogInv'
  <2>1. WorldInv /\ DialogInv
    BY <1>3 DEF PlayMove, Free
  <2> QED
    BY <1>3, <2>1, PlayMoveServes
<1>4. ASSUME NEW i \in ConnIds, Deliver(i)
      PROVE  DialogInv'
  <2>1. WorldInv /\ DialogInv
    BY <1>4, HandlesWhileUp DEF Deliver
  <2> QED
    BY <1>4, <2>1, DeliverServes
<1>5. ASSUME NEW r \in Users, NEW b \in Users, Pair(r, b)
      PROVE  DialogInv'
  <2>1. WorldInv /\ DialogInv
    BY <1>5 DEF Pair, OnMatchBackendResponse, StartNewGame, Ignore, Crash
  <2> QED
    BY <1>5, <2>1, PairServesAll
<1>6. ASSUME NEW u \in Users, ClockRunsOut(u)
      PROVE  DialogInv'
  <2>1. WorldInv /\ DialogInv
    BY <1>6 DEF ClockRunsOut, OnTimeOut
  <2> QED
    BY <1>6, <2>1, ClockServes
<1> QED
  BY <1>0, <1>1, <1>2, <1>3, <1>4, <1>5, <1>6 DEF GameNext

\* Whenever nothing is under way to or from a page, its dialog fits what the
\* center thinks of its user: it looks for an opponent when the center does so
\* for it, it offers a match to who is in the hall and in no game, it asks who
\* has no Entry, and nobody else, to log in, and who is in a game has a board
\* and no result before it; unless a request for a match was granted that is
\* older than the game its page had been told of.  For any number of users,
\* connections, plies and messages under way, over the one game a page plays
\* here (the dialogs of ui_displayer.js and net.js; onMatchRequest,
\* onCancelMatchRequest, startNewGame, onReconnected, onDisconnected and
\* gameOver of center_server.cc).
THEOREM DialogFitsStateAlways == GameSpec => []DialogFitsState
<1>1. GameInit => (up => WorldInv /\ DialogInv)
  BY InitWorldInv, InitDialogInv
<1>2. (up => WorldInv /\ DialogInv) /\ [GameNext]_allVars => (up => WorldInv /\ DialogInv)'
  BY NextDialogInv
<1>3. (up => WorldInv /\ DialogInv) => DialogFitsState
  <2>1. CASE up
    BY <2>1, DialogsFit
  <2>2. CASE ~up
    BY <2>2 DEF DialogFitsState, Quiet
  <2> QED
    BY <2>1, <2>2
<1> QED
  BY <1>1, <1>2, <1>3, PTL DEF GameSpec
=============================================================================
