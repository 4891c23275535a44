---------------------------- MODULE LayoutStoreProofs ----------------------------
(***************************************************************************)
(* What LayoutStore guarantees for any slugs, templates, documents and     *)
(* bounds: the schema's promises, one default dashboard at most, a         *)
(* dashboard to show once the wizard is done, a wizard that finds nothing  *)
(* to delete, and imports that do to the dashboards that exist and to      *)
(* those of their documents what their strategy says and nothing else.     *)
(***************************************************************************)
EXTENDS LayoutStore, FiniteSetTheorems, WellFoundedInduction, TLAPS

-----------------------------------------------------------------------------
(* Numbers.                                                                *)

(* A set of naturals that is not empty has a least element.                *)
LEMMA LeastNatural ==
  ASSUME NEW T, T \subseteq Nat, T # {}
  PROVE  \E x \in T : \A y \in T : x <= y
<1> DEFINE R == {p \in Nat \X Nat : p[1] < p[2]}
<1>1. IsWellFoundedOn(R, Nat)
  BY NatLessThanWellFounded DEF OpToRel
<1>2. PICK x \in T : \A y \in T : ~ (<<y, x>> \in R)
  <2> HIDE DEF R
  <2> QED  BY <1>1, WFMin
<1>3. \A y \in T : ~(y < x)
  BY <1>2
<1> QED  BY <1>3

(* A table of naturals over the first n ids is bounded.                    *)
LEMMA TableBounded ==
  ASSUME NEW n \in Nat, NEW f, \A i \in 1..n : f[i] \in Nat
  PROVE  \E b \in Nat : \A i \in 1..n : f[i] <= b
<1> DEFINE Unbounded == {m \in Nat : m <= n /\ ~ \E b \in Nat : \A i \in 1..m : f[i] <= b}
<1>1. SUFFICES ASSUME ~ \E b \in Nat : \A i \in 1..n : f[i] <= b PROVE FALSE
  OBVIOUS
<1>2. PICK m \in Unbounded : \A k \in Unbounded : m <= k
  <2>1. n \in Unbounded
    BY <1>1
  <2>2. Unbounded \subseteq Nat
    OBVIOUS
  <2> HIDE DEF Unbounded
  <2> QED  BY <2>1, <2>2, LeastNatural
<1>3. m # 0
  <2>1. \A i \in 1..0 : f[i] <= 0
    OBVIOUS
  <2> QED  BY <2>1
<1>4. m \in 1..n /\ m - 1 \in Nat /\ m - 1 \notin Unbounded
  <2>1. m \in Nat /\ m <= n
    BY <1>2
  <2>2. m - 1 \notin Unbounded
    <3> HIDE DEF Unbounded
    <3> QED  BY <1>2, <2>1
  <2> QED  BY <1>3, <2>1, <2>2
<1>5. PICK b \in Nat : \A i \in 1..(m - 1) : f[i] <= b
  BY <1>4
<1>6. f[m] \in Nat
  BY <1>4
<1>7. \A i \in 1..m : f[i] <= b + f[m]
  <2> TAKE i \in 1..m
  <2>1. f[i] \in Nat
    BY <1>4
  <2>2. i = m \/ i \in 1..(m - 1)
    BY <1>4
  <2> QED  BY <1>5, <1>6, <2>1, <2>2
<1>8. b + f[m] \in Nat
  BY <1>6
<1> QED  BY <1>2, <1>7, <1>8

(* Max of a bounded set of naturals is its greatest element.               *)
LEMMA MaxOfBounded ==
  ASSUME NEW T, T \subseteq Nat, T # {}, NEW b \in Nat, \A x \in T : x <= b
  PROVE  Max(T) \in T /\ \A x \in T : Max(T) >= x
<1> DEFINE Above == {u \in Nat : \A x \in T : x <= u}
<1>1. PICK u \in Above : \A v \in Above : u <= v
  <2>1. b \in Above /\ Above \subseteq Nat
    OBVIOUS
  <2> HIDE DEF Above
  <2> QED  BY <2>1, LeastNatural
<1>2. u \in T
  <2>1. SUFFICES ASSUME u \notin T PROVE FALSE
    OBVIOUS
  <2>2. \A x \in T : x < u
    BY <1>1, <2>1
  <2>3. u \in Nat /\ u > 0
    <3>1. PICK x \in T : x < u
      BY <2>2
    <3>2. u \in Nat /\ x \in Nat
      OBVIOUS
    <3> QED  BY <3>1, <3>2
  <2>4. \A x \in T : x <= u - 1
    BY <2>2, <2>3
  <2>5. u - 1 \in Above
    BY <2>3, <2>4
  <2> QED  BY <1>1, <2>3, <2>5
<1>3. \A x \in T : u >= x
  BY <1>1
<1> QED  BY <1>2, <1>3 DEF Max

-----------------------------------------------------------------------------
(* A database is a record: writing one field leaves the others.            *)
LEMMA WriteDashboards ==
  ASSUME NEW s, IsDatabase(s), NEW x
  PROVE  LET t == [s EXCEPT !.dashboards = x]
         IN  /\ IsDatabase(t)
             /\ t.dashboards = x
             /\ t.cards = s.cards
             /\ t.nextDash = s.nextDash
             /\ t.nextCard = s.nextCard
             /\ t.history = s.history
             /\ t.complete = s.complete
             /\ t.password = s.password
BY DEF IsDatabase

LEMMA WriteCards ==
  ASSUME NEW s, IsDatabase(s), NEW x
  PROVE  LET t == [s EXCEPT !.cards = x]
         IN  /\ IsDatabase(t)
             /\ t.dashboards = s.dashboards
             /\ t.cards = x
             /\ t.nextDash = s.nextDash
             /\ t.nextCard = s.nextCard
             /\ t.history = s.history
             /\ t.complete = s.complete
             /\ t.password = s.password
BY DEF IsDatabase

-----------------------------------------------------------------------------
(* The statements keep what the schema promises.                           *)

(* What every lemma below says of the settings, which no statement on      *)
(* dashboards and cards touches.                                           *)
SameSettings(s, t) ==
  /\ t.history = s.history
  /\ t.complete = s.complete
  /\ t.password = s.password

(* Put writes one row; the other dashboards keep their slugs, and the      *)
(* default, if it is given away, is given to this row alone.               *)
LEMMA PutFacts ==
  ASSUME NEW s, Sound(s), NEW d \in DashIds, NEW row \in Dashboard, Owner(s, row.slug) \subseteq {d}
  PROVE  LET t == Put(s, d, row)
         IN  /\ IsDatabase(t)
             /\ DOMAIN t.dashboards = DOMAIN s.dashboards \cup {d}
             /\ t.dashboards[d] = row
             /\ IsTable(t.dashboards, DashIds, Dashboard)
             /\ \A a, b \in DOMAIN t.dashboards : t.dashboards[a].slug = t.dashboards[b].slug => a = b
             /\ AtMostOneDefault(s) => AtMostOneDefault(t)
             /\ t.cards = s.cards
             /\ t.nextDash = s.nextDash
             /\ t.nextCard = s.nextCard
             /\ SameSettings(s, t)
<1> DEFINE C == ClearedExcept(s, d)
           D == [e \in DOMAIN s.dashboards |->
                   IF e = d THEN s.dashboards[e]
                   ELSE [s.dashboards[e] EXCEPT !.is_default = FALSE]]
           rest == IF row.is_default THEN C ELSE s
           T == [e \in DOMAIN s.dashboards \cup {d} |->
                   IF e = d THEN row ELSE rest.dashboards[e]]
           t == Put(s, d, row)
<1>1. IsDatabase(s) /\ IsTable(s.dashboards, DashIds, Dashboard)
  BY DEF Sound
<1>2. C.dashboards = D
  BY <1>1, WriteDashboards DEF ClearedExcept
<1>3. \A e \in DOMAIN s.dashboards :
        /\ s.dashboards[e] \in Dashboard
        /\ e # d => D[e] = [s.dashboards[e] EXCEPT !.is_default = FALSE]
  BY <1>1 DEF IsTable
<1>4. \A e \in DOMAIN s.dashboards : e # d =>
        /\ D[e] \in Dashboard
        /\ D[e].slug = s.dashboards[e].slug
        /\ D[e].is_default = FALSE
  BY <1>3 DEF Dashboard
<1>5. t = [s EXCEPT !.dashboards = T]
  BY DEF Put
<1>6. /\ IsDatabase(t)
      /\ t.dashboards = T
      /\ t.cards = s.cards
      /\ t.nextDash = s.nextDash
      /\ t.nextCard = s.nextCard
      /\ SameSettings(s, t)
  <2> HIDE DEF T, t
  <2> QED  BY <1>1, <1>5, WriteDashboards DEF SameSettings
<1>7. \A e \in DOMAIN s.dashboards : e # d =>
        /\ T[e] \in Dashboard
        /\ T[e].slug = s.dashboards[e].slug
        /\ T[e].is_default => s.dashboards[e].is_default /\ ~row.is_default
  <2> TAKE e \in DOMAIN s.dashboards
  <2> HAVE e # d
  <2>1. T[e] = rest.dashboards[e]
    OBVIOUS
  <2>2. CASE row.is_default
    BY <1>2, <1>4, <2>1, <2>2
  <2>3. CASE ~row.is_default
    BY <1>3, <2>1, <2>3
  <2> QED  BY <2>2, <2>3
<1>8. T[d] = row /\ DOMAIN T = DOMAIN s.dashboards \cup {d}
  OBVIOUS
<1>9. IsTable(T, DashIds, Dashboard)
  <2>1. \A e \in DOMAIN T : T[e] \in Dashboard
    BY <1>7, <1>8
  <2>2. T \in [DOMAIN T -> Dashboard]
    BY <2>1, <1>8
  <2> QED  BY <1>1, <1>8, <2>2 DEF IsTable
<1>10. \A a, b \in DOMAIN T : T[a].slug = T[b].slug => a = b
  <2>1. \A a \in DOMAIN s.dashboards : s.dashboards[a].slug = row.slug => a = d
    BY DEF Owner
  <2>2. \A a, b \in DOMAIN s.dashboards : s.dashboards[a].slug = s.dashboards[b].slug => a = b
    BY DEF Sound
  <2> HIDE DEF T
  <2> QED  BY <1>7, <1>8, <2>1, <2>2
<1>11. AtMostOneDefault(s) => \A a, b \in DOMAIN T : T[a].is_default /\ T[b].is_default => a = b
  <2>1. AtMostOneDefault(s) =>
          \A a, b \in DOMAIN s.dashboards :
            s.dashboards[a].is_default /\ s.dashboards[b].is_default => a = b
    BY DEF AtMostOneDefault, Defaults
  <2> HIDE DEF T
  <2> QED  BY <1>7, <1>8, <2>1
<1>12. AtMostOneDefault(s) => AtMostOneDefault(t)
  <2> HIDE DEF T, t
  <2> QED  BY <1>6, <1>11 DEF AtMostOneDefault, Defaults
<1> HIDE DEF T
<1> QED  BY <1>6, <1>8, <1>9, <1>10, <1>12

(* UPDATE of an existing dashboard, and INSERT of a new one.               *)
LEMMA PutSound ==
  ASSUME NEW s, Sound(s), NEW d \in DOMAIN s.dashboards, NEW row \in Dashboard,
         Owner(s, row.slug) \subseteq {d}
  PROVE  LET t == Put(s, d, row)
         IN  /\ Sound(t)
             /\ DOMAIN t.dashboards = DOMAIN s.dashboards
             /\ AtMostOneDefault(s) => AtMostOneDefault(t)
             /\ t.cards = s.cards
             /\ t.nextCard = s.nextCard
             /\ SameSettings(s, t)
<1> DEFINE t == Put(s, d, row)
<1>1. d \in DashIds
  BY DEF Sound, IsTable
<1>2. /\ IsDatabase(t)
      /\ DOMAIN t.dashboards = DOMAIN s.dashboards \cup {d}
      /\ IsTable(t.dashboards, DashIds, Dashboard)
      /\ \A a, b \in DOMAIN t.dashboards : t.dashboards[a].slug = t.dashboards[b].slug => a = b
      /\ AtMostOneDefault(s) => AtMostOneDefault(t)
      /\ t.cards = s.cards
      /\ t.nextDash = s.nextDash
      /\ t.nextCard = s.nextCard
      /\ SameSettings(s, t)
  BY <1>1, PutFacts
<1>3. DOMAIN t.dashboards = DOMAIN s.dashboards
  BY <1>2
<1>4. Sound(t)
  <2> HIDE DEF t
  <2> QED  BY <1>2, <1>3 DEF Sound, SameSettings
<1> QED  BY <1>2, <1>3, <1>4

LEMMA InsertedSound ==
  ASSUME NEW s, Sound(s), NEW row \in Dashboard, Owner(s, row.slug) = {}, s.nextDash \in DashIds,
         MaxDash \in Nat
  PROVE  LET t == Inserted(s, row)
         IN  /\ Sound(t)
             /\ DOMAIN t.dashboards = DOMAIN s.dashboards \cup {s.nextDash}
             /\ t.nextDash = s.nextDash + 1
             /\ AtMostOneDefault(s) => AtMostOneDefault(t)
             /\ t.dashboards[s.nextDash] = row
             /\ t.cards = s.cards
             /\ t.nextCard = s.nextCard
             /\ SameSettings(s, t)
<1> DEFINE p == Put(s, s.nextDash, row)
           t == Inserted(s, row)
<1>1. /\ IsDatabase(p)
      /\ DOMAIN p.dashboards = DOMAIN s.dashboards \cup {s.nextDash}
      /\ p.dashboards[s.nextDash] = row
      /\ IsTable(p.dashboards, DashIds, Dashboard)
      /\ \A a, b \in DOMAIN p.dashboards : p.dashboards[a].slug = p.dashboards[b].slug => a = b
      /\ AtMostOneDefault(s) => AtMostOneDefault(p)
      /\ p.cards = s.cards
      /\ p.nextDash = s.nextDash
      /\ p.nextCard = s.nextCard
      /\ SameSettings(s, p)
  BY PutFacts
<1>2. t = [p EXCEPT !.nextDash = s.nextDash + 1]
  BY DEF Inserted
<1> HIDE DEF p, t
<1>3. /\ IsDatabase(t)
      /\ t.dashboards = p.dashboards
      /\ t.cards = p.cards
      /\ t.nextDash = s.nextDash + 1
      /\ t.nextCard = p.nextCard
      /\ SameSettings(s, t)
  BY <1>1, <1>2 DEF IsDatabase, SameSettings
<1>4. /\ s.nextDash \in 1..MaxDash
      /\ \A d \in DOMAIN s.dashboards : d < s.nextDash /\ d \in 1..MaxDash
  BY DEF Sound, IsTable, DashIds
<1>5. /\ t.nextDash \in 1..MaxDash + 1
      /\ \A d \in DOMAIN t.dashboards : d < t.nextDash
  BY <1>1, <1>3, <1>4
<1>6. \A c \in DOMAIN t.cards : t.cards[c].dash \in DOMAIN t.dashboards
  BY <1>1, <1>3 DEF Sound
<1>7. Sound(t)
  BY <1>1, <1>3, <1>5, <1>6 DEF Sound, SameSettings
<1>8. AtMostOneDefault(s) => AtMostOneDefault(t)
  BY <1>1, <1>3 DEF AtMostOneDefault, Defaults
<1> QED  BY <1>1, <1>3, <1>7, <1>8 DEF p, t

(* DELETE FROM tiles.                                                      *)
LEMMA DropCardsSound ==
  ASSUME NEW s, Sound(s), NEW C
  PROVE  LET t == DropCards(s, C)
         IN  /\ Sound(t)
             /\ t.dashboards = s.dashboards
             /\ DOMAIN t.cards = DOMAIN s.cards \ C
             /\ \A c \in DOMAIN t.cards : t.cards[c] = s.cards[c]
             /\ t.nextDash = s.nextDash
             /\ t.nextCard = s.nextCard
             /\ SameSettings(s, t)
<1> DEFINE K == [c \in DOMAIN s.cards \ C |-> s.cards[c]]
           t == DropCards(s, C)
<1>1. t = [s EXCEPT !.cards = K]
  BY DEF DropCards
<1>2. DOMAIN K = DOMAIN s.cards \ C /\ \A c \in DOMAIN K : K[c] = s.cards[c]
  OBVIOUS
<1>3. IsTable(K, CardIds, Card)
  BY DEF Sound, IsTable
<1> HIDE DEF K, t
<1>4. /\ IsDatabase(t)
      /\ t.dashboards = s.dashboards
      /\ t.cards = K
      /\ t.nextDash = s.nextDash
      /\ t.nextCard = s.nextCard
      /\ SameSettings(s, t)
  BY <1>1, WriteCards DEF Sound, SameSettings
<1>5. Sound(t)
  BY <1>2, <1>3, <1>4 DEF Sound, SameSettings
<1> QED  BY <1>2, <1>4, <1>5 DEF t

(* DELETE FROM dashboards, with the cascade.                               *)
LEMMA DroppedSound ==
  ASSUME NEW s, Sound(s), NEW D
  PROVE  LET t == Dropped(s, D)
         IN  /\ Sound(t)
             /\ DOMAIN t.dashboards = DOMAIN s.dashboards \ D
             /\ AtMostOneDefault(s) => AtMostOneDefault(t)
             /\ t.nextDash = s.nextDash
             /\ t.nextCard = s.nextCard
             /\ SameSettings(s, t)
<1> DEFINE C == UNION {CardsOf(s, d) : d \in D}
           u == DropCards(s, C)
           T == [d \in DOMAIN s.dashboards \ D |-> s.dashboards[d]]
           t == Dropped(s, D)
<1>1. /\ Sound(u)
      /\ u.dashboards = s.dashboards
      /\ DOMAIN u.cards = DOMAIN s.cards \ C
      /\ \A c \in DOMAIN u.cards : u.cards[c] = s.cards[c]
      /\ u.nextDash = s.nextDash
      /\ u.nextCard = s.nextCard
      /\ SameSettings(s, u)
  <2> HIDE DEF C
  <2> QED  BY DropCardsSound
<1>2. t = [u EXCEPT !.dashboards = T]
  BY DEF Dropped
<1>3. DOMAIN T = DOMAIN s.dashboards \ D /\ \A d \in DOMAIN T : T[d] = s.dashboards[d]
  OBVIOUS
<1>4. IsTable(T, DashIds, Dashboard)
  BY DEF Sound, IsTable
<1>5. \A c \in DOMAIN u.cards : u.cards[c].dash \in DOMAIN T
  <2> TAKE c \in DOMAIN u.cards
  <2>1. c \in DOMAIN s.cards /\ c \notin C /\ u.cards[c] = s.cards[c]
    BY <1>1
  <2> DEFINE e == s.cards[c].dash
  <2>2. e \in DOMAIN s.dashboards
    BY <2>1 DEF Sound
  <2>3. e \notin D
    <3>1. c \in CardsOf(s, e)
      BY <2>1 DEF CardsOf
    <3> HIDE DEF e
    <3> QED  BY <2>1, <3>1
  <2> QED  BY <1>3, <2>1, <2>2, <2>3
<1> HIDE DEF T, t, u
<1>6. /\ IsDatabase(t)
      /\ t.dashboards = T
      /\ t.cards = u.cards
      /\ t.nextDash = s.nextDash
      /\ t.nextCard = s.nextCard
      /\ SameSettings(s, t)
  BY <1>1, <1>2, WriteDashboards DEF Sound, SameSettings
<1>7. Sound(t)
  BY <1>1, <1>3, <1>4, <1>5, <1>6 DEF Sound, SameSettings
<1>8. AtMostOneDefault(s) => AtMostOneDefault(t)
  BY <1>3, <1>6 DEF AtMostOneDefault, Defaults
<1> QED  BY <1>3, <1>6, <1>7, <1>8 DEF t

(* UPDATE tiles: other rows for cards that exist.                          *)
LEMMA CardsRewritten ==
  ASSUME NEW s, Sound(s), NEW K, DOMAIN K = DOMAIN s.cards, IsTable(K, CardIds, Card),
         \A c \in DOMAIN K : K[c].dash \in DOMAIN s.dashboards
  PROVE  LET t == [s EXCEPT !.cards = K]
         IN  /\ Sound(t)
             /\ t.dashboards = s.dashboards
             /\ SameSettings(s, t)
<1> DEFINE t == [s EXCEPT !.cards = K]
<1>1. /\ IsDatabase(t)
      /\ t.dashboards = s.dashboards
      /\ t.cards = K
      /\ t.nextDash = s.nextDash
      /\ t.nextCard = s.nextCard
      /\ SameSettings(s, t)
  BY WriteCards DEF Sound, SameSettings
<1> HIDE DEF t
<1>2. Sound(t)
  BY <1>1 DEF Sound, SameSettings
<1> QED  BY <1>1, <1>2 DEF t

LEMMA SetCardSound ==
  ASSUME NEW s, Sound(s), NEW c \in DOMAIN s.cards, NEW card \in Card,
         card.dash \in DOMAIN s.dashboards
  PROVE  LET t == SetCard(s, c, card)
         IN  /\ Sound(t)
             /\ t.dashboards = s.dashboards
             /\ SameSettings(s, t)
<1> DEFINE K == [k \in DOMAIN s.cards \cup {c} |-> IF k = c THEN card ELSE s.cards[k]]
<1>1. DOMAIN K = DOMAIN s.cards /\ IsTable(K, CardIds, Card)
  BY DEF Sound, IsTable
<1>2. \A k \in DOMAIN K : K[k].dash \in DOMAIN s.dashboards
  BY DEF Sound
<1>3. SetCard(s, c, card) = [s EXCEPT !.cards = K]
  BY DEF SetCard
<1> HIDE DEF K
<1> QED  BY <1>1, <1>2, <1>3, CardsRewritten

(* INSERT INTO tiles: cards with new ids, all on dashboards that exist.    *)
CardsTo(s, K, m) == [[s EXCEPT !.cards = K] EXCEPT !.nextCard = m]

LEMMA CardsInserted ==
  ASSUME NEW s, Sound(s), NEW K, NEW m \in 1..MaxCards + 1, MaxCards \in Nat, s.nextCard <= m,
         DOMAIN K = DOMAIN s.cards \cup (s.nextCard .. m - 1),
         K \in [DOMAIN K -> Card],
         \A c \in DOMAIN K : K[c].dash \in DOMAIN s.dashboards
  PROVE  LET t == CardsTo(s, K, m)
         IN  /\ Sound(t)
             /\ t.dashboards = s.dashboards
             /\ t.cards = K
             /\ t.nextDash = s.nextDash
             /\ t.nextCard = m
             /\ SameSettings(s, t)
<1> DEFINE u == [s EXCEPT !.cards = K]
           t == CardsTo(s, K, m)
<1>0. /\ IsDatabase(u)
      /\ u.dashboards = s.dashboards
      /\ u.cards = K
      /\ u.nextDash = s.nextDash
      /\ SameSettings(s, u)
  BY WriteCards DEF Sound, SameSettings
<1>1. /\ IsDatabase(t)
      /\ t.dashboards = s.dashboards
      /\ t.cards = K
      /\ t.nextDash = s.nextDash
      /\ t.nextCard = m
      /\ SameSettings(s, t)
  <2>1. t = [u EXCEPT !.nextCard = m]
    BY DEF CardsTo
  <2> HIDE DEF u, t
  <2> QED  BY <1>0, <2>1 DEF IsDatabase, SameSettings
<1>2. /\ s.nextCard \in 1..MaxCards + 1
      /\ \A c \in DOMAIN s.cards : c < s.nextCard /\ c \in 1..MaxCards
  BY DEF Sound, IsTable, CardIds
<1>3. \A c \in DOMAIN K : c < m /\ c \in 1..MaxCards
  BY <1>2
<1>4. IsTable(K, CardIds, Card)
  BY <1>3 DEF IsTable, CardIds
<1> HIDE DEF t, u
<1>5. Sound(t)
  BY <1>1, <1>3, <1>4 DEF Sound, SameSettings
<1> QED  BY <1>1, <1>5 DEF t, u

LEMMA NewCardSound ==
  ASSUME NEW s, Sound(s), s.nextCard \in CardIds, NEW card \in Card,
         card.dash \in DOMAIN s.dashboards, MaxCards \in Nat
  PROVE  LET t == [SetCard(s, s.nextCard, card) EXCEPT !.nextCard = s.nextCard + 1]
         IN  /\ Sound(t)
             /\ t.dashboards = s.dashboards
             /\ SameSettings(s, t)
<1> DEFINE c == s.nextCard
           K == [k \in DOMAIN s.cards \cup {c} |-> IF k = c THEN card ELSE s.cards[k]]
           t == [SetCard(s, c, card) EXCEPT !.nextCard = c + 1]
<1>1. t = CardsTo(s, K, c + 1)
  BY DEF SetCard, CardsTo
<1>2. c \in 1..MaxCards /\ c + 1 \in 1..MaxCards + 1 /\ c <= c + 1
  BY DEF CardIds
<1>3. DOMAIN K = DOMAIN s.cards \cup (c .. (c + 1) - 1)
  <2>1. c .. (c + 1) - 1 = {c}
    BY <1>2
  <2> QED  BY <2>1
<1>4. \A k \in DOMAIN K : K[k] \in Card /\ K[k].dash \in DOMAIN s.dashboards
  BY DEF Sound, IsTable
<1>5. K \in [DOMAIN K -> Card]
  BY <1>4
<1>6. /\ Sound(CardsTo(s, K, c + 1))
      /\ CardsTo(s, K, c + 1).dashboards = s.dashboards
      /\ SameSettings(s, CardsTo(s, K, c + 1))
  <2> DEFINE m == c + 1
  <2> HIDE DEF K, m
  <2>1. m \in 1..MaxCards + 1 /\ s.nextCard <= m /\ DOMAIN K = DOMAIN s.cards \cup (s.nextCard .. m - 1)
    BY <1>2, <1>3 DEF m
  <2> QED  BY <1>4, <1>5, <2>1, CardsInserted DEF m
<1> QED  BY <1>1, <1>6

(* _insert_tiles.                                                          *)
LEMMA FilledSound ==
  ASSUME NEW s, Sound(s), NEW d \in DOMAIN s.dashboards, NEW tiles \in Seq(Tile), NEW offset \in Nat,
         \A i \in 1..Len(tiles) : tiles[i].y + offset >= 1,
         s.nextCard + Len(tiles) - 1 <= MaxCards, MaxCards \in Nat
  PROVE  LET t == Filled(s, d, tiles, offset)
         IN  /\ Sound(t)
             /\ t.dashboards = s.dashboards
             /\ DOMAIN t.cards = DOMAIN s.cards \cup (s.nextCard .. s.nextCard + Len(tiles) - 1)
             /\ \A c \in DOMAIN s.cards : t.cards[c] = s.cards[c]
             /\ t.nextDash = s.nextDash
             /\ t.nextCard = s.nextCard + Len(tiles)
             /\ SameSettings(s, t)
<1> DEFINE n == Len(tiles)
           NewIds == s.nextCard .. s.nextCard + n - 1
           Card1(i) == [dash |-> d, row |-> tiles[i].y + offset, height |-> tiles[i].height]
           K == [c \in DOMAIN s.cards \cup NewIds |->
                   IF c \in DOMAIN s.cards THEN s.cards[c]
                   ELSE LET t == tiles[c - s.nextCard + 1]
                        IN  [dash |-> d, row |-> t.y + offset, height |-> t.height]]
           t == Filled(s, d, tiles, offset)
<1>1. t = CardsTo(s, K, s.nextCard + n)
  BY DEF Filled, CardsTo
<1>2. n \in Nat /\ \A i \in 1..n : tiles[i] \in Tile
  OBVIOUS
<1>3. /\ s.nextCard \in Nat /\ s.nextCard >= 1
      /\ \A c \in DOMAIN s.cards : s.cards[c] \in Card /\ s.cards[c].dash \in DOMAIN s.dashboards
      /\ d \in DashIds
  BY DEF Sound, IsTable
<1>4. \A i \in 1..n : Card1(i) \in Card
  <2> TAKE i \in 1..n
  <2>1. tiles[i].y \in Nat /\ tiles[i].height \in Nat \ {0}
    BY <1>2 DEF Tile
  <2>2. tiles[i].y + offset \in Nat \ {0}
    BY <2>1
  <2> QED  BY <1>3, <2>1, <2>2 DEF Card
<1>5. \A c \in NewIds : c - s.nextCard + 1 \in 1..n
  BY <1>2, <1>3
<1>6. \A c \in DOMAIN K : K[c] \in Card /\ K[c].dash \in DOMAIN s.dashboards
  <2> TAKE c \in DOMAIN K
  <2>1. CASE c \in DOMAIN s.cards
    BY <1>3, <2>1
  <2>2. CASE c \notin DOMAIN s.cards
    <3>1. K[c] = Card1(c - s.nextCard + 1)
      BY <2>2
    <3>2. c - s.nextCard + 1 \in 1..n
      BY <1>5, <2>2
    <3>3. Card1(c - s.nextCard + 1).dash = d
      OBVIOUS
    <3> HIDE DEF K, Card1
    <3> QED  BY <1>4, <3>1, <3>2, <3>3
  <2> QED  BY <2>1, <2>2
<1>7. /\ DOMAIN K = DOMAIN s.cards \cup NewIds
      /\ K \in [DOMAIN K -> Card]
      /\ \A c \in DOMAIN s.cards : K[c] = s.cards[c]
  BY <1>6
<1> DEFINE m == s.nextCard + n
<1>8. m \in 1..MaxCards + 1 /\ s.nextCard <= m /\ NewIds = s.nextCard .. m - 1
  BY <1>2, <1>3
<1> HIDE DEF K, t, m, NewIds
<1>9. /\ Sound(t)
      /\ t.dashboards = s.dashboards
      /\ t.cards = K
      /\ t.nextDash = s.nextDash
      /\ t.nextCard = m
      /\ SameSettings(s, t)
  <2>1. t = CardsTo(s, K, m)
    BY <1>1 DEF m
  <2> QED  BY <1>6, <1>7, <1>8, <2>1, CardsInserted
<1> QED  BY <1>7, <1>9 DEF t, m, NewIds

(* MAX(row_pos + height - 1) is a row, and no card reaches below it.       *)
LEMMA BottomIsLowest ==
  ASSUME NEW s, Sound(s), NEW d, MaxCards \in Nat
  PROVE  /\ Bottom(s, d) \in Nat
         /\ \A c \in CardsOf(s, d) : s.cards[c].row + s.cards[c].height - 1 <= Bottom(s, d)
<1> DEFINE Ends == {s.cards[c].row + s.cards[c].height - 1 : c \in CardsOf(s, d)}
           T == {0} \cup Ends
           f == [c \in 1..MaxCards |->
                   IF c \in CardsOf(s, d) THEN s.cards[c].row + s.cards[c].height - 1 ELSE 0]
<1>1. \A c \in CardsOf(s, d) :
        c \in 1..MaxCards /\ s.cards[c].row + s.cards[c].height - 1 \in Nat
  <2> TAKE c \in CardsOf(s, d)
  <2>1. c \in 1..MaxCards /\ s.cards[c] \in Card
    BY DEF CardsOf, Sound, IsTable, CardIds
  <2>2. s.cards[c].row \in Nat \ {0} /\ s.cards[c].height \in Nat
    BY <2>1 DEF Card
  <2> QED  BY <2>1, <2>2
<1>2. \A i \in 1..MaxCards : f[i] \in Nat
  BY <1>1
<1>3. PICK b \in Nat : \A i \in 1..MaxCards : f[i] <= b
  <2> HIDE DEF f
  <2> QED  BY <1>2, TableBounded
<1>4. \A x \in T : x \in Nat /\ x <= b
  <2> TAKE x \in T
  <2>1. CASE x \in Ends
    <3>1. PICK c \in CardsOf(s, d) : x = s.cards[c].row + s.cards[c].height - 1
      BY <2>1
    <3>2. x = f[c] /\ c \in 1..MaxCards
      BY <1>1, <3>1
    <3> HIDE DEF f
    <3> QED  BY <1>2, <1>3, <3>2
  <2>2. CASE x = 0
    BY <2>2
  <2> QED  BY <2>1, <2>2
<1>5. T \subseteq Nat /\ T # {}
  BY <1>4
<1>6. Max(T) \in T /\ \A x \in T : Max(T) >= x
  <2> HIDE DEF T
  <2> QED  BY <1>4, <1>5, MaxOfBounded
<1>7. Bottom(s, d) = Max(T)
  BY DEF Bottom
<1>8. \A c \in CardsOf(s, d) : s.cards[c].row + s.cards[c].height - 1 \in T
  OBVIOUS
<1> HIDE DEF T
<1> QED  BY <1>1, <1>5, <1>6, <1>7, <1>8

-----------------------------------------------------------------------------
(* Whole dashboards.                                                       *)

(* A dashboard whose cards lie in the grid, as Clean makes them.           *)
Placeable(layout) ==
  /\ layout \in Layout
  /\ \A i \in 1..Len(layout.tiles) : layout.tiles[i].y >= 1

LEMMA ClampedSize ==
  ASSUME NEW k \in Int
  PROVE  Clamp(1, 24, k) \in 1..24
BY DEF Clamp

LEMMA CleanIsPlaceable ==
  ASSUME NEW layout \in Document
  PROVE  Placeable(Clean(layout)) /\ Clean(layout).rows <= 24
<1> DEFINE n == Len(layout.tiles)
           R == Clamp(1, 24, layout.rows)
           Y(i) == IF layout.tiles[i].y < 1 THEN 1 ELSE layout.tiles[i].y
           H(i) == Clamp(1, 24, layout.tiles[i].height)
           T == [i \in 1..n |-> [y |-> Y(i), height |-> H(i)]]
           Sent == [y : Int, height : Int]
<1>1. /\ layout.tiles \in Seq(Sent)
      /\ layout.rows \in Int
      /\ layout.slug \in Slugs
      /\ layout.is_default \in BOOLEAN
  BY DEF Document
<1>2. n \in Nat /\ \A i \in 1..n : layout.tiles[i] \in Sent
  <2> HIDE DEF Sent
  <2> QED  BY <1>1
<1>3. \A i \in 1..n : T[i] \in Tile /\ T[i].y >= 1
  <2> TAKE i \in 1..n
  <2>1. layout.tiles[i].y \in Int /\ layout.tiles[i].height \in Int
    BY <1>2
  <2>2. Y(i) \in Nat /\ Y(i) >= 1
    BY <2>1
  <2>3. H(i) \in 1..24
    BY <2>1, ClampedSize
  <2> HIDE DEF Y, H
  <2>4. H(i) \in Nat \ {0}
    BY <2>3
  <2>5. T[i] = [y |-> Y(i), height |-> H(i)]
    OBVIOUS
  <2> HIDE DEF T
  <2> QED  BY <2>2, <2>4, <2>5 DEF Tile
<1>4. T \in Seq(Tile) /\ Len(T) = n
  <2>1. T \in [1..n -> Tile]
    BY <1>3
  <2>2. DOMAIN T = 1..n
    OBVIOUS
  <2> HIDE DEF T
  <2> QED  BY <1>2, <2>1, <2>2
<1>5. Clean(layout) = [slug |-> Slugify[layout.slug], is_default |-> layout.is_default, rows |-> R, tiles |-> T]
  BY DEF Clean
<1>6. R \in 1..24 /\ Slugify[layout.slug] \in Slugs
  BY <1>1, ClampedSize, SlugsAssumption
<1> HIDE DEF R, T
<1> QED  BY <1>1, <1>3, <1>4, <1>5, <1>6 DEF Placeable, Layout

LEMMA PlacedTiles ==
  ASSUME NEW layout, Placeable(layout)
  PROVE  /\ layout.tiles \in Seq(Tile)
         /\ \A offset \in Nat : \A i \in 1..Len(layout.tiles) : layout.tiles[i].y + offset >= 1
<1>1. layout.tiles \in Seq(Tile)
  BY DEF Placeable, Layout
<1>2. \A i \in 1..Len(layout.tiles) : layout.tiles[i].y \in Nat /\ layout.tiles[i].y >= 1
  <2> TAKE i \in 1..Len(layout.tiles)
  <2>1. layout.tiles[i] \in Tile
    BY <1>1
  <2> QED  BY <2>1 DEF Tile, Placeable
<1> QED  BY <1>1, <1>2

LEMMA AddedSound ==
  ASSUME NEW s, Sound(s), NEW slug \in Slugs, Owner(s, slug) = {}, NEW layout, Placeable(layout),
         s.nextDash \in DashIds, s.nextCard + Len(layout.tiles) - 1 <= MaxCards,
         MaxDash \in Nat, MaxCards \in Nat
  PROVE  LET t == Added(s, slug, layout)
         IN  /\ Sound(t)
             /\ DOMAIN t.dashboards = DOMAIN s.dashboards \cup {s.nextDash}
             /\ t.dashboards[s.nextDash].slug = slug
             /\ AtMostOneDefault(s) => AtMostOneDefault(t)
             /\ t.nextDash = s.nextDash + 1
             /\ t.nextCard = s.nextCard + Len(layout.tiles)
             /\ SameSettings(s, t)
<1> DEFINE row == [slug |-> slug, is_default |-> layout.is_default, rows |-> layout.rows]
           u == Inserted(s, row)
           t == Added(s, slug, layout)
<1>1. row \in Dashboard /\ row.slug = slug
  BY DEF Placeable, Layout, Dashboard
<1>2. /\ Sound(u)
      /\ DOMAIN u.dashboards = DOMAIN s.dashboards \cup {s.nextDash}
      /\ u.nextDash = s.nextDash + 1
      /\ AtMostOneDefault(s) => AtMostOneDefault(u)
      /\ u.dashboards[s.nextDash] = row
      /\ u.nextCard = s.nextCard
      /\ SameSettings(s, u)
  <2> HIDE DEF row
  <2> QED  BY <1>1, InsertedSound
<1>3. t = Filled(u, s.nextDash, layout.tiles, 0)
  BY DEF Added
<1>4. /\ layout.tiles \in Seq(Tile)
      /\ \A i \in 1..Len(layout.tiles) : layout.tiles[i].y + 0 >= 1
  BY PlacedTiles
<1> HIDE DEF row, u, t
<1>5. /\ Sound(t)
      /\ t.dashboards = u.dashboards
      /\ t.nextDash = u.nextDash
      /\ t.nextCard = u.nextCard + Len(layout.tiles)
      /\ SameSettings(u, t)
  BY <1>2, <1>3, <1>4, FilledSound
<1>6. AtMostOneDefault(u) => AtMostOneDefault(t)
  BY <1>5 DEF AtMostOneDefault, Defaults
<1> QED  BY <1>1, <1>2, <1>5, <1>6 DEF SameSettings, t

(* A template stores is_default as it has it: where no other dashboard is  *)
(* the default, as any new dashboard is added.                             *)
LEMMA TemplateAdds ==
  ASSUME NEW s, IsDatabase(s), s.nextDash \notin DOMAIN s.dashboards, NEW layout,
         layout.is_default => \A e \in DOMAIN s.dashboards :
                                [s.dashboards[e] EXCEPT !.is_default = FALSE] = s.dashboards[e]
  PROVE  FromTemplate(s, layout) = Added(s, layout.slug, layout)
<1> DEFINE n == s.nextDash
           row == [slug |-> layout.slug, is_default |-> layout.is_default, rows |-> layout.rows]
           rest == IF row.is_default THEN ClearedExcept(s, n) ELSE s
           D == [e \in DOMAIN s.dashboards |->
                   IF e = n THEN s.dashboards[e]
                   ELSE [s.dashboards[e] EXCEPT !.is_default = FALSE]]
<1>1. ClearedExcept(s, n).dashboards = D
  BY WriteDashboards DEF ClearedExcept
<1>2. \A e \in DOMAIN s.dashboards : rest.dashboards[e] = s.dashboards[e]
  BY <1>1
<1> HIDE DEF rest
<1>3. [e \in DOMAIN s.dashboards \cup {n} |-> IF e = n THEN row ELSE rest.dashboards[e]]
        = [e \in DOMAIN s.dashboards \cup {n} |-> IF e = n THEN row ELSE s.dashboards[e]]
  BY <1>2
<1>4. Put(s, n, row) = Wrote(s, n, row)
  BY <1>3 DEF Put, Wrote, rest
<1> HIDE DEF row
<1>5. FromTemplate(s, layout) = Filled([Wrote(s, n, row) EXCEPT !.nextDash = n + 1], n, layout.tiles, 0)
  BY DEF FromTemplate, row
<1>6. Added(s, layout.slug, layout) = Filled([Put(s, n, row) EXCEPT !.nextDash = n + 1], n, layout.tiles, 0)
  BY DEF Added, Inserted, row
<1> QED  BY <1>4, <1>5, <1>6

\* into a database without dashboards
LEMMA InstalledAdds ==
  ASSUME NEW s, IsDatabase(s), s.nextDash \in Nat, NEW template \in Templates
  PROVE  LET bare  == Dropped(s, DOMAIN s.dashboards)
             first == Added(bare, template[1].slug, template[1])
         IN  Installed(s, template) =
               IF Len(template) = 1 THEN first
               ELSE Added(first, template[2].slug, template[2])
<1> DEFINE bare == Dropped(s, DOMAIN s.dashboards)
           n == s.nextDash
           C == UNION {CardsOf(s, d) : d \in DOMAIN s.dashboards}
           none == [d \in DOMAIN s.dashboards \ DOMAIN s.dashboards |-> s.dashboards[d]]
           u == DropCards(s, C)
<1>1. /\ template \in Seq(Layout)
      /\ Len(template) \in 1..2
      /\ Len(template) = 2 => ~(template[1].is_default /\ template[2].is_default)
  BY InputsAssumption
<1>2. IsDatabase(u) /\ u.nextDash = n
  BY WriteCards DEF DropCards
<1>3. bare = [u EXCEPT !.dashboards = none]
  BY DEF Dropped
<1> HIDE DEF u
<1>4. IsDatabase(bare) /\ bare.dashboards = none /\ bare.nextDash = n
  <2> HIDE DEF bare, none
  <2> QED  BY <1>2, <1>3, WriteDashboards
<1>5. DOMAIN bare.dashboards = {}
  BY <1>4
<1> HIDE DEF bare, none
<1> DEFINE x == template[1]
           y == template[2]
           first == Added(bare, x.slug, x)
<1>6. FromTemplate(bare, x) = first
  <2> HIDE DEF x
  <2>1. bare.nextDash \notin DOMAIN bare.dashboards
    BY <1>5
  <2>2. \A e \in DOMAIN bare.dashboards :
          [bare.dashboards[e] EXCEPT !.is_default = FALSE] = bare.dashboards[e]
    BY <1>5
  <2> QED  BY <1>4, <2>1, <2>2, TemplateAdds
<1>7. Installed(s, template) =
        IF Len(template) = 1 THEN first ELSE FromTemplate(first, y)
  BY <1>6 DEF Installed, bare
<1>8. ASSUME Len(template) = 2
      PROVE  FromTemplate(first, y) = Added(first, y.slug, y)
  <2> DEFINE row == [slug |-> x.slug, is_default |-> x.is_default, rows |-> x.rows]
             T == [e \in DOMAIN bare.dashboards \cup {n} |-> IF e = n THEN row ELSE bare.dashboards[e]]
             v == [bare EXCEPT !.dashboards = T]
             w == [v EXCEPT !.nextDash = n + 1]
  <2>1. x \in Layout /\ ~(x.is_default /\ y.is_default)
    BY <1>1, <1>8
  <2>2. x.is_default \in BOOLEAN
    BY <2>1 DEF Layout
  <2>3. first = Filled(w, n, x.tiles, 0)
    <3>1. first = Filled([Wrote(bare, n, row) EXCEPT !.nextDash = n + 1], n, x.tiles, 0)
      BY <1>4, <1>6 DEF FromTemplate
    <3> QED  BY <3>1 DEF Wrote
  <2>4. DOMAIN T = {n} /\ T[n] = row
    BY <1>5
  <2>5. y.is_default => [row EXCEPT !.is_default = FALSE] = row
    <3>1. y.is_default => row.is_default = FALSE
      BY <2>1, <2>2
    <3> QED  BY <3>1
  <2> HIDE DEF x, row, T
  <2>6. IsDatabase(v) /\ v.dashboards = T
    BY <1>4, WriteDashboards
  <2> HIDE DEF v
  <2>7. IsDatabase(w) /\ w.dashboards = T /\ w.nextDash = n + 1
    BY <2>6 DEF IsDatabase
  <2> HIDE DEF w, first
  <2>8. IsDatabase(first) /\ first.dashboards = T /\ first.nextDash = n + 1
    <3>1. \E K, m : first = [[w EXCEPT !.cards = K] EXCEPT !.nextCard = m]
      BY <2>3 DEF Filled
    <3> QED  BY <2>7, <3>1 DEF IsDatabase
  <2>9. first.nextDash \notin DOMAIN first.dashboards
    BY <2>4, <2>8
  <2>10. y.is_default => \A e \in DOMAIN first.dashboards :
                           [first.dashboards[e] EXCEPT !.is_default = FALSE] = first.dashboards[e]
    BY <2>4, <2>5, <2>8
  <2> HIDE DEF y
  <2> QED  BY <2>8, <2>9, <2>10, TemplateAdds
<1> HIDE DEF first
<1>9. Installed(s, template) = IF Len(template) = 1 THEN first ELSE Added(first, y.slug, y)
  BY <1>1, <1>7, <1>8
<1> QED  BY <1>9 DEF first, bare

(* install_template leaves one or two dashboards, at most one the default. *)
LEMMA InstalledSound ==
  ASSUME NEW s, Sound(s), NEW template \in Templates, TemplateFits(s, template)
  PROVE  LET t == Installed(s, template)
         IN  /\ Sound(t)
             /\ DOMAIN t.dashboards # {}
             /\ AtMostOneDefault(t)
             /\ SameSettings(s, t)
<1> DEFINE bare == Dropped(s, DOMAIN s.dashboards)
           first == Added(bare, template[1].slug, template[1])
           second == Added(first, template[2].slug, template[2])
<1>1. MaxDash \in Nat /\ MaxCards \in Nat
  BY StoresAssumption
<1>2. /\ template \in Seq(Layout)
      /\ Len(template) \in 1..2
      /\ Len(template) = 2 => template[1].slug # template[2].slug
      /\ \A k \in 1..Len(template) : \A i \in 1..Len(template[k].tiles) : template[k].tiles[i].y >= 1
  BY InputsAssumption
<1>3. \A k \in 1..Len(template) :
        /\ Placeable(template[k])
        /\ template[k].slug \in Slugs
        /\ Len(template[k].tiles) \in Nat
  <2> TAKE k \in 1..Len(template)
  <2>1. template[k] \in Layout
    BY <1>2
  <2>2. template[k].slug \in Slugs /\ template[k].tiles \in Seq(Tile)
    BY <2>1 DEF Layout
  <2> QED  BY <1>2, <2>1, <2>2 DEF Placeable
<1>4. /\ Sound(bare)
      /\ DOMAIN bare.dashboards = {}
      /\ AtMostOneDefault(bare)
      /\ bare.nextDash = s.nextDash
      /\ bare.nextCard = s.nextCard
      /\ SameSettings(s, bare)
  BY DroppedSound DEF AtMostOneDefault, Defaults
<1>5. s.nextDash \in 1..MaxDash + 1 /\ s.nextCard \in 1..MaxCards + 1
  BY DEF Sound
<1>6. /\ s.nextDash \in DashIds
      /\ s.nextCard + Len(template[1].tiles) - 1 <= MaxCards
      /\ Len(template) = 2 =>
           /\ s.nextDash + 1 \in DashIds
           /\ s.nextCard + Len(template[1].tiles) + Len(template[2].tiles) - 1 <= MaxCards
  <2>1. CASE Len(template) = 1
    <3>1. /\ s.nextDash + 1 - 1 <= MaxDash
          /\ s.nextCard + Len(template[1].tiles) - 1 <= MaxCards
      BY <2>1 DEF TemplateFits
    <3> QED  BY <1>1, <1>5, <2>1, <3>1 DEF DashIds
  <2>2. CASE Len(template) = 2
    <3> DEFINE a == Len(template[1].tiles)
               b == Len(template[2].tiles)
               nd == s.nextDash
               nc == s.nextCard
    <3>1. a \in Nat /\ b \in Nat /\ nd \in 1..MaxDash + 1 /\ nc \in 1..MaxCards + 1
      BY <1>3, <1>5, <2>2
    <3>2. nd + Len(template) - 1 <= MaxDash
      BY DEF TemplateFits
    <3>3. nc + (a + b) - 1 <= MaxCards
      <4>1. Len(template) # 1
        BY <2>2
      <4> QED  BY <4>1 DEF TemplateFits
    <3>4. nd + 2 - 1 <= MaxDash
      <4> HIDE DEF nd
      <4> QED  BY <2>2, <3>2
    <3> HIDE DEF a, b, nd, nc
    <3>5. /\ nd \in 1..MaxDash /\ nd + 1 \in 1..MaxDash
          /\ nc + a - 1 <= MaxCards /\ nc + a + b - 1 <= MaxCards
      BY <1>1, <3>1, <3>3, <3>4
    <3> QED  BY <3>5 DEF a, b, nd, nc, DashIds
  <2> QED  BY <1>2, <2>1, <2>2
<1>7. \A slug \in Slugs : Owner(bare, slug) = {}
  BY <1>4 DEF Owner
<1> HIDE DEF bare
<1>8. /\ Sound(first)
      /\ DOMAIN first.dashboards = {s.nextDash}
      /\ first.dashboards[s.nextDash].slug = template[1].slug
      /\ AtMostOneDefault(first)
      /\ first.nextDash = s.nextDash + 1
      /\ first.nextCard = s.nextCard + Len(template[1].tiles)
      /\ SameSettings(s, first)
  <2>1. 1 \in 1..Len(template)
    BY <1>2
  <2> QED  BY <1>1, <1>3, <1>4, <1>6, <1>7, <2>1, AddedSound DEF SameSettings
<1> HIDE DEF first
<1>11. Installed(s, template) =
         LET b == Dropped(s, DOMAIN s.dashboards)
             f == Added(b, template[1].slug, template[1])
         IN  IF Len(template) = 1 THEN f ELSE Added(f, template[2].slug, template[2])
  <2>1. IsDatabase(s) /\ s.nextDash \in Nat
    BY <1>5 DEF Sound
  <2> QED  BY <2>1, InstalledAdds
<1>9. CASE Len(template) = 1
  <2>1. Installed(s, template) = first
    BY <1>9, <1>11 DEF first, bare
  <2> QED  BY <1>8, <2>1
<1>10. CASE Len(template) = 2
  <2>1. 2 \in 1..Len(template)
    BY <1>10
  <2>2. Owner(first, template[2].slug) = {}
    BY <1>2, <1>8, <1>10 DEF Owner
  <2>3. /\ first.nextDash \in DashIds
        /\ first.nextCard + Len(template[2].tiles) - 1 <= MaxCards
    BY <1>6, <1>8, <1>10
  <2>4. /\ Sound(second)
        /\ DOMAIN second.dashboards # {}
        /\ AtMostOneDefault(second)
        /\ SameSettings(s, second)
    BY <1>1, <1>3, <1>8, <2>1, <2>2, <2>3, AddedSound DEF SameSettings
  <2>5. Installed(s, template) = second
    BY <1>10, <1>11 DEF first, bare
  <2> QED  BY <2>4, <2>5
<1> QED  BY <1>2, <1>9, <1>10

(* The default that an import may have to choose.                          *)
LEMMA WithDefaultSound ==
  ASSUME NEW s, Sound(s), AtMostOneDefault(s), NEW t \in WithDefault(s)
  PROVE  /\ Sound(t)
         /\ AtMostOneDefault(t)
         /\ DOMAIN t.dashboards = DOMAIN s.dashboards
         /\ SameSettings(s, t)
<1>1. CASE t = s
  BY <1>1 DEF SameSettings
<1>2. CASE t # s
  <2>1. /\ Defaults(s) = {}
        /\ \E d \in DOMAIN s.dashboards : t = [s EXCEPT !.dashboards[d].is_default = TRUE]
    BY <1>2 DEF WithDefault
  <2>2. PICK d \in DOMAIN s.dashboards : t = [s EXCEPT !.dashboards[d].is_default = TRUE]
    BY <2>1
  <2> DEFINE row == [s.dashboards[d] EXCEPT !.is_default = TRUE]
             T == [s.dashboards EXCEPT ![d] = row]
  <2>3. t = [s EXCEPT !.dashboards = T]
    BY <2>2
  <2>4. /\ IsDatabase(s)
        /\ s.dashboards \in [DOMAIN s.dashboards -> Dashboard]
        /\ DOMAIN s.dashboards \subseteq DashIds
    BY DEF Sound, IsTable
  <2>5. row \in Dashboard /\ row.slug = s.dashboards[d].slug
    BY <2>4 DEF Dashboard
  <2>6. /\ DOMAIN T = DOMAIN s.dashboards
        /\ \A e \in DOMAIN T : T[e] = IF e = d THEN row ELSE s.dashboards[e]
    BY <2>4
  <2> HIDE DEF T, row
  <2>7. /\ IsDatabase(t)
        /\ t.dashboards = T
        /\ t.cards = s.cards
        /\ t.nextDash = s.nextDash
        /\ t.nextCard = s.nextCard
        /\ SameSettings(s, t)
    BY <2>3, <2>4, WriteDashboards DEF SameSettings
  <2>8. IsTable(T, DashIds, Dashboard)
    <3>1. T \in [DOMAIN s.dashboards -> Dashboard]
      BY <2>4, <2>5 DEF T
    <3> QED  BY <2>4, <2>6, <3>1 DEF IsTable
  <2>9. \A e \in DOMAIN T : T[e].slug = s.dashboards[e].slug
    BY <2>5, <2>6
  <2>10. \A e \in DOMAIN T : T[e].is_default => e = d
    BY <2>1, <2>6 DEF Defaults
  <2>11. Sound(t)
    BY <2>6, <2>7, <2>8, <2>9 DEF Sound, SameSettings
  <2>12. AtMostOneDefault(t)
    BY <2>7, <2>10 DEF AtMostOneDefault, Defaults
  <2> QED  BY <2>6, <2>7, <2>11, <2>12
<1> QED  BY <1>1, <1>2
-----------------------------------------------------------------------------
(* The settings are written without touching a table.                      *)
LEMMA SettingsSound ==
  ASSUME NEW s, Sound(s), NEW t, IsDatabase(t),
         t.dashboards = s.dashboards, t.cards = s.cards,
         t.nextDash = s.nextDash, t.nextCard = s.nextCard,
         t.history \in 0..MaxImports, t.complete \in BOOLEAN,
         t.password \in {"none", "default", "chosen"}
  PROVE  /\ Sound(t)
         /\ AtMostOneDefault(s) => AtMostOneDefault(t)
<1>1. Sound(t)
  BY DEF Sound
<1>2. AtMostOneDefault(s) => AtMostOneDefault(t)
  BY DEF AtMostOneDefault, Defaults
<1> QED  BY <1>1, <1>2

LEMMA PasswordWritten ==
  ASSUME NEW s, Sound(s), NEW x \in {"none", "default", "chosen"}
  PROVE  LET t == [s EXCEPT !.password = x]
         IN  /\ Sound(t)
             /\ AtMostOneDefault(s) => AtMostOneDefault(t)
             /\ t.dashboards = s.dashboards
             /\ t.complete = s.complete
<1> DEFINE t == [s EXCEPT !.password = x]
<1>1. /\ IsDatabase(t)
      /\ t.dashboards = s.dashboards /\ t.cards = s.cards
      /\ t.nextDash = s.nextDash /\ t.nextCard = s.nextCard
      /\ t.history = s.history /\ t.complete = s.complete /\ t.password = x
  BY DEF Sound, IsDatabase
<1> HIDE DEF t
<1>2. t.history \in 0..MaxImports /\ t.complete \in BOOLEAN
  BY <1>1 DEF Sound
<1>3. Sound(t) /\ (AtMostOneDefault(s) => AtMostOneDefault(t))
  BY <1>1, <1>2, SettingsSound
<1> QED  BY <1>1, <1>3 DEF t

LEMMA FlagWritten ==
  ASSUME NEW s, Sound(s), NEW x \in BOOLEAN
  PROVE  LET t == [s EXCEPT !.complete = x]
         IN  /\ Sound(t)
             /\ AtMostOneDefault(s) => AtMostOneDefault(t)
             /\ t.dashboards = s.dashboards
             /\ t.complete = x
<1> DEFINE t == [s EXCEPT !.complete = x]
<1>1. /\ IsDatabase(t)
      /\ t.dashboards = s.dashboards /\ t.cards = s.cards
      /\ t.nextDash = s.nextDash /\ t.nextCard = s.nextCard
      /\ t.history = s.history /\ t.complete = x /\ t.password = s.password
  BY DEF Sound, IsDatabase
<1> HIDE DEF t
<1>2. t.history \in 0..MaxImports /\ t.password \in {"none", "default", "chosen"}
  BY <1>1 DEF Sound
<1>3. Sound(t) /\ (AtMostOneDefault(s) => AtMostOneDefault(t))
  BY <1>1, <1>2, SettingsSound
<1> QED  BY <1>1, <1>3 DEF t

LEMMA HistoryWritten ==
  ASSUME NEW s, Sound(s), s.history < MaxImports, MaxImports \in Nat
  PROVE  LET t == [s EXCEPT !.history = s.history + 1]
         IN  /\ Sound(t)
             /\ AtMostOneDefault(s) => AtMostOneDefault(t)
             /\ t.dashboards = s.dashboards
             /\ t.complete = s.complete
<1> DEFINE t == [s EXCEPT !.history = s.history + 1]
<1>1. /\ IsDatabase(t)
      /\ t.dashboards = s.dashboards /\ t.cards = s.cards
      /\ t.nextDash = s.nextDash /\ t.nextCard = s.nextCard
      /\ t.history = s.history + 1 /\ t.complete = s.complete /\ t.password = s.password
  BY DEF Sound, IsDatabase
<1> HIDE DEF t
<1>2. /\ t.history \in 0..MaxImports
      /\ t.complete \in BOOLEAN
      /\ t.password \in {"none", "default", "chosen"}
  BY <1>1 DEF Sound
<1>3. Sound(t) /\ (AtMostOneDefault(s) => AtMostOneDefault(t))
  BY <1>1, <1>2, SettingsSound
<1> QED  BY <1>1, <1>3 DEF t

-----------------------------------------------------------------------------
(* The inductive invariant.  What an import has written so far is as sound *)
(* as the database it began with; a server that answers has marked a       *)
(* database with dashboards as set up; and only such a server has a        *)
(* transaction.                                                            *)

Draft(s) ==
  /\ AtMostOneDefault(s)
  /\ DOMAIN s.dashboards # {}
  /\ s.complete
  /\ s.history < MaxImports

IInv ==
  /\ TypeOK
  /\ AtMostOneDefault(db)
  /\ NeverEmpty
  /\ server # "down" /\ DOMAIN db.dashboards # {} => db.complete
  /\ job # "none" => server = "up"
  /\ job = "import" => Draft(work)

LEMMA InitIInv == Init => IInv
<1> SUFFICES ASSUME Init PROVE IInv
  OBVIOUS
<1>1. /\ MaxDash \in Nat /\ MaxCards \in Nat /\ MaxEdits \in Nat
      /\ MaxDocument \in Nat /\ MaxImports \in Nat
  BY StoresAssumption
<1>2. CASE db = EmptyStore
  <2>1. /\ db.dashboards = [d \in {} |-> None] /\ db.cards = [c \in {} |-> None]
        /\ db.nextDash = 1 /\ db.nextCard = 1 /\ db.history = 0
        /\ db.complete = FALSE /\ db.password = "none" /\ IsDatabase(db)
    BY <1>2 DEF EmptyStore, IsDatabase
  <2>2. IsTable(db.dashboards, DashIds, Dashboard) /\ IsTable(db.cards, CardIds, Card)
    BY <2>1 DEF IsTable
  <2>3. Sound(db)
    <3>1. DOMAIN db.dashboards = {} /\ DOMAIN db.cards = {}
      BY <2>1
    <3>2. 1 \in 1..MaxDash + 1 /\ 1 \in 1..MaxCards + 1 /\ 0 \in 0..MaxImports
      BY <1>1
    <3>3. /\ db.nextDash \in 1..MaxDash + 1 /\ db.nextCard \in 1..MaxCards + 1
          /\ db.history \in 0..MaxImports
      BY <2>1, <3>2
    <3> QED  BY <2>1, <2>2, <3>1, <3>3 DEF Sound
  <2>4. AtMostOneDefault(db) /\ NeverEmpty
    BY <2>1 DEF AtMostOneDefault, Defaults, NeverEmpty
  <2> QED  BY <1>1, <2>3, <2>4 DEF Init, IInv, TypeOK, Strategies
<1>3. CASE db \in Existing
  <2>1. Sound(db) /\ AtMostOneDefault(db) /\ NeverEmpty
    BY <1>3, StoresAssumption DEF NeverEmpty
  <2> QED  BY <1>1, <2>1 DEF Init, IInv, TypeOK, Strategies
<1> QED  BY <1>2, <1>3 DEF Init

(* A step that commits a sound database with a default at most and a       *)
(* dashboard, marked as set up, and leaves no import behind.               *)
LEMMA CommitKeeps ==
  ASSUME IInv, NEW s, Sound(s), AtMostOneDefault(s), DOMAIN s.dashboards # {}, s.complete,
         db' = s, server' = server, job' \in {"none", "setup"}, job' # "none" => server = "up",
         work' = None, strategy' \in Strategies, taken' \in 0..MaxDocument,
         replaced' \subseteq DashIds, merged' \subseteq DashIds, edits' \in 0..MaxEdits
  PROVE  IInv'
<1>1. TypeOK'
  BY DEF IInv, TypeOK
<1>2. AtMostOneDefault(db') /\ NeverEmpty'
  BY DEF NeverEmpty
<1> QED  BY <1>1, <1>2 DEF IInv

(* A step of an import that has written s.                                 *)
LEMMA TakeKeeps ==
  ASSUME IInv, Importing, NEW s, Sound(s), Draft(s), Take(s),
         replaced' \subseteq DashIds, merged' \subseteq DashIds
  PROVE  IInv'
<1>1. taken \in 0..MaxDocument /\ taken < MaxDocument /\ MaxDocument \in Nat /\ job = "import"
  BY StoresAssumption DEF IInv, TypeOK, Importing
<1>2. taken' \in 0..MaxDocument
  BY <1>1 DEF Take
<1>3. TypeOK'
  BY <1>1, <1>2 DEF IInv, TypeOK, Take
<1> QED  BY <1>1, <1>3 DEF IInv, Take, NeverEmpty

-----------------------------------------------------------------------------
(* Start-up and kills.                                                     *)

LEMMA InitDbKeeps == IInv /\ InitDb => IInv'
<1> SUFFICES ASSUME IInv, InitDb PROVE IInv'
  OBVIOUS
<1> DEFINE x == db.complete \/ DOMAIN db.dashboards # {}
<1>1. PICK clocks \in SUBSET DOMAIN db.cards : db' = [DropCards(db, clocks) EXCEPT !.complete = x]
  BY DEF InitDb
<1> DEFINE u == DropCards(db, clocks)
<1>2. Sound(db) /\ AtMostOneDefault(db)
  BY DEF IInv, TypeOK
<1>3. Sound(u) /\ u.dashboards = db.dashboards
  BY <1>2, DropCardsSound
<1>4. AtMostOneDefault(u)
  <2> HIDE DEF u
  <2> QED  BY <1>2, <1>3 DEF AtMostOneDefault, Defaults
<1>5. x \in BOOLEAN /\ (x <=> db.complete \/ DOMAIN db.dashboards # {})
  BY <1>2 DEF Sound
<1>6. Sound(db') /\ AtMostOneDefault(db') /\ db'.dashboards = db.dashboards /\ db'.complete = x
  <2> HIDE DEF u, x
  <2>1. db' = [u EXCEPT !.complete = x]
    BY <1>1 DEF u
  <2> QED  BY <1>3, <1>4, <1>5, <2>1, FlagWritten
<1> HIDE DEF x, u
<1>7. server = "down" /\ job = "none"
  BY DEF InitDb, IInv, TypeOK
<1>8. TypeOK'
  BY <1>6, <1>7 DEF InitDb, IInv, TypeOK, importVars
<1>9. NeverEmpty'
  BY <1>5, <1>6 DEF IInv, NeverEmpty
<1> QED  BY <1>5, <1>6, <1>7, <1>8, <1>9 DEF InitDb, IInv

LEMMA EnsureAdminPasswordKeeps == IInv /\ EnsureAdminPassword => IInv'
<1> SUFFICES ASSUME IInv, EnsureAdminPassword PROVE IInv'
  OBVIOUS
<1> DEFINE x == IF db.password = "none" THEN "default" ELSE db.password
<1>1. Sound(db) /\ AtMostOneDefault(db) /\ db' = [db EXCEPT !.password = x]
  BY DEF IInv, TypeOK, EnsureAdminPassword
<1>2. x \in {"none", "default", "chosen"}
  BY <1>1 DEF Sound
<1>3. Sound(db') /\ AtMostOneDefault(db') /\ db'.dashboards = db.dashboards /\ db'.complete = db.complete
  <2> HIDE DEF x
  <2> QED  BY <1>1, <1>2, PasswordWritten
<1> HIDE DEF x
<1>4. server = "booting" /\ job = "none"
  BY DEF EnsureAdminPassword, IInv, TypeOK
<1>5. TypeOK'
  BY <1>3, <1>4 DEF EnsureAdminPassword, IInv, TypeOK, importVars
<1> QED  BY <1>3, <1>4, <1>5 DEF EnsureAdminPassword, IInv, NeverEmpty

LEMMA CrashKeeps == IInv /\ Crash => IInv'
<1> SUFFICES ASSUME IInv, Crash PROVE IInv'
  OBVIOUS
<1>1. TypeOK'
  BY StoresAssumption DEF Crash, TransactionOver, IInv, TypeOK, Strategies
<1> QED  BY <1>1 DEF Crash, TransactionOver, IInv, NeverEmpty

-----------------------------------------------------------------------------
(* The wizard.                                                             *)

LEMMA CompleteSetupKeeps ==
  ASSUME IInv, NEW template \in Templates, CompleteSetup(template)
  PROVE  IInv'
<1> DEFINE t == Installed(db, template)
<1>1. Sound(db)
  BY DEF IInv, TypeOK
<1>2. Sound(t) /\ DOMAIN t.dashboards # {} /\ AtMostOneDefault(t)
  BY <1>1, InstalledSound DEF CompleteSetup
<1> DEFINE s == [t EXCEPT !.complete = TRUE]
<1>3. Sound(s) /\ AtMostOneDefault(s) /\ s.dashboards = t.dashboards /\ s.complete
  <2> HIDE DEF t
  <2> QED  BY <1>2, FlagWritten
<1>4. /\ db' = s /\ server' = server /\ job' = "setup" /\ server = "up"
      /\ work' = work /\ job = "none" /\ UNCHANGED importVars /\ edits' = edits
  BY DEF CompleteSetup
<1>5. /\ work' = None /\ strategy' \in Strategies /\ taken' \in 0..MaxDocument
      /\ replaced' \subseteq DashIds /\ merged' \subseteq DashIds /\ edits' \in 0..MaxEdits
  BY <1>4 DEF IInv, TypeOK, importVars
<1> HIDE DEF s
<1> QED  BY <1>2, <1>3, <1>4, <1>5, CommitKeeps

LEMMA SetupPasswordKeeps == IInv /\ SetupPassword => IInv'
<1> SUFFICES ASSUME IInv, SetupPassword PROVE IInv'
  OBVIOUS
<1>1. Sound(db) /\ AtMostOneDefault(db) /\ db' = [db EXCEPT !.password = "chosen"]
  BY DEF IInv, TypeOK, SetupPassword
<1>2. Sound(db') /\ AtMostOneDefault(db') /\ db'.dashboards = db.dashboards /\ db'.complete = db.complete
  BY <1>1, PasswordWritten
<1>3. TypeOK'
  BY <1>2 DEF SetupPassword, IInv, TypeOK, importVars
<1> QED  BY <1>2, <1>3 DEF SetupPassword, IInv, NeverEmpty

-----------------------------------------------------------------------------
(* The administration routes.                                              *)

LEMMA EditKeeps ==
  ASSUME IInv, NEW s, Edit(s), Sound(s), AtMostOneDefault(s), DOMAIN s.dashboards # {}, s.complete
  PROVE  IInv'
<1>1. MaxEdits \in Nat /\ edits \in 0..MaxEdits /\ edits < MaxEdits
  BY StoresAssumption DEF IInv, TypeOK, Edit
<1>2. /\ db' = s /\ server' = server /\ job' = "none" /\ UNCHANGED <<work, importVars>>
      /\ job = "none" /\ edits' \in 0..MaxEdits
  BY <1>1 DEF Edit
<1>3. /\ work' = None /\ strategy' \in Strategies /\ taken' \in 0..MaxDocument
      /\ replaced' \subseteq DashIds /\ merged' \subseteq DashIds
  BY <1>2 DEF IInv, TypeOK, importVars
<1> QED  BY <1>2, <1>3, CommitKeeps

(* What every administration route finds.                                  *)
LEMMA EditFinds ==
  ASSUME IInv, NEW s, Edit(s)
  PROVE  /\ Sound(db) /\ AtMostOneDefault(db) /\ db.complete /\ DOMAIN db.dashboards # {}
         /\ MaxDash \in Nat /\ MaxCards \in Nat
BY StoresAssumption DEF IInv, TypeOK, NeverEmpty, Edit

LEMMA CreateDashboardKeeps ==
  ASSUME IInv, NEW row \in Dashboard, CreateDashboard(row)
  PROVE  IInv'
<1> DEFINE s == Inserted(db, row)
<1>1. Edit(s) /\ db.nextDash \in DashIds /\ Owner(db, row.slug) = {}
  BY DEF CreateDashboard
<1>2. /\ Sound(db) /\ AtMostOneDefault(db) /\ db.complete /\ DOMAIN db.dashboards # {}
      /\ MaxDash \in Nat
  BY <1>1, EditFinds
<1>3. /\ Sound(s) /\ AtMostOneDefault(s) /\ DOMAIN s.dashboards # {} /\ s.complete
  BY <1>1, <1>2, InsertedSound DEF SameSettings
<1> HIDE DEF s
<1> QED  BY <1>1, <1>3, EditKeeps

LEMMA UpdateDashboardKeeps ==
  ASSUME IInv, NEW row \in Dashboard, NEW d \in DOMAIN db.dashboards, UpdateDashboard(d, row)
  PROVE  IInv'
<1> DEFINE s == Put(db, d, row)
<1>1. Edit(s) /\ Owner(db, row.slug) \subseteq {d}
  BY DEF UpdateDashboard
<1>2. Sound(db) /\ AtMostOneDefault(db) /\ db.complete /\ DOMAIN db.dashboards # {}
  BY <1>1, EditFinds
<1>3. /\ Sound(s) /\ AtMostOneDefault(s) /\ DOMAIN s.dashboards # {} /\ s.complete
  BY <1>1, <1>2, PutSound DEF SameSettings
<1> HIDE DEF s
<1> QED  BY <1>1, <1>3, EditKeeps

LEMMA DeleteDashboardKeeps ==
  ASSUME IInv, NEW d \in DOMAIN db.dashboards, DeleteDashboard(d)
  PROVE  IInv'
<1> DEFINE s == Dropped(db, {d})
<1>1. Edit(s) /\ Cardinality(DOMAIN db.dashboards) > 1
  BY DEF DeleteDashboard
<1>2. Sound(db) /\ AtMostOneDefault(db) /\ db.complete
  BY <1>1, EditFinds
<1>3. /\ Sound(s) /\ AtMostOneDefault(s) /\ DOMAIN s.dashboards = DOMAIN db.dashboards \ {d}
      /\ s.complete
  BY <1>2, DroppedSound DEF SameSettings
<1>4. DOMAIN db.dashboards \ {d} # {}
  <2>1. DOMAIN db.dashboards # {d}
    <3>1. SUFFICES ASSUME DOMAIN db.dashboards = {d} PROVE FALSE
      OBVIOUS
    <3>2. Cardinality({d}) = 1
      BY FS_Singleton
    <3>3. Cardinality(DOMAIN db.dashboards) = 1
      BY <3>1, <3>2
    <3> QED  BY <1>1, <3>3
  <2> QED  BY <2>1
<1> HIDE DEF s
<1> QED  BY <1>1, <1>3, <1>4, EditKeeps

LEMMA CreateTileKeeps ==
  ASSUME IInv, NEW card \in Card, card.dash \in DOMAIN db.dashboards, CreateTile(card)
  PROVE  IInv'
<1> DEFINE s == [SetCard(db, db.nextCard, card) EXCEPT !.nextCard = db.nextCard + 1]
<1>1. Edit(s) /\ db.nextCard \in CardIds
  BY DEF CreateTile
<1>2. /\ Sound(db) /\ AtMostOneDefault(db) /\ db.complete /\ DOMAIN db.dashboards # {}
      /\ MaxCards \in Nat
  BY <1>1, EditFinds
<1>3. Sound(s) /\ s.dashboards = db.dashboards /\ s.complete
  BY <1>1, <1>2, NewCardSound DEF SameSettings
<1> HIDE DEF s
<1>4. AtMostOneDefault(s)
  BY <1>2, <1>3 DEF AtMostOneDefault, Defaults
<1> QED  BY <1>1, <1>2, <1>3, <1>4, EditKeeps

LEMMA AddPluginWidgetKeeps ==
  ASSUME IInv, NEW card \in Card, card.dash \in DOMAIN db.dashboards, AddPluginWidget(card)
  PROVE  IInv'
<1>1. CreateTile(card)
  BY DEF AddPluginWidget, CreateTile
<1> QED  BY <1>1, CreateTileKeeps

LEMMA UpdateTileKeeps ==
  ASSUME IInv, NEW card \in Card, card.dash \in DOMAIN db.dashboards,
         NEW c \in DOMAIN db.cards, UpdateTile(c, card)
  PROVE  IInv'
<1> DEFINE s == SetCard(db, c, card)
<1>1. Edit(s)
  BY DEF UpdateTile
<1>2. Sound(db) /\ AtMostOneDefault(db) /\ db.complete /\ DOMAIN db.dashboards # {}
  BY <1>1, EditFinds
<1>3. Sound(s) /\ s.dashboards = db.dashboards /\ s.complete
  BY <1>2, SetCardSound DEF SameSettings
<1> HIDE DEF s
<1>4. AtMostOneDefault(s)
  BY <1>2, <1>3 DEF AtMostOneDefault, Defaults
<1> QED  BY <1>1, <1>2, <1>3, <1>4, EditKeeps

(* The rows and heights that a card is given are those of the table.       *)
LEMMA CardNumbers ==
  CardRows \subseteq Nat \ {0} /\ CardHeights \subseteq Nat /\ WidgetHeights \subseteq Nat
<1>1. CardRows \subseteq Nat \ {0}
  BY InputsAssumption
<1>2. CardHeights \subseteq 1..24 /\ WidgetHeights \subseteq Nat
  BY InputsAssumption
<1> QED  BY <1>1, <1>2

LEMMA UpdatePositionsKeeps ==
  ASSUME IInv, NEW moved \in SUBSET CardIds,
         NEW positions \in [moved -> [row : CardRows, height : CardHeights]],
         UpdatePositions(positions)
  PROVE  IInv'
<1> DEFINE K == [c \in DOMAIN db.cards |->
                   IF c \in DOMAIN positions
                   THEN [db.cards[c] EXCEPT !.row = positions[c].row, !.height = positions[c].height]
                   ELSE db.cards[c]]
           s == [db EXCEPT !.cards = K]
<1>1. Edit(s)
  BY DEF UpdatePositions
<1>2. Sound(db) /\ AtMostOneDefault(db) /\ db.complete /\ DOMAIN db.dashboards # {}
  BY <1>1, EditFinds
<1>3. \A c \in DOMAIN db.cards :
        db.cards[c] \in Card /\ db.cards[c].dash \in DOMAIN db.dashboards /\ c \in CardIds
  BY <1>2 DEF Sound, IsTable
<1>4. \A c \in DOMAIN db.cards : K[c] \in Card /\ K[c].dash = db.cards[c].dash
  <2> TAKE c \in DOMAIN db.cards
  <2>1. CASE c \in DOMAIN positions
    <3>1. positions[c].row \in CardRows /\ positions[c].height \in CardHeights
      BY <2>1
    <3>2. K[c] = [db.cards[c] EXCEPT !.row = positions[c].row, !.height = positions[c].height]
      BY <2>1
    <3> HIDE DEF K
    <3> QED  BY <1>3, <3>1, <3>2, CardNumbers DEF Card
  <2>2. CASE c \notin DOMAIN positions
    BY <1>3, <2>2
  <2> QED  BY <2>1, <2>2
<1>5. DOMAIN K = DOMAIN db.cards /\ IsTable(K, CardIds, Card)
  BY <1>3, <1>4 DEF IsTable
<1>6. \A c \in DOMAIN K : K[c].dash \in DOMAIN db.dashboards
  <2> HIDE DEF K
  <2> QED  BY <1>3, <1>4, <1>5
<1> HIDE DEF K
<1>7. Sound(s) /\ s.dashboards = db.dashboards /\ s.complete
  BY <1>2, <1>5, <1>6, CardsRewritten DEF SameSettings
<1> HIDE DEF s
<1>8. AtMostOneDefault(s)
  BY <1>2, <1>7 DEF AtMostOneDefault, Defaults
<1> QED  BY <1>1, <1>2, <1>7, <1>8, EditKeeps

LEMMA DeleteTileKeeps ==
  ASSUME IInv, NEW c, DeleteTile(c)
  PROVE  IInv'
<1> DEFINE s == DropCards(db, {c})
<1>1. Edit(s)
  BY DEF DeleteTile
<1>2. Sound(db) /\ AtMostOneDefault(db) /\ db.complete /\ DOMAIN db.dashboards # {}
  BY <1>1, EditFinds
<1>3. Sound(s) /\ s.dashboards = db.dashboards /\ s.complete
  BY <1>2, DropCardsSound DEF SameSettings
<1> HIDE DEF s
<1>4. AtMostOneDefault(s)
  BY <1>2, <1>3 DEF AtMostOneDefault, Defaults
<1> QED  BY <1>1, <1>2, <1>3, <1>4, EditKeeps

LEMMA UpdateAdminPasswordKeeps == IInv /\ UpdateAdminPassword => IInv'
<1> SUFFICES ASSUME IInv, UpdateAdminPassword PROVE IInv'
  OBVIOUS
<1> DEFINE s == [db EXCEPT !.password = "chosen"]
<1>1. Edit(s)
  BY DEF UpdateAdminPassword
<1>2. Sound(db) /\ AtMostOneDefault(db) /\ db.complete /\ DOMAIN db.dashboards # {}
  BY <1>1, EditFinds
<1>3. Sound(s) /\ AtMostOneDefault(s) /\ s.dashboards = db.dashboards /\ s.complete = db.complete
  BY <1>2, PasswordWritten
<1> HIDE DEF s
<1> QED  BY <1>1, <1>2, <1>3, EditKeeps

LEMMA AdministrateKeeps == IInv /\ Administrate => IInv'
<1> SUFFICES ASSUME IInv, Administrate PROVE IInv'
  OBVIOUS
<1>1. /\ GridRows \subseteq Nat \ {0} /\ CardRows \subseteq Nat \ {0}
      /\ CardHeights \subseteq Nat /\ WidgetHeights \subseteq Nat
  <2>1. GridRows \subseteq Nat \ {0}
    BY InputsAssumption
  <2> QED  BY <2>1, CardNumbers
<1>2. [slug : Slugs, is_default : BOOLEAN, rows : GridRows] \subseteq Dashboard
  BY <1>1 DEF Dashboard
<1>3. DOMAIN db.dashboards \subseteq DashIds
  BY DEF IInv, TypeOK, Sound, IsTable
<1>4. \A card \in [dash : DOMAIN db.dashboards, row : CardRows, height : CardHeights] :
        card \in Card /\ card.dash \in DOMAIN db.dashboards
  BY <1>1, <1>3 DEF Card
<1>13. CASE \E card \in [dash : DOMAIN db.dashboards, row : CardRows, height : WidgetHeights] :
              AddPluginWidget(card)
  <2>1. \A card \in [dash : DOMAIN db.dashboards, row : CardRows, height : WidgetHeights] :
          card \in Card /\ card.dash \in DOMAIN db.dashboards
    BY <1>1, <1>3 DEF Card
  <2> QED  BY <1>13, <2>1, AddPluginWidgetKeeps
<1>5. CASE \E row \in [slug : Slugs, is_default : BOOLEAN, rows : GridRows] : CreateDashboard(row)
  BY <1>2, <1>5, CreateDashboardKeeps
<1>6. CASE \E row \in [slug : Slugs, is_default : BOOLEAN, rows : GridRows] :
             \E d \in DOMAIN db.dashboards : UpdateDashboard(d, row)
  BY <1>2, <1>6, UpdateDashboardKeeps
<1>7. CASE \E d \in DOMAIN db.dashboards : DeleteDashboard(d)
  BY <1>7, DeleteDashboardKeeps
<1>8. CASE \E card \in [dash : DOMAIN db.dashboards, row : CardRows, height : CardHeights] :
             CreateTile(card)
  BY <1>4, <1>8, CreateTileKeeps
<1>9. CASE \E card \in [dash : DOMAIN db.dashboards, row : CardRows, height : CardHeights] :
             \E c \in DOMAIN db.cards : UpdateTile(c, card)
  BY <1>4, <1>9, UpdateTileKeeps
<1>10. CASE \E moved \in SUBSET CardIds :
              \E positions \in [moved -> [row : CardRows, height : CardHeights]] :
                UpdatePositions(positions)
  BY <1>10, UpdatePositionsKeeps
<1>11. CASE \E c \in DOMAIN db.cards : DeleteTile(c)
  BY <1>11, DeleteTileKeeps
<1>12. CASE UpdateAdminPassword
  BY <1>12, UpdateAdminPasswordKeeps
<1> QED  BY <1>5, <1>6, <1>7, <1>8, <1>9, <1>10, <1>11, <1>12, <1>13 DEF Administrate

-----------------------------------------------------------------------------
(* The import.                                                             *)

(* What every step of an import finds.                                     *)
LEMMA ImportFinds ==
  ASSUME IInv, Importing
  PROVE  /\ Sound(work) /\ Draft(work)
         /\ replaced \subseteq DashIds /\ merged \subseteq DashIds
         /\ MaxDash \in Nat /\ MaxCards \in Nat
BY StoresAssumption DEF IInv, TypeOK, Importing

(* A step that leaves the settings and at least the dashboards of a draft. *)
LEMMA DraftKept ==
  ASSUME NEW s, Draft(s), NEW t, SameSettings(s, t), AtMostOneDefault(s) => AtMostOneDefault(t),
         DOMAIN s.dashboards \subseteq DOMAIN t.dashboards
  PROVE  Draft(t)
BY DEF Draft, SameSettings

LEMMA ImportBeginKeeps ==
  ASSUME IInv, NEW how \in Strategies, ImportBegin(how)
  PROVE  IInv'
<1>1. Sound(db) /\ Draft(db)
  BY DEF IInv, TypeOK, NeverEmpty, ImportBegin, Draft
<1>2. TypeOK'
  BY <1>1 DEF ImportBegin, IInv, TypeOK
<1> QED  BY <1>1, <1>2 DEF ImportBegin, IInv, NeverEmpty

LEMMA ImportSkipKeeps ==
  ASSUME IInv, NEW layout, ImportSkip(layout)
  PROVE  IInv'
<1>1. Importing /\ Take(work) /\ UNCHANGED <<replaced, merged>>
  BY DEF ImportSkip
<1>2. Sound(work) /\ Draft(work) /\ replaced' \subseteq DashIds /\ merged' \subseteq DashIds
  BY <1>1, ImportFinds
<1> QED  BY <1>1, <1>2, TakeKeeps

LEMMA ImportReplaceKeeps ==
  ASSUME IInv, NEW layout, Placeable(layout), ImportReplace(layout)
  PROVE  IInv'
<1> DEFINE row == [slug |-> layout.slug, is_default |-> layout.is_default, rows |-> layout.rows]
           Emptied(d) == DropCards(work, CardsOf(work, d))
           Done(d) == Filled(Put(Emptied(d), d, row), d, layout.tiles, 0)
<1>1. PICK d \in Owner(work, layout.slug) : Take(Done(d)) /\ replaced' = replaced \cup {d}
  BY DEF ImportReplace, Replaced
<1> DEFINE u == Emptied(d)
           v == Put(u, d, row)
           s == Filled(v, d, layout.tiles, 0)
<1>2. Importing /\ HasRoom(work, layout) /\ UNCHANGED merged
  BY DEF ImportReplace
<1>3. /\ Sound(work) /\ Draft(work) /\ AtMostOneDefault(work)
      /\ replaced \subseteq DashIds /\ merged \subseteq DashIds /\ MaxCards \in Nat
  BY <1>2, ImportFinds DEF Draft
<1>4. d \in DOMAIN work.dashboards /\ d \in DashIds
      /\ Owner(work, layout.slug) \subseteq {d}
  BY <1>3 DEF Owner, Sound, IsTable
<1>5. row \in Dashboard /\ row.slug = layout.slug
  BY DEF Placeable, Layout, Dashboard
<1>6. layout.tiles \in Seq(Tile) /\ \A i \in 1..Len(layout.tiles) : layout.tiles[i].y + 0 >= 1
  BY PlacedTiles
<1> DEFINE C == CardsOf(work, d)
<1>7. /\ Sound(u) /\ u.dashboards = work.dashboards
      /\ u.nextCard = work.nextCard /\ SameSettings(work, u)
  <2>1. u = DropCards(work, C)
    OBVIOUS
  <2> HIDE DEF C, u
  <2> QED  BY <1>3, <2>1, DropCardsSound
<1> HIDE DEF row, u
<1>8. AtMostOneDefault(u) /\ Owner(u, row.slug) \subseteq {d} /\ d \in DOMAIN u.dashboards
  BY <1>3, <1>4, <1>5, <1>7 DEF AtMostOneDefault, Defaults, Owner
<1>9. /\ Sound(v) /\ AtMostOneDefault(v) /\ DOMAIN v.dashboards = DOMAIN work.dashboards
      /\ v.nextCard = work.nextCard /\ SameSettings(work, v)
  BY <1>5, <1>7, <1>8, PutSound DEF SameSettings
<1> HIDE DEF v
<1>10. /\ Sound(s) /\ s.dashboards = v.dashboards /\ SameSettings(v, s)
  <2>1. d \in DOMAIN v.dashboards /\ v.nextCard + Len(layout.tiles) - 1 <= MaxCards
    BY <1>2, <1>4, <1>9 DEF HasRoom
  <2> QED  BY <1>3, <1>6, <1>9, <2>1, FilledSound
<1>11. Take(s)
  BY <1>1 DEF u, v, row
<1> HIDE DEF s
<1>12. AtMostOneDefault(s)
  BY <1>9, <1>10 DEF AtMostOneDefault, Defaults
<1>13. Draft(s)
  BY <1>3, <1>9, <1>10, <1>12, DraftKept DEF SameSettings
<1>14. replaced' \subseteq DashIds /\ merged' \subseteq DashIds
  BY <1>1, <1>2, <1>3, <1>4
<1> QED  BY <1>2, <1>10, <1>11, <1>13, <1>14, TakeKeeps

LEMMA ImportMergeKeeps ==
  ASSUME IInv, NEW layout, Placeable(layout), ImportMerge(layout)
  PROVE  IInv'
<1>1. PICK d \in Owner(work, layout.slug) :
        Take(Filled(work, d, layout.tiles, Bottom(work, d))) /\ merged' = merged \cup {d}
  BY DEF ImportMerge
<1> DEFINE offset == Bottom(work, d)
           s == Filled(work, d, layout.tiles, offset)
<1>2. Importing /\ HasRoom(work, layout) /\ UNCHANGED replaced
  BY DEF ImportMerge
<1>3. /\ Sound(work) /\ Draft(work) /\ AtMostOneDefault(work)
      /\ replaced \subseteq DashIds /\ merged \subseteq DashIds /\ MaxCards \in Nat
  BY <1>2, ImportFinds DEF Draft
<1>4. d \in DOMAIN work.dashboards /\ d \in DashIds
  BY <1>3 DEF Owner, Sound, IsTable
<1>5. offset \in Nat
  BY <1>3, BottomIsLowest
<1> HIDE DEF offset
<1>6. layout.tiles \in Seq(Tile) /\ \A i \in 1..Len(layout.tiles) : layout.tiles[i].y + offset >= 1
  BY <1>5, PlacedTiles
<1>7. work.nextCard + Len(layout.tiles) - 1 <= MaxCards
  BY <1>2 DEF HasRoom
<1>8. /\ Sound(s) /\ s.dashboards = work.dashboards /\ SameSettings(work, s)
  BY <1>3, <1>4, <1>5, <1>6, <1>7, FilledSound
<1>9. Take(s)
  BY <1>1 DEF offset
<1> HIDE DEF s
<1>10. AtMostOneDefault(s)
  BY <1>3, <1>8 DEF AtMostOneDefault, Defaults
<1>11. Draft(s)
  BY <1>3, <1>8, <1>10, DraftKept
<1> QED  BY <1>1, <1>2, <1>3, <1>4, <1>8, <1>9, <1>11, TakeKeeps

LEMMA ImportCreateKeeps ==
  ASSUME IInv, NEW layout, Placeable(layout), ImportCreate(layout)
  PROVE  IInv'
<1>1. PICK slug \in Slugs : Owner(work, slug) = {} /\ Take(Added(work, slug, layout))
  BY DEF ImportCreate
<1> DEFINE s == Added(work, slug, layout)
<1>2. Importing /\ HasRoom(work, layout) /\ UNCHANGED <<replaced, merged>>
  BY DEF ImportCreate
<1>3. /\ Sound(work) /\ Draft(work) /\ AtMostOneDefault(work)
      /\ replaced' \subseteq DashIds /\ merged' \subseteq DashIds
      /\ MaxCards \in Nat /\ MaxDash \in Nat
  BY <1>2, ImportFinds DEF Draft
<1>4. /\ work.nextDash \in DashIds
      /\ work.nextCard + Len(layout.tiles) - 1 <= MaxCards
  BY <1>2 DEF HasRoom
<1>5. /\ Sound(s) /\ AtMostOneDefault(s) /\ SameSettings(work, s)
      /\ DOMAIN work.dashboards \subseteq DOMAIN s.dashboards
  BY <1>1, <1>3, <1>4, AddedSound
<1>6. Take(s)
  BY <1>1
<1> HIDE DEF s
<1>7. Draft(s)
  BY <1>3, <1>5, DraftKept
<1> QED  BY <1>2, <1>3, <1>5, <1>6, <1>7, TakeKeeps

LEMMA ImportDashboardKeeps ==
  ASSUME IInv, NEW layout \in Incoming, ImportDashboard(Clean(layout))
  PROVE  IInv'
<1>1. Placeable(Clean(layout))
  <2>1. layout \in Document
    BY InputsAssumption
  <2> QED  BY <2>1, CleanIsPlaceable
<1> DEFINE page == Clean(layout)
<1>2. ImportSkip(page) \/ ImportReplace(page) \/ ImportMerge(page) \/ ImportCreate(page)
  BY DEF ImportDashboard
<1> HIDE DEF page
<1>3. Placeable(page)
  BY <1>1 DEF page
<1> QED  BY <1>2, <1>3, ImportSkipKeeps, ImportReplaceKeeps, ImportMergeKeeps, ImportCreateKeeps

LEMMA ImportFailsKeeps == IInv /\ ImportFails => IInv'
<1> SUFFICES ASSUME IInv, ImportFails PROVE IInv'
  OBVIOUS
<1>1. TypeOK'
  BY StoresAssumption DEF ImportFails, TransactionOver, IInv, TypeOK, Strategies
<1> QED  BY <1>1 DEF ImportFails, TransactionOver, IInv, NeverEmpty

LEMMA ImportCommitKeeps == IInv /\ ImportCommit => IInv'
<1> SUFFICES ASSUME IInv, ImportCommit PROVE IInv'
  OBVIOUS
<1>1. PICK t \in WithDefault(work) : db' = [t EXCEPT !.history = t.history + 1]
  BY DEF ImportCommit
<1>2. /\ Sound(work) /\ AtMostOneDefault(work) /\ DOMAIN work.dashboards # {}
      /\ work.complete /\ work.history < MaxImports /\ MaxImports \in Nat /\ MaxDocument \in Nat
  BY StoresAssumption DEF IInv, TypeOK, ImportCommit, Draft
<1>3. /\ Sound(t) /\ AtMostOneDefault(t) /\ DOMAIN t.dashboards # {}
      /\ t.complete /\ t.history < MaxImports
  BY <1>2, WithDefaultSound DEF SameSettings
<1> DEFINE s == [t EXCEPT !.history = t.history + 1]
<1>4. Sound(s) /\ AtMostOneDefault(s) /\ DOMAIN s.dashboards # {} /\ s.complete
  BY <1>2, <1>3, HistoryWritten
<1>5. db' = s
  BY <1>1
<1> HIDE DEF s
<1>6. /\ server' = server /\ job' = "none" /\ work' = None /\ strategy' \in Strategies
      /\ taken' \in 0..MaxDocument /\ replaced' \subseteq DashIds /\ merged' \subseteq DashIds
      /\ edits' \in 0..MaxEdits
  BY <1>2 DEF ImportCommit, TransactionOver, Strategies, IInv, TypeOK
<1> QED  BY <1>4, <1>5, <1>6, CommitKeeps

-----------------------------------------------------------------------------
LEMMA Step == IInv /\ [Next]_vars => IInv'
<1> SUFFICES ASSUME IInv, [Next]_vars PROVE IInv'
  OBVIOUS
<1>1. CASE InitDb
  BY <1>1, InitDbKeeps
<1>2. CASE EnsureAdminPassword
  BY <1>2, EnsureAdminPasswordKeeps
<1>3. CASE Crash
  BY <1>3, CrashKeeps
<1>4. CASE \E template \in Templates : CompleteSetup(template)
  BY <1>4, CompleteSetupKeeps
<1>5. CASE SetupPassword
  BY <1>5, SetupPasswordKeeps
<1>6. CASE Administrate
  BY <1>6, AdministrateKeeps
<1>7. CASE \E how \in Strategies : ImportBegin(how)
  BY <1>7, ImportBeginKeeps
<1>8. CASE \E layout \in Incoming : ImportDashboard(Clean(layout))
  BY <1>8, ImportDashboardKeeps
<1>9. CASE ImportFails
  BY <1>9, ImportFailsKeeps
<1>10. CASE ImportCommit
  BY <1>10, ImportCommitKeeps
<1>11. CASE UNCHANGED vars
  BY <1>11 DEF vars, importVars, IInv, TypeOK, NeverEmpty
<1> QED  BY <1>1, <1>2, <1>3, <1>4, <1>5, <1>6, <1>7, <1>8, <1>9, <1>10, <1>11 DEF Next

LEMMA Invariance == Spec => []IInv
BY InitIInv, Step, PTL DEF Spec

(* Every committed database, and what an import has written of the next,   *)
(* keeps the promises of the schema, through kills and restarts.           *)
THEOREM TypeCorrect == Spec => []TypeOK
<1>1. IInv => TypeOK
  BY DEF IInv
<1> QED  BY <1>1, Invariance, PTL

(* No sequence of edits, imports and wizard runs leaves two defaults.      *)
THEOREM SingleDefault == Spec => []OneDefault
<1>1. IInv => OneDefault
  BY DEF IInv, OneDefault
<1> QED  BY <1>1, Invariance, PTL

(* Once the wizard is done there always is a dashboard.                    *)
THEOREM AlwaysADashboard == Spec => []NeverEmpty
<1>1. IInv => NeverEmpty
  BY DEF IInv
<1> QED  BY <1>1, Invariance, PTL

(* The wizard never finds a dashboard that its template would delete.      *)
THEOREM SetupNeverWipes == Spec => SetupWipesNothing
<1>1. IInv /\ [Next]_vars => [job = "none" /\ job' = "setup" => DOMAIN db.dashboards = {}]_vars
  <2> SUFFICES ASSUME IInv, Next, job = "none", job' = "setup" PROVE DOMAIN db.dashboards = {}
    OBVIOUS
  <2>1. CASE \E template \in Templates : CompleteSetup(template)
    BY <2>1 DEF CompleteSetup, IInv
  <2>2. CASE Administrate
    BY <2>2 DEF Administrate, CreateDashboard, UpdateDashboard, DeleteDashboard, CreateTile, AddPluginWidget,
                UpdateTile, UpdatePositions, DeleteTile, UpdateAdminPassword, Edit
  <2>3. CASE \E layout \in Incoming : ImportDashboard(Clean(layout))
    BY <2>3 DEF ImportDashboard, ImportSkip, ImportReplace, ImportMerge, ImportCreate, Take
  <2>4. CASE InitDb \/ EnsureAdminPassword \/ Crash \/ SetupPassword
    BY <2>4 DEF InitDb, EnsureAdminPassword, Crash, SetupPassword, TransactionOver
  <2>5. CASE (\E how \in Strategies : ImportBegin(how)) \/ ImportFails \/ ImportCommit
    BY <2>5 DEF ImportBegin, ImportFails, ImportCommit, TransactionOver
  <2> QED  BY <2>1, <2>2, <2>3, <2>4, <2>5 DEF Next
<1> QED  BY <1>1, Invariance, PTL DEF Spec, SetupWipesNothing

-----------------------------------------------------------------------------
(* What an import leaves of the dashboards that exist.  From s to t,       *)
(* dashboard d keeps its name, its rows and its cards, and what it gets    *)
(* lies beneath them ...                                                   *)
Grown(s, t, d) ==
  /\ d \in DOMAIN t.dashboards
  /\ t.dashboards[d].slug = s.dashboards[d].slug
  /\ t.dashboards[d].rows = s.dashboards[d].rows
  /\ \A c \in CardsOf(s, d) : c \in DOMAIN t.cards /\ t.cards[c] = s.cards[c]
  /\ \A old \in CardsOf(s, d), new \in CardsOf(t, d) \ CardsOf(s, d) :
       t.cards[new].row > s.cards[old].row + s.cards[old].height - 1

(* ... or it gets nothing.                                                 *)
Kept(s, t, d) == Grown(s, t, d) /\ CardsOf(t, d) = CardsOf(s, d)

(* The draft of an import against the database it began with.              *)
ImportInv ==
  /\ job # "import" => replaced = {} /\ merged = {}
  /\ job = "import" =>
       /\ replaced # {} => strategy = "replace"
       /\ merged # {} => strategy = "merge"
       /\ \A d \in DOMAIN db.dashboards \ replaced :
            Grown(db, work, d) /\ (d \notin merged => Kept(db, work, d))

LEMMA KeptGrown ==
  ASSUME NEW s, NEW t, NEW u, NEW d, Grown(s, t, d), Kept(t, u, d)
  PROVE  /\ Grown(s, u, d)
         /\ Kept(s, t, d) => Kept(s, u, d)
<1>1. CardsOf(s, d) \subseteq CardsOf(t, d) /\ CardsOf(u, d) = CardsOf(t, d)
  BY DEF Grown, Kept, CardsOf
<1>2. \A c \in CardsOf(t, d) : c \in DOMAIN u.cards /\ u.cards[c] = t.cards[c]
  BY DEF Grown, Kept
<1>3. Grown(s, u, d)
  BY <1>1, <1>2 DEF Grown, Kept
<1> QED  BY <1>1, <1>3 DEF Kept

\* the same dashboard, row and cards
LEMMA SameIsKept ==
  ASSUME NEW s, NEW t, NEW d, d \in DOMAIN t.dashboards,
         t.dashboards[d].slug = s.dashboards[d].slug, t.dashboards[d].rows = s.dashboards[d].rows,
         CardsOf(t, d) = CardsOf(s, d), \A c \in CardsOf(s, d) : t.cards[c] = s.cards[c]
  PROVE  Kept(s, t, d)
BY DEF Kept, Grown, CardsOf

(* The row of another dashboard is written: is_default apart, nothing.     *)
LEMMA PutKept ==
  ASSUME NEW s, Sound(s), NEW d, NEW row, NEW e \in DOMAIN s.dashboards, e # d
  PROVE  Kept(s, Put(s, d, row), e)
<1> DEFINE C == ClearedExcept(s, d)
           D == [k \in DOMAIN s.dashboards |->
                   IF k = d THEN s.dashboards[k]
                   ELSE [s.dashboards[k] EXCEPT !.is_default = FALSE]]
           rest == IF row.is_default THEN C ELSE s
           T == [k \in DOMAIN s.dashboards \cup {d} |->
                   IF k = d THEN row ELSE rest.dashboards[k]]
           t == Put(s, d, row)
<1>1. IsDatabase(s) /\ s.dashboards[e] \in Dashboard
  BY DEF Sound, IsTable
<1>2. C.dashboards = D
  BY <1>1, WriteDashboards DEF ClearedExcept
<1>3. D[e] = [s.dashboards[e] EXCEPT !.is_default = FALSE]
  OBVIOUS
<1>4. D[e].slug = s.dashboards[e].slug /\ D[e].rows = s.dashboards[e].rows
  BY <1>1, <1>3 DEF Dashboard
<1>5. T[e] = s.dashboards[e] \/ T[e] = D[e]
  BY <1>2
<1>6. t = [s EXCEPT !.dashboards = T]
  BY DEF Put
<1>7. e \in DOMAIN T
  OBVIOUS
<1> HIDE DEF T, D, t
<1>8. t.dashboards = T /\ t.cards = s.cards
  BY <1>1, <1>6, WriteDashboards
<1>9. CardsOf(t, e) = CardsOf(s, e)
  BY <1>8 DEF CardsOf
<1> QED  BY <1>4, <1>5, <1>7, <1>8, <1>9, SameIsKept DEF t

(* A new dashboard leaves those that exist.                                *)
LEMMA InsertedKept ==
  ASSUME NEW s, Sound(s), NEW row, NEW e \in DOMAIN s.dashboards
  PROVE  Kept(s, Inserted(s, row), e)
<1> DEFINE p == Put(s, s.nextDash, row)
           t == Inserted(s, row)
<1>1. e # s.nextDash
  <2>1. e < s.nextDash /\ s.nextDash \in Nat
    BY DEF Sound
  <2> QED  BY <2>1
<1>2. Kept(s, p, e)
  BY <1>1, PutKept
<1>3. IsDatabase(p)
  <2>1. IsDatabase(s) /\ \E T : p = [s EXCEPT !.dashboards = T]
    BY DEF Sound, Put
  <2> QED  BY <2>1, WriteDashboards
<1>4. t = [p EXCEPT !.nextDash = s.nextDash + 1]
  BY DEF Inserted
<1> HIDE DEF p, t
<1>5. t.dashboards = p.dashboards /\ t.cards = p.cards
  BY <1>3, <1>4 DEF IsDatabase
<1>6. Kept(s, t, e)
  BY <1>2, <1>5 DEF Kept, Grown, CardsOf
<1> QED  BY <1>6 DEF t

(* The cards of another dashboard go.                                      *)
LEMMA DropCardsKept ==
  ASSUME NEW s, Sound(s), NEW d, NEW e \in DOMAIN s.dashboards, e # d
  PROVE  Kept(s, DropCards(s, CardsOf(s, d)), e)
<1> DEFINE C == CardsOf(s, d)
           t == DropCards(s, C)
<1>1. /\ t.dashboards = s.dashboards
      /\ DOMAIN t.cards = DOMAIN s.cards \ C
      /\ \A c \in DOMAIN t.cards : t.cards[c] = s.cards[c]
  <2> HIDE DEF C
  <2> QED  BY DropCardsSound
<1> HIDE DEF t
<1>2. \A c \in CardsOf(s, e) : c \in DOMAIN t.cards /\ t.cards[c] = s.cards[c]
  BY <1>1 DEF CardsOf
<1>3. CardsOf(t, e) = CardsOf(s, e)
  BY <1>1, <1>2 DEF CardsOf
<1> QED  BY <1>1, <1>2, <1>3, SameIsKept DEF t

(* _insert_tiles: what the new cards are, besides those that exist.        *)
Fills(s, t, d, tiles, offset) ==
  /\ t.dashboards = s.dashboards
  /\ \A c \in DOMAIN s.cards : c \in DOMAIN t.cards /\ t.cards[c] = s.cards[c]
  /\ \A c \in DOMAIN t.cards : c \notin DOMAIN s.cards =>
       /\ t.cards[c].dash = d
       /\ \E i \in 1..Len(tiles) : t.cards[c].row = tiles[i].y + offset

LEMMA FilledCards ==
  ASSUME NEW s, Sound(s), NEW d, NEW tiles \in Seq(Tile), NEW offset
  PROVE  Fills(s, Filled(s, d, tiles, offset), d, tiles, offset)
<1> DEFINE n == Len(tiles)
           K == [c \in DOMAIN s.cards \cup (s.nextCard .. s.nextCard + n - 1) |->
                   IF c \in DOMAIN s.cards THEN s.cards[c]
                   ELSE LET t == tiles[c - s.nextCard + 1]
                        IN  [dash |-> d, row |-> t.y + offset, height |-> t.height]]
           u == [s EXCEPT !.cards = K]
           t == Filled(s, d, tiles, offset)
<1>1. t = [u EXCEPT !.nextCard = s.nextCard + n]
  BY DEF Filled
<1>2. s.nextCard \in Nat /\ n \in Nat /\ IsDatabase(s)
  BY DEF Sound
<1>3. \A c \in DOMAIN K : c \notin DOMAIN s.cards =>
        /\ K[c].dash = d
        /\ \E i \in 1..n : K[c].row = tiles[i].y + offset
  <2> TAKE c \in DOMAIN K
  <2> HAVE c \notin DOMAIN s.cards
  <2>1. c - s.nextCard + 1 \in 1..n
    BY <1>2
  <2>2. K[c].dash = d /\ K[c].row = tiles[c - s.nextCard + 1].y + offset
    OBVIOUS
  <2> QED  BY <2>1, <2>2
<1>4. \A c \in DOMAIN s.cards : c \in DOMAIN K /\ K[c] = s.cards[c]
  OBVIOUS
<1> HIDE DEF K
<1>5. IsDatabase(u) /\ u.dashboards = s.dashboards /\ u.cards = K
  BY <1>2, WriteCards
<1> HIDE DEF u, t
<1>6. t.dashboards = s.dashboards /\ t.cards = K
  BY <1>1, <1>5 DEF IsDatabase
<1>7. Fills(s, t, d, tiles, offset)
  BY <1>3, <1>4, <1>6 DEF Fills
<1> QED  BY <1>7 DEF t

LEMMA FilledKept ==
  ASSUME NEW s, Sound(s), NEW d, NEW tiles \in Seq(Tile), NEW offset,
         NEW e \in DOMAIN s.dashboards, e # d
  PROVE  Kept(s, Filled(s, d, tiles, offset), e)
<1> DEFINE t == Filled(s, d, tiles, offset)
<1>1. Fills(s, t, d, tiles, offset)
  BY FilledCards
<1> HIDE DEF t
<1>2. CardsOf(t, e) = CardsOf(s, e)
  BY <1>1 DEF CardsOf, Fills
<1>3. \A c \in CardsOf(s, e) : t.cards[c] = s.cards[c]
  BY <1>1 DEF CardsOf, Fills
<1>4. e \in DOMAIN t.dashboards /\ t.dashboards = s.dashboards
  BY <1>1 DEF Fills
<1> QED  BY <1>2, <1>3, <1>4, SameIsKept DEF t

(* Cards put below the lowest row of a dashboard lie beneath those it had. *)
LEMMA FilledGrown ==
  ASSUME NEW s, NEW t, Sound(t), NEW d, Grown(s, t, d), NEW tiles \in Seq(Tile),
         \A i \in 1..Len(tiles) : tiles[i].y >= 1, MaxCards \in Nat
  PROVE  Grown(s, Filled(t, d, tiles, Bottom(t, d)), d)
<1> DEFINE u == Filled(t, d, tiles, Bottom(t, d))
           b == Bottom(t, d)
<1>1. b \in Nat /\ \A c \in CardsOf(t, d) : t.cards[c].row + t.cards[c].height - 1 <= b
  BY BottomIsLowest
<1>2. Fills(t, u, d, tiles, b)
  BY FilledCards
<1> HIDE DEF u, b
<1>3. \A c \in CardsOf(s, d) : /\ c \in CardsOf(t, d) /\ c \in DOMAIN t.cards
                               /\ t.cards[c] = s.cards[c]
  BY DEF Grown, CardsOf
<1>4. ASSUME NEW old \in CardsOf(s, d), NEW new \in CardsOf(u, d) \ CardsOf(s, d)
      PROVE  u.cards[new].row > s.cards[old].row + s.cards[old].height - 1
  <2>1. CASE new \in DOMAIN t.cards
    <3>1. new \in CardsOf(t, d) /\ u.cards[new] = t.cards[new]
      BY <1>2, <2>1 DEF CardsOf, Fills
    <3> QED  BY <3>1 DEF Grown
  <2>2. CASE new \notin DOMAIN t.cards
    <3>1. new \in DOMAIN u.cards
      BY DEF CardsOf
    <3>2. PICK i \in 1..Len(tiles) : u.cards[new].row = tiles[i].y + b
      BY <1>2, <2>2, <3>1 DEF Fills
    <3>3. tiles[i].y \in Nat /\ tiles[i].y >= 1
      <4>1. tiles[i] \in Tile
        OBVIOUS
      <4> QED  BY <4>1 DEF Tile
    <3>4. old \in CardsOf(t, d) /\ t.cards[old] = s.cards[old]
      BY <1>3
    <3>5. t.cards[old].row \in Nat /\ t.cards[old].height \in Nat
      <4>1. t.cards[old] \in Card
        BY <3>4 DEF CardsOf, Sound, IsTable
      <4> QED  BY <4>1 DEF Card
    <3>6. t.cards[old].row + t.cards[old].height - 1 <= b
      BY <1>1, <3>4
    <3> DEFINE low == s.cards[old].row + s.cards[old].height - 1
    <3>7. low \in Int /\ low <= b
      BY <3>4, <3>5, <3>6
    <3> HIDE DEF low
    <3>8. tiles[i].y + b > low
      BY <1>1, <3>3, <3>7
    <3> QED  BY <3>2, <3>8 DEF low
  <2> QED  BY <2>1, <2>2
<1>5. \A c \in CardsOf(s, d) : c \in DOMAIN u.cards /\ u.cards[c] = s.cards[c]
  BY <1>2, <1>3 DEF Fills
<1>6. u.dashboards = t.dashboards
  BY <1>2 DEF Fills
<1> QED  BY <1>4, <1>5, <1>6 DEF Grown, u, b

\* a new dashboard, with its cards, leaves those that exist
LEMMA AddedKept ==
  ASSUME NEW s, Sound(s), NEW slug \in Slugs, Owner(s, slug) = {}, NEW layout, Placeable(layout),
         s.nextDash \in DashIds, NEW e \in DOMAIN s.dashboards
  PROVE  Kept(s, Added(s, slug, layout), e)
<1> DEFINE row == [slug |-> slug, is_default |-> layout.is_default, rows |-> layout.rows]
           u == Inserted(s, row)
           t == Filled(u, s.nextDash, layout.tiles, 0)
<1>1. row \in Dashboard /\ row.slug = slug /\ layout.tiles \in Seq(Tile) /\ MaxDash \in Nat
  BY StoresAssumption DEF Placeable, Layout, Dashboard
<1>2. e # s.nextDash
  <2>1. e < s.nextDash /\ s.nextDash \in Nat
    BY DEF Sound
  <2> QED  BY <2>1
<1>3. Added(s, slug, layout) = t
  BY DEF Added
<1> HIDE DEF row
<1>4. Sound(u)
  BY <1>1, InsertedSound
<1>5. Kept(s, u, e)
  BY InsertedKept
<1> HIDE DEF u
<1>6. e \in DOMAIN u.dashboards
  BY <1>5 DEF Kept, Grown
<1>7. Kept(u, t, e)
  BY <1>1, <1>2, <1>4, <1>6, FilledKept
<1> HIDE DEF t
<1>8. Kept(s, t, e)
  BY <1>5, <1>7, KeptGrown DEF Kept
<1> QED  BY <1>3, <1>8

\* replacing one dashboard leaves the others
LEMMA ReplacedKept ==
  ASSUME NEW s, Sound(s), NEW d \in DOMAIN s.dashboards, NEW layout, Placeable(layout),
         Owner(s, layout.slug) \subseteq {d}, NEW e \in DOMAIN s.dashboards, e # d
  PROVE  Kept(s, Replaced(s, d, layout), e)
<1> DEFINE row == [slug |-> layout.slug, is_default |-> layout.is_default, rows |-> layout.rows]
           C == CardsOf(s, d)
           u == DropCards(s, C)
           v == Put(u, d, row)
           t == Filled(v, d, layout.tiles, 0)
<1>1. /\ row \in Dashboard /\ row.slug = layout.slug
      /\ layout.tiles \in Seq(Tile)
  BY DEF Placeable, Layout, Dashboard
<1>2. Replaced(s, d, layout) = t
  BY DEF Replaced
<1>3. Kept(s, u, e)
  BY DropCardsKept
<1> HIDE DEF row
<1>4. Sound(u) /\ u.dashboards = s.dashboards
  <2> HIDE DEF C
  <2> QED  BY DropCardsSound
<1> HIDE DEF C, u
<1>5. Owner(u, row.slug) \subseteq {d}
  BY <1>1, <1>4 DEF Owner
<1>6. Sound(v) /\ DOMAIN v.dashboards = DOMAIN u.dashboards
  BY <1>1, <1>4, <1>5, PutSound
<1>7. Kept(u, v, e)
  BY <1>4, PutKept
<1> HIDE DEF v
<1>8. Kept(v, t, e)
  BY <1>1, <1>4, <1>6, FilledKept
<1> HIDE DEF t
<1>9. Kept(s, v, e)
  BY <1>3, <1>7, KeptGrown DEF Kept
<1>10. Kept(s, t, e)
  BY <1>8, <1>9, KeptGrown DEF Kept
<1> QED  BY <1>2, <1>10

(* What is committed is the draft, with exactly one default.               *)
LEMMA CommittedDraft ==
  ASSUME NEW s, Sound(s), Draft(s), NEW t \in WithDefault(s), NEW u,
         u = [t EXCEPT !.history = t.history + 1]
  PROVE  /\ \A e \in DOMAIN s.dashboards : Kept(s, u, e)
         /\ \E d \in DOMAIN u.dashboards : Defaults(u) = {d}
<1>1. /\ \A e \in DOMAIN s.dashboards : Kept(s, t, e)
      /\ \E d \in DOMAIN t.dashboards : Defaults(t) = {d}
      /\ IsDatabase(t)
  <2>1. CASE Defaults(s) # {}
    <3>1. t = s
      BY <2>1 DEF WithDefault
    <3>2. PICK d \in Defaults(s) : TRUE
      BY <2>1
    <3>3. d \in DOMAIN s.dashboards /\ Defaults(s) = {d}
      BY <3>2 DEF Draft, AtMostOneDefault, Defaults
    <3>4. \A e \in DOMAIN s.dashboards : Kept(s, s, e)
      BY SameIsKept
    <3> QED  BY <3>1, <3>3, <3>4 DEF Sound
  <2>2. CASE Defaults(s) = {}
    <3>1. PICK d \in DOMAIN s.dashboards : t = [s EXCEPT !.dashboards[d].is_default = TRUE]
      BY <2>2 DEF WithDefault, Draft
    <3> DEFINE row == [s.dashboards[d] EXCEPT !.is_default = TRUE]
               T == [s.dashboards EXCEPT ![d] = row]
    <3>2. t = [s EXCEPT !.dashboards = T]
      BY <3>1
    <3>3. IsDatabase(s) /\ s.dashboards \in [DOMAIN s.dashboards -> Dashboard]
      BY DEF Sound, IsTable
    <3>4. /\ row.slug = s.dashboards[d].slug /\ row.rows = s.dashboards[d].rows
          /\ row.is_default
      BY <3>3 DEF Dashboard
    <3>5. /\ DOMAIN T = DOMAIN s.dashboards
          /\ \A e \in DOMAIN T : T[e] = IF e = d THEN row ELSE s.dashboards[e]
      BY <3>3
    <3> HIDE DEF T, row
    <3>6. IsDatabase(t) /\ t.dashboards = T /\ t.cards = s.cards
      BY <3>2, <3>3, WriteDashboards
    <3>7. \A e \in DOMAIN s.dashboards : Kept(s, t, e)
      <4> TAKE e \in DOMAIN s.dashboards
      <4>1. t.dashboards[e].slug = s.dashboards[e].slug /\ t.dashboards[e].rows = s.dashboards[e].rows
        BY <3>4, <3>5, <3>6
      <4>2. CardsOf(t, e) = CardsOf(s, e) /\ \A c \in CardsOf(s, e) : t.cards[c] = s.cards[c]
        BY <3>6 DEF CardsOf
      <4> QED  BY <3>5, <3>6, <4>1, <4>2, SameIsKept
    <3>8. \A e \in DOMAIN T : T[e].is_default <=> e = d
      BY <2>2, <3>4, <3>5 DEF Defaults
    <3>9. Defaults(t) = {d} /\ d \in DOMAIN t.dashboards
      BY <3>5, <3>6, <3>8 DEF Defaults
    <3> QED  BY <3>6, <3>7, <3>9
  <2> QED  BY <2>1, <2>2
<1>2. u.dashboards = t.dashboards /\ u.cards = t.cards
  BY <1>1 DEF IsDatabase
<1>3. \A e \in DOMAIN s.dashboards : Kept(s, u, e)
  BY <1>1, <1>2 DEF Kept, Grown, CardsOf
<1>4. Defaults(u) = Defaults(t)
  BY <1>2 DEF Defaults
<1> QED  BY <1>1, <1>2, <1>3, <1>4

-----------------------------------------------------------------------------
(* A step of the import that leaves every dashboard that exists, but for   *)
(* one that it replaces or one that it adds cards to.                      *)
LEMMA DraftGrows ==
  ASSUME IInv, ImportInv, Importing, NEW s, Take(s), NEW D,
         \A e \in DOMAIN work.dashboards \ D : Kept(work, s, e),
         \/ D = {} /\ UNCHANGED <<replaced, merged>>
         \/ strategy = "replace" /\ replaced' = replaced \cup D /\ UNCHANGED merged
         \/ /\ strategy = "merge" /\ merged' = merged \cup D /\ UNCHANGED replaced
            /\ \A d \in D \cap DOMAIN db.dashboards : Grown(db, work, d) => Grown(db, s, d)
  PROVE  ImportInv'
<1>1. job = "import" /\ job' = "import" /\ db' = db /\ strategy' = strategy /\ work' = s
  BY DEF Importing, Take
<1>2. /\ replaced # {} => strategy = "replace"
      /\ merged # {} => strategy = "merge"
      /\ \A d \in DOMAIN db.dashboards \ replaced :
            Grown(db, work, d) /\ (d \notin merged => Kept(db, work, d))
  BY <1>1 DEF ImportInv
<1>3. (replaced' # {} => strategy = "replace") /\ (merged' # {} => strategy = "merge")
  BY <1>2
<1>4. ASSUME NEW d \in DOMAIN db.dashboards \ replaced'
      PROVE  Grown(db, s, d) /\ (d \notin merged' => Kept(db, s, d))
  <2>1. d \notin replaced /\ Grown(db, work, d) /\ (d \notin merged => Kept(db, work, d))
    BY <1>2, <1>4
  <2>2. d \in DOMAIN work.dashboards
    BY <2>1 DEF Grown
  <2>3. CASE d \notin D
    <3>1. Kept(work, s, d)
      BY <2>2, <2>3
    <3>2. Grown(db, s, d) /\ (Kept(db, work, d) => Kept(db, s, d))
      BY <2>1, <3>1, KeptGrown
    <3>3. d \notin merged' => d \notin merged
      OBVIOUS
    <3> QED  BY <2>1, <3>2, <3>3
  <2>4. CASE d \in D
    <3>1. d \in merged' /\ Grown(db, s, d)
      BY <1>4, <2>1, <2>4
    <3> QED  BY <3>1
  <2> QED  BY <2>3, <2>4
<1> QED  BY <1>1, <1>3, <1>4 DEF ImportInv, Grown, Kept, CardsOf

LEMMA ImportDashboardGrows ==
  ASSUME IInv, ImportInv, NEW layout, Placeable(layout), ImportDashboard(layout)
  PROVE  ImportInv'
<1>1. /\ Importing /\ Sound(work) /\ MaxCards \in Nat
      /\ layout.tiles \in Seq(Tile)
      /\ \A i \in 1..Len(layout.tiles) : layout.tiles[i].y >= 1
  BY ImportFinds DEF ImportDashboard, ImportSkip, ImportReplace, ImportMerge, ImportCreate,
                     Placeable, Layout
<1>2. CASE ImportSkip(layout)
  <2>1. \A e \in DOMAIN work.dashboards : Kept(work, work, e)
    BY SameIsKept
  <2>2. Take(work) /\ UNCHANGED <<replaced, merged>>
    BY <1>2 DEF ImportSkip
  <2> QED  BY <1>1, <2>1, <2>2, DraftGrows
<1>3. CASE ImportReplace(layout)
  <2>1. PICK d \in Owner(work, layout.slug) :
          Take(Replaced(work, d, layout)) /\ replaced' = replaced \cup {d}
    BY <1>3 DEF ImportReplace
  <2>2. d \in DOMAIN work.dashboards /\ Owner(work, layout.slug) \subseteq {d}
    BY <1>1 DEF Owner, Sound
  <2> DEFINE s == Replaced(work, d, layout)
  <2>3. \A e \in DOMAIN work.dashboards \ {d} : Kept(work, s, e)
    BY <1>1, <2>2, ReplacedKept
  <2>4. Take(s) /\ strategy = "replace" /\ UNCHANGED merged
    BY <1>3, <2>1 DEF ImportReplace
  <2> HIDE DEF s
  <2> QED  BY <1>1, <2>1, <2>3, <2>4, DraftGrows
<1>4. CASE ImportMerge(layout)
  <2>1. PICK d \in Owner(work, layout.slug) :
          Take(Filled(work, d, layout.tiles, Bottom(work, d))) /\ merged' = merged \cup {d}
    BY <1>4 DEF ImportMerge
  <2> DEFINE s == Filled(work, d, layout.tiles, Bottom(work, d))
  <2>2. \A e \in DOMAIN work.dashboards \ {d} : Kept(work, s, e)
    BY <1>1, FilledKept
  <2>3. Grown(db, work, d) => Grown(db, s, d)
    BY <1>1, FilledGrown
  <2>4. Take(s) /\ strategy = "merge" /\ UNCHANGED replaced
    BY <1>4, <2>1 DEF ImportMerge
  <2> HIDE DEF s
  <2> QED  BY <1>1, <2>1, <2>2, <2>3, <2>4, DraftGrows
<1>5. CASE ImportCreate(layout)
  <2>1. PICK slug \in Slugs : Owner(work, slug) = {} /\ Take(Added(work, slug, layout))
    BY <1>5 DEF ImportCreate
  <2> DEFINE s == Added(work, slug, layout)
  <2>2. work.nextDash \in DashIds /\ UNCHANGED <<replaced, merged>>
    BY <1>5 DEF ImportCreate, HasRoom
  <2>3. \A e \in DOMAIN work.dashboards : Kept(work, s, e)
    BY <1>1, <2>1, <2>2, AddedKept
  <2>4. Take(s)
    BY <2>1
  <2> HIDE DEF s
  <2> QED  BY <1>1, <2>2, <2>3, <2>4, DraftGrows
<1> QED  BY <1>2, <1>3, <1>4, <1>5 DEF ImportDashboard

LEMMA ImportStep == IInv /\ ImportInv /\ [Next]_vars => ImportInv'
<1> SUFFICES ASSUME IInv, ImportInv, [Next]_vars PROVE ImportInv'
  OBVIOUS
<1>1. CASE Crash \/ ImportFails \/ ImportCommit
  BY <1>1 DEF Crash, ImportFails, ImportCommit, TransactionOver, ImportInv
<1>2. CASE InitDb \/ EnsureAdminPassword
  <2>1. job # "import" /\ job' = job /\ UNCHANGED <<replaced, merged>>
    BY <1>2 DEF InitDb, EnsureAdminPassword, IInv, importVars
  <2> QED  BY <2>1 DEF ImportInv
<1>3. CASE (\E template \in Templates : CompleteSetup(template)) \/ SetupPassword
  BY <1>3 DEF CompleteSetup, SetupPassword, importVars, ImportInv
<1>4. CASE Administrate
  <2>1. \E s : Edit(s)
    BY <1>4 DEF Administrate, CreateDashboard, UpdateDashboard, DeleteDashboard, CreateTile, AddPluginWidget,
                UpdateTile, UpdatePositions, DeleteTile, UpdateAdminPassword
  <2> QED  BY <2>1 DEF Edit, importVars, ImportInv
<1>5. CASE \E how \in Strategies : ImportBegin(how)
  <2>1. /\ job = "none" /\ job' = "import" /\ work' = db /\ db' = db
        /\ UNCHANGED <<replaced, merged>>
    BY <1>5 DEF ImportBegin
  <2>2. replaced' = {} /\ merged' = {}
    BY <2>1 DEF ImportInv
  <2>3. \A d \in DOMAIN db.dashboards : Kept(db, db, d) /\ Grown(db, db, d)
    BY SameIsKept DEF Kept
  <2> QED  BY <2>1, <2>2, <2>3 DEF ImportInv, Kept, Grown, CardsOf
<1>6. CASE \E layout \in Incoming : ImportDashboard(Clean(layout))
  <2>1. PICK layout \in Incoming : ImportDashboard(Clean(layout))
    BY <1>6
  <2>2. Placeable(Clean(layout))
    <3>1. layout \in Document
      BY InputsAssumption
    <3> QED  BY <3>1, CleanIsPlaceable
  <2> QED  BY <2>1, <2>2, ImportDashboardGrows
<1>7. CASE UNCHANGED vars
  BY <1>7 DEF vars, importVars, ImportInv, Grown, Kept, CardsOf
<1> QED  BY <1>1, <1>2, <1>3, <1>4, <1>5, <1>6, <1>7 DEF Next

LEMMA ImportInvariance == Spec => [](IInv /\ ImportInv)
<1>1. Init => ImportInv
  BY DEF Init, ImportInv
<1> QED  BY <1>1, InitIInv, Step, ImportStep, PTL DEF Spec

-----------------------------------------------------------------------------
(* What the commit of an import leaves.                                    *)

\* no other step ends an import with another database than before it
LEMMA OnlyCommits ==
  ASSUME [Next]_vars, Committed
  PROVE  ImportCommit
<1>1. job = "import" /\ job' = "none" /\ db' # db
  BY DEF Committed
<1>2. CASE InitDb \/ EnsureAdminPassword
  BY <1>1, <1>2 DEF InitDb, EnsureAdminPassword
<1>3. CASE (\E template \in Templates : CompleteSetup(template)) \/ SetupPassword
  BY <1>1, <1>3 DEF CompleteSetup, SetupPassword
<1>4. CASE Administrate
  <2>1. \E s : Edit(s)
    BY <1>4 DEF Administrate, CreateDashboard, UpdateDashboard, DeleteDashboard, CreateTile, AddPluginWidget,
                UpdateTile, UpdatePositions, DeleteTile, UpdateAdminPassword
  <2> QED  BY <1>1, <2>1 DEF Edit
<1>5. CASE (\E how \in Strategies : ImportBegin(how)) \/ Crash \/ ImportFails
  BY <1>1, <1>5 DEF ImportBegin, Crash, ImportFails
<1>6. CASE \E layout \in Incoming : ImportDashboard(Clean(layout))
  <2>1. job' = job
    BY <1>6 DEF ImportDashboard, ImportSkip, ImportReplace, ImportMerge, ImportCreate, Take
  <2> QED  BY <1>1, <2>1
<1>7. CASE UNCHANGED vars
  BY <1>1, <1>7 DEF vars
<1> QED  BY <1>2, <1>3, <1>4, <1>5, <1>6, <1>7 DEF Next

\* from the draft to the commit
LEMMA CommittedImport ==
  ASSUME IInv, ImportInv, [Next]_vars, Committed
  PROVE  /\ \E d \in DOMAIN db'.dashboards : Defaults(db') = {d}
         /\ replaced # {} => strategy = "replace"
         /\ merged # {} => strategy = "merge"
         /\ \A d \in DOMAIN db.dashboards \ replaced :
              Grown(db, db', d) /\ (d \notin merged => Kept(db, db', d))
<1>1. ImportCommit /\ job = "import"
  BY OnlyCommits DEF Committed
<1>2. Sound(work) /\ Draft(work)
  BY <1>1 DEF IInv, ImportCommit, TypeOK
<1>3. PICK t \in WithDefault(work) : db' = [t EXCEPT !.history = t.history + 1]
  BY <1>1 DEF ImportCommit
<1>4. /\ \A e \in DOMAIN work.dashboards : Kept(work, db', e)
      /\ \E d \in DOMAIN db'.dashboards : Defaults(db') = {d}
  BY <1>2, <1>3, CommittedDraft
<1>5. /\ replaced # {} => strategy = "replace"
      /\ merged # {} => strategy = "merge"
      /\ \A d \in DOMAIN db.dashboards \ replaced :
           Grown(db, work, d) /\ (d \notin merged => Kept(db, work, d))
  BY <1>1 DEF ImportInv
<1>6. ASSUME NEW d \in DOMAIN db.dashboards \ replaced
      PROVE  Grown(db, db', d) /\ (d \notin merged => Kept(db, db', d))
  <2>1. Grown(db, work, d) /\ (d \notin merged => Kept(db, work, d))
    BY <1>5
  <2>2. Kept(work, db', d)
    BY <1>4, <2>1 DEF Grown
  <2> QED  BY <2>1, <2>2, KeptGrown
<1> QED  BY <1>4, <1>5, <1>6

(* An import does to the dashboards that exist what LAYOUT_SHARING.md says *)
(* of its strategy and nothing else, whatever the documents contain and    *)
(* however many dashboards of the same slug they hold: only "replace"      *)
(* changes names, rows or cards, of the dashboards whose slug is matched,  *)
(* and only "merge" adds cards to a dashboard (import_endpoint).           *)
THEOREM ImportsKeep == Spec => ImportKeeps
<1>1. IInv /\ ImportInv /\ [Next]_vars =>
        [Committed =>
           \A d \in DOMAIN db.dashboards \ (IF strategy = "replace" THEN replaced ELSE {}) :
             /\ d \in DOMAIN db'.dashboards
             /\ db'.dashboards[d].slug = db.dashboards[d].slug
             /\ db'.dashboards[d].rows = db.dashboards[d].rows
             /\ \A c \in CardsOf(db, d) : c \in DOMAIN db'.cards /\ db'.cards[c] = db.cards[c]
             /\ CardsOf(db', d) # CardsOf(db, d) => strategy = "merge" /\ d \in merged]_vars
  <2> SUFFICES ASSUME IInv, ImportInv, [Next]_vars, Committed,
                      NEW d \in DOMAIN db.dashboards \ (IF strategy = "replace" THEN replaced ELSE {})
               PROVE  /\ d \in DOMAIN db'.dashboards
                      /\ db'.dashboards[d].slug = db.dashboards[d].slug
                      /\ db'.dashboards[d].rows = db.dashboards[d].rows
                      /\ \A c \in CardsOf(db, d) : c \in DOMAIN db'.cards /\ db'.cards[c] = db.cards[c]
                      /\ CardsOf(db', d) # CardsOf(db, d) => strategy = "merge" /\ d \in merged
    OBVIOUS
  <2>1. d \in DOMAIN db.dashboards \ replaced
    BY CommittedImport
  <2>2. Grown(db, db', d) /\ (d \notin merged => Kept(db, db', d))
    BY <2>1, CommittedImport
  <2>3. merged # {} => strategy = "merge"
    BY CommittedImport
  <2> QED  BY <2>2, <2>3 DEF Grown, Kept
<1> QED  BY <1>1, ImportInvariance, PTL DEF Spec, ImportKeeps

(* "merge" puts the cards of a document beneath every card the dashboard   *)
(* had, whatever heights and rows the documents ask for and when several   *)
(* dashboards of one document land on the same one: _insert_tiles adds the *)
(* lowest covered row, which the cards merged before them have lowered.    *)
THEOREM MergesBelow == Spec => MergeBelow
<1>1. IInv /\ ImportInv /\ [Next]_vars =>
        [Committed =>
           \A d \in merged \cap DOMAIN db.dashboards :
             \A old \in CardsOf(db, d), new \in CardsOf(db', d) \ CardsOf(db, d) :
               db'.cards[new].row > db.cards[old].row + db.cards[old].height - 1]_vars
  <2> SUFFICES ASSUME IInv, ImportInv, [Next]_vars, Committed,
                      NEW d \in merged \cap DOMAIN db.dashboards
               PROVE  \A old \in CardsOf(db, d), new \in CardsOf(db', d) \ CardsOf(db, d) :
                        db'.cards[new].row > db.cards[old].row + db.cards[old].height - 1
    OBVIOUS
  <2>1. replaced = {}
    BY CommittedImport
  <2>2. Grown(db, db', d)
    BY <2>1, CommittedImport
  <2> QED  BY <2>2 DEF Grown
<1> QED  BY <1>1, ImportInvariance, PTL DEF Spec, MergeBelow

(* Every import ends with exactly one default dashboard, whichever rows of *)
(* its document claim to be it and whatever it replaced: Put clears the    *)
(* flag elsewhere and the last statements of import_endpoint set it when   *)
(* none is left.                                                           *)
THEOREM ImportsLeaveDefault == Spec => ImportLeavesDefault
<1>1. IInv /\ ImportInv /\ [Next]_vars =>
        [Committed => \E d \in DOMAIN db'.dashboards : Defaults(db') = {d}]_vars
  BY CommittedImport
<1> QED  BY <1>1, ImportInvariance, PTL DEF Spec, ImportLeavesDefault

-----------------------------------------------------------------------------
(* What an import makes of a dashboard of its document.  The cards of      *)
(* dashboard d are the document's: one for each, where it says and as high.*)
Lays(f, t, d, tiles) ==
  /\ f \in [1..Len(tiles) -> CardsOf(t, d)]
  /\ \A i, j \in 1..Len(tiles) : f[i] = f[j] => i = j
  /\ \A c \in CardsOf(t, d) : \E i \in 1..Len(tiles) : f[i] = c
  /\ \A i \in 1..Len(tiles) :
       t.cards[f[i]].row = tiles[i].y /\ t.cards[f[i]].height = tiles[i].height

Arrives(t, d, slug, layout) ==
  /\ d \in DOMAIN t.dashboards
  /\ t.dashboards[d] = [slug |-> slug, is_default |-> layout.is_default, rows |-> layout.rows]
  /\ \E f : Lays(f, t, d, layout.tiles)

\* an empty dashboard is filled
LEMMA FilledLays ==
  ASSUME NEW s, Sound(s), NEW d, CardsOf(s, d) = {}, NEW tiles \in Seq(Tile)
  PROVE  LET t == Filled(s, d, tiles, 0)
         IN  t.dashboards = s.dashboards /\ \E f : Lays(f, t, d, tiles)
<1> DEFINE n == Len(tiles)
           K == [c \in DOMAIN s.cards \cup (s.nextCard .. s.nextCard + n - 1) |->
                   IF c \in DOMAIN s.cards THEN s.cards[c]
                   ELSE LET x == tiles[c - s.nextCard + 1]
                        IN  [dash |-> d, row |-> x.y + 0, height |-> x.height]]
           u == [s EXCEPT !.cards = K]
           t == Filled(s, d, tiles, 0)
           f == [i \in 1..n |-> s.nextCard + i - 1]
<1>1. t = [u EXCEPT !.nextCard = s.nextCard + n]
  BY DEF Filled
<1>2. s.nextCard \in Nat /\ n \in Nat /\ IsDatabase(s)
  BY DEF Sound
<1>3. \A c \in DOMAIN s.cards : c \in Nat /\ c < s.nextCard
  BY DEF Sound, IsTable, CardIds
<1>4. ASSUME NEW i \in 1..n
      PROVE  /\ f[i] \in DOMAIN K
             /\ K[f[i]].dash = d /\ K[f[i]].row = tiles[i].y /\ K[f[i]].height = tiles[i].height
  <2>1. f[i] \in s.nextCard .. s.nextCard + n - 1 /\ f[i] - s.nextCard + 1 = i
    BY <1>2
  <2>2. f[i] \notin DOMAIN s.cards
    BY <1>2, <1>3, <2>1
  <2>3. f[i] \in DOMAIN K /\ K[f[i]] = [dash |-> d, row |-> tiles[i].y + 0, height |-> tiles[i].height]
    BY <2>1, <2>2
  <2>4. tiles[i].y + 0 = tiles[i].y
    <3>1. tiles[i] \in Tile
      OBVIOUS
    <3> QED  BY <3>1 DEF Tile
  <2> QED  BY <2>3, <2>4
<1>5. \A i, j \in 1..n : f[i] = f[j] => i = j
  BY <1>2
<1>6. ASSUME NEW c \in DOMAIN K, K[c].dash = d
      PROVE  \E i \in 1..n : f[i] = c
  <2>1. c \notin DOMAIN s.cards
    BY <1>6 DEF CardsOf
  <2>2. c \in s.nextCard .. s.nextCard + n - 1
    BY <2>1
  <2>3. c - s.nextCard + 1 \in 1..n /\ f[c - s.nextCard + 1] = c
    BY <1>2, <2>2
  <2> QED  BY <2>3
<1>7. DOMAIN f = 1..n /\ f = [i \in 1..n |-> f[i]]
  OBVIOUS
<1> HIDE DEF K, f
<1>8. IsDatabase(u) /\ u.dashboards = s.dashboards /\ u.cards = K
  BY <1>2, WriteCards
<1> HIDE DEF u, t
<1>9. t.dashboards = s.dashboards /\ t.cards = K
  BY <1>1, <1>8 DEF IsDatabase
<1>10. f \in [1..n -> CardsOf(t, d)]
  BY <1>4, <1>7, <1>9 DEF CardsOf
<1>11. Lays(f, t, d, tiles)
  BY <1>4, <1>5, <1>6, <1>9, <1>10 DEF Lays, CardsOf
<1>12. t.dashboards = s.dashboards /\ \E g : Lays(g, t, d, tiles)
  BY <1>9, <1>11
<1> QED  BY <1>12 DEF t

LEMMA ReplacedArrives ==
  ASSUME NEW s, Sound(s), NEW layout, Placeable(layout), NEW d \in Owner(s, layout.slug)
  PROVE  Arrives(Replaced(s, d, layout), d, layout.slug, layout)
<1> DEFINE row == [slug |-> layout.slug, is_default |-> layout.is_default, rows |-> layout.rows]
           C == CardsOf(s, d)
           u == DropCards(s, C)
           v == Put(u, d, row)
           t == Filled(v, d, layout.tiles, 0)
<1>1. row \in Dashboard /\ row.slug = layout.slug /\ layout.tiles \in Seq(Tile)
  BY DEF Placeable, Layout, Dashboard
<1>2. d \in DOMAIN s.dashboards /\ d \in DashIds /\ Owner(s, layout.slug) \subseteq {d}
  BY DEF Owner, Sound, IsTable
<1>3. Replaced(s, d, layout) = t
  BY DEF Replaced
<1>4. /\ Sound(u) /\ u.dashboards = s.dashboards
      /\ DOMAIN u.cards = DOMAIN s.cards \ C
      /\ \A c \in DOMAIN u.cards : u.cards[c] = s.cards[c]
  <2> HIDE DEF C
  <2> QED  BY DropCardsSound
<1>5. CardsOf(u, d) = {}
  BY <1>4 DEF CardsOf
<1> HIDE DEF C, u, row
<1>6. Owner(u, row.slug) \subseteq {d} /\ d \in DOMAIN u.dashboards
  BY <1>1, <1>2, <1>4 DEF Owner
<1>7. Sound(v) /\ DOMAIN v.dashboards = DOMAIN u.dashboards /\ v.cards = u.cards
  BY <1>1, <1>4, <1>6, PutSound
<1>8. v.dashboards[d] = row
  BY <1>1, <1>2, <1>4, <1>6, PutFacts
<1>9. CardsOf(v, d) = {}
  BY <1>5, <1>7 DEF CardsOf
<1> HIDE DEF v
<1>10. t.dashboards = v.dashboards /\ \E f : Lays(f, t, d, layout.tiles)
  BY <1>1, <1>7, <1>9, FilledLays
<1> HIDE DEF t
<1>11. Arrives(t, d, layout.slug, layout)
  BY <1>6, <1>7, <1>8, <1>10 DEF Arrives, row
<1> QED  BY <1>3, <1>11

LEMMA AddedArrives ==
  ASSUME NEW s, Sound(s), NEW slug \in Slugs, Owner(s, slug) = {}, NEW layout, Placeable(layout),
         s.nextDash \in DashIds
  PROVE  /\ s.nextDash \notin DOMAIN s.dashboards
         /\ Arrives(Added(s, slug, layout), s.nextDash, slug, layout)
<1> DEFINE d == s.nextDash
           row == [slug |-> slug, is_default |-> layout.is_default, rows |-> layout.rows]
           u == Inserted(s, row)
           t == Filled(u, d, layout.tiles, 0)
<1>1. row \in Dashboard /\ row.slug = slug /\ layout.tiles \in Seq(Tile) /\ MaxDash \in Nat
  BY StoresAssumption DEF Placeable, Layout, Dashboard
<1>2. d \notin DOMAIN s.dashboards
  <2>1. d \in Nat /\ \A e \in DOMAIN s.dashboards : e < d
    BY DEF Sound
  <2> QED  BY <2>1
<1>3. Added(s, slug, layout) = t
  BY DEF Added
<1>4. CardsOf(s, d) = {}
  BY <1>2 DEF CardsOf, Sound
<1> HIDE DEF row
<1>5. /\ Sound(u) /\ DOMAIN u.dashboards = DOMAIN s.dashboards \cup {d}
      /\ u.dashboards[d] = row /\ u.cards = s.cards
  BY <1>1, InsertedSound
<1> HIDE DEF u
<1>6. CardsOf(u, d) = {}
  BY <1>4, <1>5 DEF CardsOf
<1>7. t.dashboards = u.dashboards /\ \E f : Lays(f, t, d, layout.tiles)
  BY <1>1, <1>5, <1>6, FilledLays
<1> HIDE DEF t
<1>8. Arrives(t, d, slug, layout)
  BY <1>5, <1>7 DEF Arrives, row
<1> QED  BY <1>2, <1>3, <1>8

(* A dashboard of a document that replaces one or is new arrives whole and *)
(* brings nothing else: it has the document's rows and flag, and its cards *)
(* are one for each of the document's, with none left of those it replaces *)
(* (the "replace" and the last branch of import_endpoint's loop).          *)
DashboardsArrive ==
  [][\A layout \in Incoming :
       /\ ImportReplace(Clean(layout)) =>
            \E d \in Owner(work, Clean(layout).slug) :
              Arrives(work', d, Clean(layout).slug, Clean(layout))
       /\ ImportCreate(Clean(layout)) =>
            \E d \in DashIds \ DOMAIN work.dashboards, slug \in Slugs :
              Arrives(work', d, slug, Clean(layout))]_vars

(* What an import restores does not depend on what it finds: the step of   *)
(* ExportRestores that holds of every database and every document.         *)
THEOREM ImportsArriveWhole == Spec => DashboardsArrive
<1>1. ASSUME IInv, NEW layout \in Incoming, ImportReplace(Clean(layout))
      PROVE  \E d \in Owner(work, Clean(layout).slug) :
               Arrives(work', d, Clean(layout).slug, Clean(layout))
  <2> DEFINE x == Clean(layout)
  <2>1. Placeable(x)
    <3>1. layout \in Document
      BY InputsAssumption
    <3> QED  BY <3>1, CleanIsPlaceable
  <2> HIDE DEF x
  <2>2. PICK d \in Owner(work, x.slug) : work' = Replaced(work, d, x)
    BY <1>1 DEF ImportReplace, Take, x
  <2>3. Sound(work)
    BY <1>1, ImportFinds DEF ImportReplace
  <2>4. Arrives(work', d, x.slug, x)
    BY <2>1, <2>2, <2>3, ReplacedArrives
  <2> QED  BY <2>2, <2>4 DEF x
<1>2. ASSUME IInv, NEW layout \in Incoming, ImportCreate(Clean(layout))
      PROVE  \E d \in DashIds \ DOMAIN work.dashboards, slug \in Slugs :
               Arrives(work', d, slug, Clean(layout))
  <2> DEFINE x == Clean(layout)
  <2>1. Placeable(x)
    <3>1. layout \in Document
      BY InputsAssumption
    <3> QED  BY <3>1, CleanIsPlaceable
  <2> HIDE DEF x
  <2>2. PICK slug \in Slugs : Owner(work, slug) = {} /\ work' = Added(work, slug, x)
    BY <1>2 DEF ImportCreate, Take, x
  <2>3. Sound(work)
    BY <1>2, ImportFinds DEF ImportCreate
  <2>4. work.nextDash \in DashIds
    BY <1>2 DEF ImportCreate, HasRoom
  <2>5. work.nextDash \notin DOMAIN work.dashboards /\ Arrives(work', work.nextDash, slug, x)
    BY <2>1, <2>2, <2>3, <2>4, AddedArrives
  <2> QED  BY <2>4, <2>5 DEF x
<1>3. IInv =>
        [\A layout \in Incoming :
           /\ ImportReplace(Clean(layout)) =>
                \E d \in Owner(work, Clean(layout).slug) :
                  Arrives(work', d, Clean(layout).slug, Clean(layout))
           /\ ImportCreate(Clean(layout)) =>
                \E d \in DashIds \ DOMAIN work.dashboards, slug \in Slugs :
                  Arrives(work', d, slug, Clean(layout))]_vars
  BY <1>1, <1>2
<1> QED  BY <1>3, Invariance, PTL DEF DashboardsArrive
=============================================================================
