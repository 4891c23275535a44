--------------------------- MODULE LayoutExportProofs ---------------------------
(***************************************************************************)
(* What is exported is restored: an import with "replace" of the document  *)
(* made of a database brings its dashboards back, whatever was in the way. *)
(***************************************************************************)
EXTENDS LayoutExport, LayoutStoreProofs, FunctionTheorems

-----------------------------------------------------------------------------
(* Orders.                                                                 *)

(* The members of a finite set can be put in order.                        *)
LEMMA OrderExists ==
  ASSUME NEW T, IsFiniteSet(T), NEW R,
         \A a \in T : <<a, a>> \notin R,
         \A a, b \in T : a = b \/ <<a, b>> \in R \/ <<b, a>> \in R,
         \A a, b, c \in T : <<a, b>> \in R /\ <<b, c>> \in R => <<a, c>> \in R
  PROVE  \E f \in [1..Cardinality(T) -> T] :
           \A i, j \in 1..Cardinality(T) : i < j => <<f[i], f[j]>> \in R
<1> DEFINE n == Cardinality(T)
           UpTo(a) == {b \in T : b = a \/ <<b, a>> \in R}
           rank == [a \in T |-> Cardinality(UpTo(a))]
<1>1. n \in Nat
  BY FS_CardinalityType
<1>2. \A a \in T : UpTo(a) \in SUBSET T /\ IsFiniteSet(UpTo(a)) /\ rank[a] \in 1..n
  <2> TAKE a \in T
  <2>1. UpTo(a) \in SUBSET T /\ a \in UpTo(a)
    OBVIOUS
  <2> HIDE DEF UpTo
  <2>2. IsFiniteSet(UpTo(a)) /\ Cardinality(UpTo(a)) <= n
    BY <2>1, FS_Subset
  <2>3. Cardinality(UpTo(a)) \in Nat
    BY <2>2, FS_CardinalityType
  <2>4. Cardinality(UpTo(a)) # 0
    BY <2>1, <2>2, FS_EmptySet
  <2> QED  BY <1>1, <2>1, <2>2, <2>3, <2>4
<1>3. ASSUME NEW a \in T, NEW b \in T, <<a, b>> \in R
      PROVE  rank[a] < rank[b]
  <2>1. UpTo(a) \subseteq UpTo(b) /\ b \in UpTo(b) /\ b \notin UpTo(a)
    BY <1>3
  <2>2. UpTo(a) \in SUBSET UpTo(b) /\ UpTo(a) # UpTo(b) /\ IsFiniteSet(UpTo(b))
    BY <1>2, <2>1
  <2>3. rank[a] = Cardinality(UpTo(a)) /\ rank[b] = Cardinality(UpTo(b))
    OBVIOUS
  <2> HIDE DEF UpTo, rank, n
  <2>4. rank[a] \in 1..n /\ rank[b] \in 1..n
    BY <1>2
  <2>5. rank[a] <= rank[b] /\ rank[a] # rank[b]
    BY <2>2, <2>3, FS_Subset
  <2> QED  BY <1>1, <2>4, <2>5
<1> HIDE DEF rank
<1>4. rank \in [T -> 1..n]
  BY <1>2 DEF rank
<1>5. \A a, b \in T : rank[a] = rank[b] => a = b
  <2> SUFFICES ASSUME NEW a \in T, NEW b \in T, rank[a] = rank[b], a # b PROVE FALSE
    OBVIOUS
  <2>1. rank[a] \in Nat /\ rank[b] \in Nat
    BY <1>1, <1>4
  <2>2. CASE <<a, b>> \in R
    BY <1>3, <2>1, <2>2
  <2>3. CASE <<b, a>> \in R
    BY <1>3, <2>1, <2>3
  <2> QED  BY <2>2, <2>3
<1>6. \A i \in 1..n : \E a \in T : rank[a] = i
  <2>1. rank \in Injection(T, 1..n)
    BY <1>4, <1>5, Fun_IsInj
  <2>2. IsFiniteSet(1..n) /\ Cardinality(1..n) = n
    BY <1>1, FS_Interval
  <2>3. rank \in Surjection(T, 1..n)
    BY <2>1, <2>2, FS_Injection
  <2> QED  BY <2>3, Fun_SurjectionProperties
<1> DEFINE f == [i \in 1..n |-> CHOOSE a \in T : rank[a] = i]
<1>7. \A i \in 1..n : f[i] \in T /\ rank[f[i]] = i
  BY <1>6
<1>8. f \in [1..n -> T]
  BY <1>7
<1>9. ASSUME NEW i \in 1..n, NEW j \in 1..n, i < j
      PROVE  <<f[i], f[j]>> \in R
  <2>1. f[i] \in T /\ f[j] \in T /\ rank[f[i]] = i /\ rank[f[j]] = j
    BY <1>7
  <2> HIDE DEF f
  <2>2. f[i] # f[j] /\ ~(<<f[j], f[i]>> \in R)
    BY <1>1, <1>3, <1>9, <2>1
  <2> QED  BY <2>1, <2>2
<1> HIDE DEF f
<1> QED  BY <1>8, <1>9

(* What is in order is there, and once.                                    *)
Ordered(f, T, R) ==
  /\ f \in [1..Cardinality(T) -> T]
  /\ \A i, j \in 1..Cardinality(T) : i < j => <<f[i], f[j]>> \in R

Enumerates(f, T) ==
  /\ f \in [1..Cardinality(T) -> T]
  /\ \A i, j \in 1..Cardinality(T) : f[i] = f[j] => i = j
  /\ \A a \in T : \E i \in 1..Cardinality(T) : f[i] = a

LEMMA OrderEnumerates ==
  ASSUME NEW T, IsFiniteSet(T), NEW R, \A a \in T : <<a, a>> \notin R, NEW f, Ordered(f, T, R)
  PROVE  Enumerates(f, T)
<1> DEFINE n == Cardinality(T)
<1>1. n \in Nat /\ IsFiniteSet(1..n) /\ Cardinality(1..n) = n
  <2>1. n \in Nat
    BY FS_CardinalityType
  <2> QED  BY <2>1, FS_Interval
<1>2. \A i, j \in 1..n : f[i] = f[j] => i = j
  <2> SUFFICES ASSUME NEW i \in 1..n, NEW j \in 1..n, f[i] = f[j], i # j PROVE FALSE
    OBVIOUS
  <2>1. i < j \/ j < i
    BY <1>1
  <2>2. f[i] \in T /\ <<f[i], f[i]>> \in R
    BY <2>1 DEF Ordered
  <2> QED  BY <2>2
<1>3. f \in Injection(1..n, T)
  BY <1>2, Fun_IsInj DEF Ordered
<1>4. f \in Surjection(1..n, T)
  BY <1>1, <1>3, FS_Injection
<1>5. \A a \in T : \E i \in 1..n : f[i] = a
  BY <1>4 DEF Surjection
<1> QED  BY <1>2, <1>5 DEF Enumerates, Ordered

(* What a query returns is every row it selects, once.                     *)
LEMMA InOrderEnumerates ==
  ASSUME NEW T, IsFiniteSet(T), NEW R,
         \A a \in T : <<a, a>> \notin R,
         \A a, b \in T : a = b \/ <<a, b>> \in R \/ <<b, a>> \in R,
         \A a, b, c \in T : <<a, b>> \in R /\ <<b, c>> \in R => <<a, c>> \in R
  PROVE  Enumerates(InOrder(T, R), T)
<1>1. \E f : Ordered(f, T, R)
  BY OrderExists DEF Ordered
<1>2. InOrder(T, R) = CHOOSE f \in [1..Cardinality(T) -> T] :
                        \A i, j \in 1..Cardinality(T) : i < j => <<f[i], f[j]>> \in R
  BY DEF InOrder
<1>3. Ordered(InOrder(T, R), T, R)
  BY <1>1, <1>2 DEF Ordered
<1> QED  BY <1>3, OrderEnumerates

(* The cards of a dashboard and the dashboards are exported, each once.    *)
LEMMA CardsInOrder ==
  ASSUME NEW s, NEW d, IsFiniteSet(CardsOf(s, d)), CardsOf(s, d) \subseteq Nat,
         \A c \in CardsOf(s, d) : s.cards[c].row \in Nat
  PROVE  Enumerates(CardOrder(s, d), CardsOf(s, d))
<1> DEFINE T == CardsOf(s, d)
           R == {p \in T \X T : \/ s.cards[p[1]].row < s.cards[p[2]].row
                                \/ s.cards[p[1]].row = s.cards[p[2]].row /\ p[1] < p[2]}
<1>1. \A a, b \in T : <<a, b>> \in R <=> \/ s.cards[a].row < s.cards[b].row
                                         \/ s.cards[a].row = s.cards[b].row /\ a < b
  OBVIOUS
<1>2. /\ \A a \in T : <<a, a>> \notin R
      /\ \A a, b \in T : a = b \/ <<a, b>> \in R \/ <<b, a>> \in R
      /\ \A a, b, c \in T : <<a, b>> \in R /\ <<b, c>> \in R => <<a, c>> \in R
  <2>1. \A a \in T : a \in Nat /\ s.cards[a].row \in Nat
    OBVIOUS
  <2> HIDE DEF T, R
  <2> QED  BY <1>1, <2>1
<1>3. CardOrder(s, d) = InOrder(T, R)
  BY DEF CardOrder
<1>4. IsFiniteSet(T)
  OBVIOUS
<1> HIDE DEF R
<1>5. Enumerates(InOrder(T, R), T)
  <2> HIDE DEF T
  <2> QED  BY <1>2, <1>4, InOrderEnumerates
<1> QED  BY <1>3, <1>5

LEMMA DashboardsInOrder ==
  ASSUME NEW s, IsFiniteSet(DOMAIN s.dashboards), DOMAIN s.dashboards \subseteq Nat
  PROVE  Enumerates(DashboardOrder(s), DOMAIN s.dashboards)
<1> DEFINE T == DOMAIN s.dashboards
           R == {p \in T \X T : p[1] < p[2]}
<1>1. \A a, b \in T : <<a, b>> \in R <=> a < b
  OBVIOUS
<1>2. DashboardOrder(s) = InOrder(T, R)
  BY DEF DashboardOrder
<1>3. T \subseteq Nat /\ IsFiniteSet(T)
  OBVIOUS
<1> HIDE DEF T, R
<1>4. /\ \A a \in T : <<a, a>> \notin R
      /\ \A a, b \in T : a = b \/ <<a, b>> \in R \/ <<b, a>> \in R
      /\ \A a, b, c \in T : <<a, b>> \in R /\ <<b, c>> \in R => <<a, c>> \in R
  BY <1>1, <1>3
<1>5. Enumerates(InOrder(T, R), T)
  BY <1>3, <1>4, InOrderEnumerates
<1> QED  BY <1>2, <1>5 DEF T

-----------------------------------------------------------------------------
(* What the statements do to a database of any size: an import of the      *)
(* whole document is not bound by MaxDash and MaxCards.                    *)

Formed(s) ==
  /\ IsDatabase(s)
  /\ s.nextDash \in Nat
  /\ s.nextCard \in Nat
  /\ \A d \in DOMAIN s.dashboards : s.dashboards[d] \in Dashboard /\ d \in Nat /\ d < s.nextDash
  /\ \A c \in DOMAIN s.cards : c \in Nat /\ c < s.nextCard /\ s.cards[c].dash \in DOMAIN s.dashboards

LEMMA SoundIsFormed ==
  ASSUME NEW s, Sound(s)
  PROVE  Formed(s)
BY StoresAssumption DEF Sound, Formed, IsTable, DashIds, CardIds

(* Dashboard d is written with row; the others keep theirs, but for the    *)
(* flag when row is the default.                                           *)
Writes(s, t, d, row) ==
  /\ DOMAIN t.dashboards = DOMAIN s.dashboards \cup {d}
  /\ t.dashboards[d] = row
  /\ \A e \in DOMAIN s.dashboards \ {d} :
       /\ t.dashboards[e] \in Dashboard
       /\ t.dashboards[e].slug = s.dashboards[e].slug
       /\ t.dashboards[e].rows = s.dashboards[e].rows
       /\ t.dashboards[e].is_default => s.dashboards[e].is_default /\ ~row.is_default
       /\ s.dashboards[e].is_default /\ ~row.is_default => t.dashboards[e].is_default

LEMMA PutWrites ==
  ASSUME NEW s, Formed(s), NEW d, NEW row
  PROVE  LET t == Put(s, d, row)
         IN  /\ IsDatabase(t)
             /\ Writes(s, t, d, row)
             /\ t.cards = s.cards
             /\ t.nextDash = s.nextDash
             /\ t.nextCard = s.nextCard
<1> DEFINE C == ClearedExcept(s, d)
           D == [e \in DOMAIN s.dashboards |->
                   IF e = d THEN s.dashboards[e]
                   ELSE [s.dashboards[e] EXCEPT !.is_default = FALSE]]
           rest == IF row.is_default THEN C ELSE s
           T == [e \in DOMAIN s.dashboards \cup {d} |->
                   IF e = d THEN row ELSE rest.dashboards[e]]
           t == Put(s, d, row)
<1>1. IsDatabase(s) /\ \A e \in DOMAIN s.dashboards : s.dashboards[e] \in Dashboard
  BY DEF Formed
<1>2. C.dashboards = D
  BY <1>1, WriteDashboards DEF ClearedExcept
<1>3. \A e \in DOMAIN s.dashboards : e # d => D[e] = [s.dashboards[e] EXCEPT !.is_default = FALSE]
  OBVIOUS
<1>4. \A e \in DOMAIN s.dashboards : e # d =>
        /\ D[e] \in Dashboard
        /\ D[e].slug = s.dashboards[e].slug
        /\ D[e].rows = s.dashboards[e].rows
        /\ D[e].is_default = FALSE
  BY <1>1, <1>3 DEF Dashboard
<1>5. t = [s EXCEPT !.dashboards = T]
  BY DEF Put
<1>6. /\ IsDatabase(t)
      /\ t.dashboards = T
      /\ t.cards = s.cards
      /\ t.nextDash = s.nextDash
      /\ t.nextCard = s.nextCard
  <2> HIDE DEF T, t
  <2> QED  BY <1>1, <1>5, WriteDashboards
<1>7. \A e \in DOMAIN s.dashboards : e # d =>
        /\ T[e] \in Dashboard
        /\ T[e].slug = s.dashboards[e].slug
        /\ T[e].rows = s.dashboards[e].rows
        /\ T[e].is_default => s.dashboards[e].is_default /\ ~row.is_default
        /\ s.dashboards[e].is_default /\ ~row.is_default => T[e].is_default
  <2> TAKE e \in DOMAIN s.dashboards
  <2> HAVE e # d
  <2>1. T[e] = rest.dashboards[e]
    OBVIOUS
  <2>2. CASE row.is_default
    BY <1>2, <1>4, <2>1, <2>2
  <2>3. CASE ~row.is_default
    BY <1>1, <2>1, <2>3
  <2> QED  BY <2>2, <2>3
<1>8. T[d] = row /\ DOMAIN T = DOMAIN s.dashboards \cup {d}
  OBVIOUS
<1> HIDE DEF T, t
<1>9. Writes(s, t, d, row)
  BY <1>6, <1>7, <1>8 DEF Writes
<1> QED  BY <1>6, <1>9 DEF t

(* The cards of dashboard d are tiles now; every other card is as it was.  *)
Redealt(s, t, d, tiles) ==
  /\ \E f : Lays(f, t, d, tiles)
  /\ \A c \in DOMAIN s.cards : s.cards[c].dash # d => c \in DOMAIN t.cards /\ t.cards[c] = s.cards[c]
  /\ \A c \in DOMAIN t.cards : t.cards[c].dash # d => c \in DOMAIN s.cards /\ t.cards[c] = s.cards[c]

LEMMA FilledDeals ==
  ASSUME NEW s, Formed(s), NEW d \in DOMAIN s.dashboards, CardsOf(s, d) = {}, NEW tiles \in Seq(Tile)
  PROVE  LET t == Filled(s, d, tiles, 0)
         IN  /\ Formed(t)
             /\ t.dashboards = s.dashboards
             /\ t.nextDash = s.nextDash
             /\ Redealt(s, t, d, tiles)
<1> DEFINE n == Len(tiles)
           K == [c \in DOMAIN s.cards \cup (s.nextCard .. s.nextCard + n - 1) |->
                   IF c \in DOMAIN s.cards THEN s.cards[c]
                   ELSE LET x == tiles[c - s.nextCard + 1]
                        IN  [dash |-> d, row |-> x.y + 0, height |-> x.height]]
           u == [s EXCEPT !.cards = K]
           t == Filled(s, d, tiles, 0)
           f == [i \in 1..n |-> s.nextCard + i - 1]
<1>1. t = [u EXCEPT !.nextCard = s.nextCard + n]
  BY DEF Filled
<1>2. s.nextCard \in Nat /\ n \in Nat /\ IsDatabase(s)
  BY DEF Formed
<1>3. \A c \in DOMAIN s.cards : c \in Nat /\ c < s.nextCard /\ s.cards[c].dash \in DOMAIN s.dashboards
  BY DEF Formed
<1>4. ASSUME NEW i \in 1..n
      PROVE  /\ f[i] \in DOMAIN K
             /\ K[f[i]].dash = d /\ K[f[i]].row = tiles[i].y /\ K[f[i]].height = tiles[i].height
  <2>1. f[i] \in s.nextCard .. s.nextCard + n - 1 /\ f[i] - s.nextCard + 1 = i
    BY <1>2
  <2>2. f[i] \notin DOMAIN s.cards
    BY <1>2, <1>3, <2>1
  <2>3. f[i] \in DOMAIN K /\ K[f[i]] = [dash |-> d, row |-> tiles[i].y + 0, height |-> tiles[i].height]
    BY <2>1, <2>2
  <2>4. tiles[i].y + 0 = tiles[i].y
    <3>1. tiles[i] \in Tile
      OBVIOUS
    <3> QED  BY <3>1 DEF Tile
  <2> QED  BY <2>3, <2>4
<1>5. \A i, j \in 1..n : f[i] = f[j] => i = j
  BY <1>2
<1>6. \A c \in DOMAIN s.cards : c \in DOMAIN K /\ K[c] = s.cards[c]
  OBVIOUS
<1>7. ASSUME NEW c \in DOMAIN K, c \notin DOMAIN s.cards
      PROVE  \E i \in 1..n : f[i] = c
  <2>1. c \in s.nextCard .. s.nextCard + n - 1
    BY <1>7
  <2>2. c - s.nextCard + 1 \in 1..n /\ f[c - s.nextCard + 1] = c
    BY <1>2, <2>1
  <2> QED  BY <2>2
<1>8. \A c \in DOMAIN K : c \in Nat /\ c < s.nextCard + n
  BY <1>2, <1>3
<1>9. DOMAIN f = 1..n /\ f = [i \in 1..n |-> f[i]]
  OBVIOUS
<1> HIDE DEF K, f
<1>10. \A c \in DOMAIN K : c \notin DOMAIN s.cards => K[c].dash = d
  BY <1>4, <1>7
<1>11. IsDatabase(u) /\ u.dashboards = s.dashboards /\ u.cards = K /\ u.nextDash = s.nextDash
  BY <1>2 DEF IsDatabase
<1> HIDE DEF u, t
<1>12. /\ IsDatabase(t)
       /\ t.dashboards = s.dashboards
       /\ t.cards = K
       /\ t.nextDash = s.nextDash
       /\ t.nextCard = s.nextCard + n
  BY <1>1, <1>11 DEF IsDatabase
<1>13. Formed(t)
  <2>1. s.nextCard + n \in Nat
    BY <1>2
  <2>2. \A c \in DOMAIN K : K[c].dash \in DOMAIN s.dashboards
    BY <1>3, <1>6, <1>10
  <2> QED  BY <1>8, <1>12, <2>1, <2>2 DEF Formed
<1>14. \A c \in DOMAIN s.cards : s.cards[c].dash # d
  BY DEF CardsOf
<1>15. Lays(f, t, d, tiles)
  <2>1. f \in [1..n -> CardsOf(t, d)]
    BY <1>4, <1>9, <1>12 DEF CardsOf
  <2>2. \A c \in CardsOf(t, d) : \E i \in 1..n : f[i] = c
    BY <1>6, <1>7, <1>12, <1>14 DEF CardsOf
  <2> QED  BY <1>4, <1>5, <1>12, <2>1, <2>2 DEF Lays
<1>16. Redealt(s, t, d, tiles)
  BY <1>6, <1>10, <1>12, <1>15 DEF Redealt
<1> QED  BY <1>12, <1>13, <1>16 DEF t

(* A dashboard of the document comes to s as e, by either way.             *)
RowOf(layout) == [slug |-> layout.slug, is_default |-> layout.is_default, rows |-> layout.rows]

Comes(s, t, e, layout) ==
  /\ Formed(t)
  /\ e \in DOMAIN s.dashboards => s.dashboards[e].slug = layout.slug
  /\ Writes(s, t, e, RowOf(layout))
  /\ Redealt(s, t, e, layout.tiles)

LEMMA LayoutRow ==
  ASSUME NEW layout \in Layout
  PROVE  RowOf(layout) \in Dashboard /\ layout.tiles \in Seq(Tile)
BY DEF Layout, RowOf, Dashboard

LEMMA AddedComes ==
  ASSUME NEW s, Formed(s), NEW layout \in Layout
  PROVE  Comes(s, Added(s, layout.slug, layout), s.nextDash, layout)
<1> DEFINE d == s.nextDash
           row == RowOf(layout)
           p == Put(s, d, row)
           u == Inserted(s, row)
           t == Filled(u, d, layout.tiles, 0)
<1>1. row \in Dashboard /\ layout.tiles \in Seq(Tile)
  BY LayoutRow
<1>2. d \in Nat /\ d \notin DOMAIN s.dashboards
  BY DEF Formed
<1>3. Added(s, layout.slug, layout) = t
  BY DEF Added, RowOf
<1>4. u = [p EXCEPT !.nextDash = d + 1]
  BY DEF Inserted
<1> HIDE DEF row
<1>5. /\ IsDatabase(p) /\ Writes(s, p, d, row) /\ p.cards = s.cards
      /\ p.nextDash = s.nextDash /\ p.nextCard = s.nextCard
  BY PutWrites
<1> HIDE DEF p, u
<1>6. /\ IsDatabase(u) /\ u.dashboards = p.dashboards /\ u.cards = s.cards
      /\ u.nextDash = d + 1 /\ u.nextCard = s.nextCard
  BY <1>4, <1>5 DEF IsDatabase
<1>7. /\ DOMAIN u.dashboards = DOMAIN s.dashboards \cup {d}
      /\ \A e \in DOMAIN u.dashboards : u.dashboards[e] \in Dashboard
  BY <1>1, <1>5, <1>6 DEF Writes
<1>8. \A e \in DOMAIN u.dashboards : e \in Nat /\ e < d + 1
  <2> TAKE e \in DOMAIN u.dashboards
  <2>1. CASE e = d
    BY <1>2, <2>1
  <2>2. CASE e \in DOMAIN s.dashboards
    <3>1. e \in Nat /\ e < d
      BY <2>2 DEF Formed
    <3> QED  BY <1>2, <3>1
  <2> QED  BY <1>7, <2>1, <2>2
<1>9. Formed(u)
  <2>1. d + 1 \in Nat
    BY <1>2
  <2>2. \A c \in DOMAIN u.cards :
          c \in Nat /\ c < u.nextCard /\ u.cards[c].dash \in DOMAIN u.dashboards
    BY <1>6, <1>7 DEF Formed
  <2>3. u.nextCard \in Nat
    BY <1>6 DEF Formed
  <2> HIDE DEF d
  <2> QED  BY <1>6, <1>7, <1>8, <2>1, <2>2, <2>3 DEF Formed
<1>10. CardsOf(u, d) = {}
  BY <1>2, <1>6 DEF Formed, CardsOf
<1>11. /\ Formed(t)
       /\ t.dashboards = u.dashboards
       /\ Redealt(u, t, d, layout.tiles)
  <2> HIDE DEF d
  <2>1. d \in DOMAIN u.dashboards
    BY <1>7
  <2> QED  BY <1>1, <1>9, <1>10, <2>1, FilledDeals
<1> HIDE DEF t
<1>12. Writes(s, t, d, row)
  BY <1>5, <1>6, <1>11 DEF Writes
<1>13. Redealt(s, t, d, layout.tiles)
  BY <1>6, <1>11 DEF Redealt
<1>14. Comes(s, t, d, layout)
  BY <1>2, <1>11, <1>12, <1>13 DEF Comes, row
<1> QED  BY <1>3, <1>14

LEMMA ReplacedComes ==
  ASSUME NEW s, Formed(s), NEW layout \in Layout, NEW d \in Owner(s, layout.slug)
  PROVE  Comes(s, Replaced(s, d, layout), d, layout)
<1> DEFINE row == RowOf(layout)
           C == CardsOf(s, d)
           K == [c \in DOMAIN s.cards \ C |-> s.cards[c]]
           u == DropCards(s, C)
           v == Put(u, d, row)
           t == Filled(v, d, layout.tiles, 0)
<1>1. row \in Dashboard /\ layout.tiles \in Seq(Tile)
  BY LayoutRow
<1>2. d \in DOMAIN s.dashboards /\ s.dashboards[d].slug = layout.slug
  BY DEF Owner
<1>3. Replaced(s, d, layout) = t
  BY DEF Replaced, RowOf
<1>4. u = [s EXCEPT !.cards = K]
  BY DEF DropCards
<1>5. DOMAIN K = DOMAIN s.cards \ C /\ \A c \in DOMAIN K : K[c] = s.cards[c]
  OBVIOUS
<1>6. \A c \in DOMAIN s.cards : c \in C <=> s.cards[c].dash = d
  BY DEF CardsOf
<1> HIDE DEF row, C, K, u
<1>7. /\ IsDatabase(u) /\ u.dashboards = s.dashboards /\ u.cards = K
      /\ u.nextDash = s.nextDash /\ u.nextCard = s.nextCard
  BY <1>4 DEF Formed, IsDatabase
<1>8. Formed(u)
  BY <1>5, <1>7 DEF Formed
<1>9. /\ IsDatabase(v) /\ Writes(u, v, d, row) /\ v.cards = u.cards
      /\ v.nextDash = u.nextDash /\ v.nextCard = u.nextCard
  BY <1>8, PutWrites
<1> HIDE DEF v
<1>10. /\ DOMAIN v.dashboards = DOMAIN s.dashboards
       /\ \A e \in DOMAIN v.dashboards : v.dashboards[e] \in Dashboard
  BY <1>1, <1>2, <1>7, <1>9 DEF Writes
<1>11. Formed(v)
  BY <1>7, <1>8, <1>9, <1>10 DEF Formed
<1>12. CardsOf(v, d) = {}
  BY <1>5, <1>6, <1>7, <1>9 DEF CardsOf
<1>13. /\ Formed(t)
       /\ t.dashboards = v.dashboards
       /\ Redealt(v, t, d, layout.tiles)
  BY <1>1, <1>2, <1>10, <1>11, <1>12, FilledDeals
<1> HIDE DEF t
<1>14. Writes(s, t, d, row)
  BY <1>7, <1>9, <1>13 DEF Writes
<1>15. Redealt(s, t, d, layout.tiles)
  BY <1>5, <1>6, <1>7, <1>9, <1>13 DEF Redealt
<1>16. Comes(s, t, d, layout)
  BY <1>2, <1>13, <1>14, <1>15 DEF Comes, row
<1> QED  BY <1>3, <1>16

LEMMA ImportedComes ==
  ASSUME NEW s, Formed(s), NEW layout \in Layout
  PROVE  \E e : Comes(s, Imported(s, layout), e, layout)
<1>1. CASE Owner(s, layout.slug) = {}
  BY <1>1, AddedComes DEF Imported
<1>2. CASE Owner(s, layout.slug) # {}
  <2> DEFINE d == CHOOSE d \in Owner(s, layout.slug) : TRUE
  <2>1. d \in Owner(s, layout.slug)
    BY <1>2
  <2>2. Imported(s, layout) = Replaced(s, d, layout)
    BY <1>2 DEF Imported
  <2> HIDE DEF d
  <2> QED  BY <2>1, <2>2, ReplacedComes
<1> QED  BY <1>1, <1>2

-----------------------------------------------------------------------------
(* One dashboard after the other: the function Restored defines by         *)
(* recursion exists, because it does up to every dashboard of the document.*)
RunsTo(h, s, document, m) ==
  h = [n \in 0..m |-> IF n = 0 THEN s ELSE Imported(h[n - 1], Clean(document[n]))]

LEMMA RunExists ==
  ASSUME NEW s, NEW document, NEW m \in Nat
  PROVE  \E h : RunsTo(h, s, document, m)
<1> DEFINE Stuck == {k \in Nat : ~ \E h : RunsTo(h, s, document, k)}
<1>1. SUFFICES ASSUME Stuck # {} PROVE FALSE
  OBVIOUS
<1>2. PICK k \in Stuck : \A j \in Stuck : k <= j
  <2>1. Stuck \subseteq Nat
    OBVIOUS
  <2> HIDE DEF Stuck
  <2> QED  BY <1>1, <2>1, LeastNatural
<1>3. k \in Nat /\ ~ \E h : RunsTo(h, s, document, k)
  OBVIOUS
<1>4. k # 0
  <2> DEFINE h == [n \in 0..0 |-> s]
  <2>1. \A n \in 0..0 : n = 0
    OBVIOUS
  <2>2. h = [n \in 0..0 |-> IF n = 0 THEN s ELSE Imported(h[n - 1], Clean(document[n]))]
    BY <2>1
  <2>3. RunsTo(h, s, document, 0)
    BY <2>2 DEF RunsTo
  <2> QED  BY <1>3, <2>3
<1>5. k - 1 \in Nat /\ k - 1 \notin Stuck
  <2>1. k - 1 \in Nat /\ ~(k <= k - 1)
    BY <1>3, <1>4
  <2> HIDE DEF Stuck
  <2> QED  BY <1>2, <2>1
<1>6. PICK h : RunsTo(h, s, document, k - 1)
  BY <1>5
<1> DEFINE j == k - 1
           F(x, n) == Imported(x, Clean(document[n]))
           g == [n \in 0..k |-> IF n = k THEN F(h[j], k) ELSE h[n]]
<1>7. j \in Nat /\ k = j + 1
  BY <1>3, <1>5
<1>8. \A n \in 0..j : h[n] = IF n = 0 THEN s ELSE F(h[n - 1], n)
  BY <1>6 DEF RunsTo
<1> HIDE DEF F, j
<1>9. \A n \in 0..k : g[n] = IF n = 0 THEN s ELSE F(g[n - 1], n)
  <2> TAKE n \in 0..k
  <2>1. CASE n = k
    <3>1. g[n] = F(h[j], n) /\ n # 0
      BY <1>4, <2>1
    <3>2. n - 1 = j /\ j \in 0..k /\ j # k
      BY <1>3, <1>7, <2>1
    <3>3. g[j] = h[j]
      BY <3>2
    <3> HIDE DEF g
    <3> QED  BY <3>1, <3>2, <3>3
  <2>2. CASE n # k
    <3>1. n \in 0..j
      BY <1>3, <1>7, <2>2
    <3>2. g[n] = h[n]
      BY <2>2
    <3>3. n # 0 => n - 1 \in 0..k /\ n - 1 # k
      BY <1>3, <1>7, <3>1
    <3>4. n # 0 => g[n - 1] = h[n - 1]
      BY <3>3
    <3> HIDE DEF g
    <3> QED  BY <1>8, <3>1, <3>2, <3>4
  <2> QED  BY <2>1, <2>2
<1>10. DOMAIN g = 0..k /\ g = [n \in 0..k |-> g[n]]
  OBVIOUS
<1> HIDE DEF g
<1>11. g = [n \in 0..k |-> IF n = 0 THEN s ELSE F(g[n - 1], n)]
  BY <1>9, <1>10
<1>12. RunsTo(g, s, document, k)
  BY <1>11 DEF RunsTo, F
<1> QED  BY <1>3, <1>12

LEMMA RestoredRuns ==
  ASSUME NEW s, NEW document, Len(document) \in Nat
  PROVE  \E h : /\ h[0] = s
                /\ \A n \in 1..Len(document) : h[n] = Imported(h[n - 1], Clean(document[n]))
                /\ Restored(s, document) = WithDefault(h[Len(document)])
<1> DEFINE m == Len(document)
           h == CHOOSE h : RunsTo(h, s, document, m)
<1>1. Restored(s, document) = WithDefault(h[m])
  BY DEF Restored, RunsTo
<1>2. RunsTo(h, s, document, m)
  <2> HIDE DEF m
  <2>1. m \in Nat
    BY DEF m
  <2>2. \E g : RunsTo(g, s, document, m)
    BY <2>1, RunExists
  <2> QED  BY <2>2
<1> HIDE DEF h
<1>3. h[0] = s
  BY <1>2 DEF RunsTo
<1>4. \A n \in 1..m : n \in 0..m /\ n # 0
  OBVIOUS
<1>5. \A n \in 1..m : h[n] = Imported(h[n - 1], Clean(document[n]))
  BY <1>2, <1>4 DEF RunsTo
<1> QED  BY <1>1, <1>3, <1>5

-----------------------------------------------------------------------------
(* Once a dashboard of the document has come it stands as the document     *)
(* says, whatever else the document brings.                                *)
Stands(s, e, layout) ==
  /\ e \in DOMAIN s.dashboards
  /\ s.dashboards[e].slug = layout.slug
  /\ s.dashboards[e].rows = layout.rows
  /\ \E f : Lays(f, s, e, layout.tiles)
  /\ layout.is_default => Defaults(s) = {e}

LEMMA ComesStands ==
  ASSUME NEW s, NEW t, NEW e, NEW layout, Comes(s, t, e, layout)
  PROVE  Stands(t, e, layout)
<1> DEFINE row == RowOf(layout)
<1>1. row.slug = layout.slug /\ row.rows = layout.rows /\ row.is_default = layout.is_default
  BY DEF RowOf
<1> HIDE DEF row
<1>2. Writes(s, t, e, row) /\ \E f : Lays(f, t, e, layout.tiles)
  BY DEF Comes, Redealt, row
<1>3. e \in DOMAIN t.dashboards /\ t.dashboards[e] = row
  BY <1>2 DEF Writes
<1>4. ASSUME layout.is_default
      PROVE  Defaults(t) = {e}
  <2>1. e \in Defaults(t)
    BY <1>1, <1>3, <1>4 DEF Defaults
  <2>2. \A d \in DOMAIN t.dashboards : d # e => ~t.dashboards[d].is_default
    BY <1>1, <1>2, <1>4 DEF Writes
  <2> QED  BY <2>1, <2>2 DEF Defaults
<1> QED  BY <1>1, <1>2, <1>3, <1>4 DEF Stands

LEMMA StandsOn ==
  ASSUME NEW s, NEW t, NEW e, NEW layout, Stands(s, e, layout),
         NEW k, NEW other, Comes(s, t, k, other),
         other.slug # layout.slug, layout.is_default => ~other.is_default
  PROVE  Stands(t, e, layout)
<1> DEFINE row == RowOf(other)
<1>1. row.is_default = other.is_default
  BY DEF RowOf
<1> HIDE DEF row
<1>2. e # k /\ e \in DOMAIN s.dashboards
  BY DEF Stands, Comes
<1>3. Writes(s, t, k, row)
  BY DEF Comes, row
<1>4. /\ e \in DOMAIN t.dashboards
      /\ t.dashboards[e].slug = layout.slug
      /\ t.dashboards[e].rows = layout.rows
  BY <1>2, <1>3 DEF Writes, Stands
<1>5. \E f : Lays(f, t, e, layout.tiles)
  <2>1. PICK f : Lays(f, s, e, layout.tiles)
    BY DEF Stands
  <2>2. CardsOf(t, e) = CardsOf(s, e) /\ \A c \in CardsOf(s, e) : t.cards[c] = s.cards[c]
    <3>1. /\ \A c \in DOMAIN s.cards : s.cards[c].dash # k => c \in DOMAIN t.cards /\ t.cards[c] = s.cards[c]
          /\ \A c \in DOMAIN t.cards : t.cards[c].dash # k => c \in DOMAIN s.cards /\ t.cards[c] = s.cards[c]
      BY DEF Comes, Redealt
    <3> QED  BY <1>2, <3>1 DEF CardsOf
  <2>3. Lays(f, t, e, layout.tiles)
    BY <2>1, <2>2 DEF Lays
  <2> QED  BY <2>3
<1>6. ASSUME layout.is_default
      PROVE  Defaults(t) = {e}
  <2>1. Defaults(s) = {e} /\ ~row.is_default
    BY <1>1, <1>6 DEF Stands
  <2>2. s.dashboards[e].is_default
    BY <2>1 DEF Defaults
  <2>3. t.dashboards[e].is_default
    BY <1>2, <1>3, <2>1, <2>2 DEF Writes
  <2>4. ASSUME NEW d \in DOMAIN t.dashboards, d # e
        PROVE  ~t.dashboards[d].is_default
    <3>1. CASE d = k
      BY <1>3, <2>1, <3>1 DEF Writes
    <3>2. CASE d # k
      <4>1. d \in DOMAIN s.dashboards /\ d \notin Defaults(s)
        BY <1>3, <2>1, <2>4, <3>2 DEF Writes
      <4> QED  BY <1>3, <3>2, <4>1 DEF Writes, Defaults
    <3> QED  BY <3>1, <3>2
  <2> QED  BY <1>4, <2>3, <2>4 DEF Defaults
<1> QED  BY <1>4, <1>5, <1>6 DEF Stands

(* So it does when the whole document is imported.                         *)
LEMMA DocumentStands ==
  ASSUME NEW h, Formed(h[0]), NEW document, Len(document) \in Nat,
         \A n \in 1..Len(document) :
           Clean(document[n]) \in Layout /\ h[n] = Imported(h[n - 1], Clean(document[n])),
         NEW k \in 1..Len(document),
         \A n \in 1..Len(document) \ {k} :
           /\ Clean(document[n]).slug # Clean(document[k]).slug
           /\ Clean(document[k]).is_default => ~Clean(document[n]).is_default
  PROVE  /\ Formed(h[Len(document)])
         /\ \E e : Stands(h[Len(document)], e, Clean(document[k]))
<1> DEFINE m == Len(document)
           x(n) == Clean(document[n])
           Good(n) == Formed(h[n]) /\ (k <= n => \E e : Stands(h[n], e, x(k)))
           Bad == {n \in Nat : n <= m /\ ~Good(n)}
<1>1. SUFFICES ASSUME ~Good(m) PROVE FALSE
  BY DEF Good
<1>2. PICK n \in Bad : \A j \in Bad : n <= j
  <2>1. m \in Bad /\ Bad \subseteq Nat
    BY <1>1
  <2> HIDE DEF Bad
  <2> QED  BY <2>1, LeastNatural
<1>3. n \in Nat /\ n <= m /\ ~Good(n)
  OBVIOUS
<1>4. n # 0
  BY <1>3
<1>5. n \in 1..m /\ n - 1 \in Nat /\ n - 1 <= m /\ ~(n <= n - 1)
  BY <1>3, <1>4
<1>6. Good(n - 1)
  <2>1. n - 1 \notin Bad
    <3> HIDE DEF Bad
    <3> QED  BY <1>2, <1>5
  <2> HIDE DEF Good
  <2> QED  BY <1>5, <2>1
<1>7. x(n) \in Layout /\ h[n] = Imported(h[n - 1], x(n))
  BY <1>5
<1>8. PICK i : Comes(h[n - 1], h[n], i, x(n))
  <2> HIDE DEF x
  <2> QED  BY <1>6, <1>7, ImportedComes
<1>9. Formed(h[n])
  BY <1>8 DEF Comes
<1>10. ASSUME k <= n
       PROVE  \E e : Stands(h[n], e, x(k))
  <2>1. CASE n = k
    BY <1>8, <2>1, ComesStands
  <2>2. CASE n # k
    <3>1. k <= n - 1
      BY <1>5, <1>10, <2>2
    <3>2. PICK e : Stands(h[n - 1], e, x(k))
      BY <1>6, <3>1
    <3>3. x(n).slug # x(k).slug /\ (x(k).is_default => ~x(n).is_default)
      BY <1>5, <2>2
    <3>4. Stands(h[n], e, x(k))
      <4> HIDE DEF x
      <4> QED  BY <1>8, <3>2, <3>3, StandsOn
    <3> QED  BY <3>4
  <2> QED  BY <2>1, <2>2
<1> QED  BY <1>3, <1>9, <1>10

(* The end of the import changes nothing of it.                            *)
LEMMA DefaultStands ==
  ASSUME NEW s, Formed(s), NEW e, NEW layout, Stands(s, e, layout), NEW t \in WithDefault(s)
  PROVE  Stands(t, e, layout)
<1>1. CASE t = s
  BY <1>1
<1>2. CASE t # s
  <2>1. Defaults(s) = {} /\ ~layout.is_default
    BY <1>2 DEF WithDefault, Stands
  <2>2. PICK d \in DOMAIN s.dashboards : t = [s EXCEPT !.dashboards[d].is_default = TRUE]
    BY <1>2 DEF WithDefault
  <2> DEFINE D == [s.dashboards EXCEPT ![d].is_default = TRUE]
  <2>3. t = [s EXCEPT !.dashboards = D]
    BY <2>2
  <2>4. D[e].slug = s.dashboards[e].slug /\ D[e].rows = s.dashboards[e].rows /\ DOMAIN D = DOMAIN s.dashboards
    <3>1. s.dashboards[e] \in Dashboard
      BY DEF Formed, Stands
    <3> QED  BY <3>1 DEF Dashboard
  <2> HIDE DEF D
  <2>5. t.dashboards = D /\ t.cards = s.cards
    BY <2>3, WriteDashboards DEF Formed
  <2>6. CardsOf(t, e) = CardsOf(s, e)
    BY <2>5 DEF CardsOf
  <2>7. \E f : Lays(f, t, e, layout.tiles)
    BY <2>5, <2>6 DEF Stands, Lays
  <2> QED  BY <2>1, <2>4, <2>5, <2>7 DEF Stands
<1> QED  BY <1>1, <1>2

-----------------------------------------------------------------------------
(* The document.                                                           *)

(* What is drawn of a dashboard is told by the tiles its cards are.        *)
TilesOf(tiles) ==
  [t \in {[y |-> tiles[i].y, height |-> tiles[i].height] : i \in 1..Len(tiles)} |->
     Cardinality({i \in 1..Len(tiles) : tiles[i].y = t.y /\ tiles[i].height = t.height})]

LEMMA LaidIsPlaced ==
  ASSUME NEW s, NEW d, NEW tiles \in Seq(Tile), NEW f, Lays(f, s, d, tiles)
  PROVE  Placed(s, d) = TilesOf(tiles)
<1> DEFINE n == Len(tiles)
           C == CardsOf(s, d)
           Kinds == {[y |-> s.cards[c].row, height |-> s.cards[c].height] : c \in C}
           Drawn(t) == {c \in C : s.cards[c].row = t.y /\ s.cards[c].height = t.height}
           Told(t) == {i \in 1..n : tiles[i].y = t.y /\ tiles[i].height = t.height}
<1>1. /\ \A i \in 1..n : f[i] \in C /\ s.cards[f[i]].row = tiles[i].y /\ s.cards[f[i]].height = tiles[i].height
      /\ \A i, j \in 1..n : f[i] = f[j] => i = j
      /\ \A c \in C : \E i \in 1..n : f[i] = c
  BY DEF Lays
<1>2. Kinds = {[y |-> tiles[i].y, height |-> tiles[i].height] : i \in 1..n}
  <2> HIDE DEF C, n
  <2> DEFINE Seen(c) == [y |-> s.cards[c].row, height |-> s.cards[c].height]
             Tiled(i) == [y |-> tiles[i].y, height |-> tiles[i].height]
  <2>1. \A i \in 1..n : f[i] \in C /\ Seen(f[i]) = Tiled(i)
    BY <1>1
  <2>2. \A c \in C : \E i \in 1..n : f[i] = c
    BY <1>1
  <2>3. Kinds = {Seen(c) : c \in C}
    OBVIOUS
  <2>4. {[y |-> tiles[i].y, height |-> tiles[i].height] : i \in 1..n} = {Tiled(i) : i \in 1..n}
    OBVIOUS
  <2> HIDE DEF Seen, Tiled, Kinds
  <2>5. {Seen(c) : c \in C} = {Tiled(i) : i \in 1..n}
    BY <2>1, <2>2
  <2> QED  BY <2>3, <2>4, <2>5
<1>3. ASSUME NEW t
      PROVE  Cardinality(Drawn(t)) = Cardinality(Told(t))
  <2> DEFINE g == [i \in Told(t) |-> f[i]]
  <2>1. IsFiniteSet(Told(t))
    <3>1. n \in Nat /\ Told(t) \in SUBSET (1..n)
      OBVIOUS
    <3>2. IsFiniteSet(1..n)
      BY <3>1, FS_Interval
    <3> HIDE DEF n, Told
    <3> QED  BY <3>1, <3>2, FS_Subset
  <2> HIDE DEF C, n
  <2>2. \A i \in Told(t) : g[i] \in Drawn(t)
    BY <1>1
  <2>3. \A i, j \in Told(t) : g[i] = g[j] => i = j
    BY <1>1
  <2>4. \A c \in Drawn(t) : \E i \in Told(t) : g[i] = c
    <3> TAKE c \in Drawn(t)
    <3>1. PICK i \in 1..n : f[i] = c
      BY <1>1
    <3>2. i \in Told(t)
      BY <1>1, <3>1
    <3> QED  BY <3>1, <3>2
  <2>5. g \in [Told(t) -> Drawn(t)]
    BY <2>2
  <2> HIDE DEF g, Told, Drawn
  <2>6. g \in Bijection(Told(t), Drawn(t))
    BY <2>3, <2>4, <2>5, Fun_IsBij
  <2>7. ExistsBijection(Told(t), Drawn(t))
    BY <2>6 DEF ExistsBijection
  <2> QED  BY <2>1, <2>7, FS_Bijection
<1>4. Placed(s, d) = [t \in Kinds |-> Cardinality(Drawn(t))]
  BY DEF Placed
<1>5. TilesOf(tiles) = [t \in {[y |-> tiles[i].y, height |-> tiles[i].height] : i \in 1..n} |->
                          Cardinality(Told(t))]
  BY DEF TilesOf
<1> HIDE DEF Kinds, Drawn, Told, C, n
<1> QED  BY <1>2, <1>3, <1>4, <1>5

(* What a database looks like within the limits of an import.              *)
LEMMA TrimmedCards ==
  ASSUME NEW s, IsDatabase(s), \A c \in DOMAIN s.cards : s.cards[c] \in Card, NEW d
  PROVE  /\ CardsOf(Trimmed(s), d) = CardsOf(s, d)
         /\ \A c \in CardsOf(s, d) :
              /\ Trimmed(s).cards[c].row = s.cards[c].row
              /\ Trimmed(s).cards[c].height = Clamp(1, 24, s.cards[c].height)
<1> DEFINE H(c) == Clamp(1, 24, s.cards[c].height)
           K == [c \in DOMAIN s.cards |-> [s.cards[c] EXCEPT !.height = H(c)]]
           t == Trimmed(s)
<1>1. t = [s EXCEPT !.cards = K]
  BY DEF Trimmed
<1>2. \A c \in DOMAIN s.cards :
        K[c].dash = s.cards[c].dash /\ K[c].row = s.cards[c].row /\ K[c].height = H(c)
  <2> HIDE DEF H
  <2> QED  BY DEF Card
<1>3. DOMAIN K = DOMAIN s.cards
  OBVIOUS
<1> HIDE DEF K, t, H
<1>4. t.cards = K
  BY <1>1, WriteCards
<1>5. CardsOf(t, d) = CardsOf(s, d)
  BY <1>2, <1>3, <1>4 DEF CardsOf
<1> QED  BY <1>2, <1>4, <1>5 DEF CardsOf, t, H

(* A dashboard is exported whole, and read again as it was, within the     *)
(* limits of an import.                                                    *)
LEMMA ExportedWhole ==
  ASSUME NEW s, Sound(s), NEW d \in DOMAIN s.dashboards, s.dashboards[d].rows <= 24
  PROVE  LET x == Clean(DashboardExport(s, d))
         IN  /\ x \in Layout
             /\ x.slug = Slugify[s.dashboards[d].slug]
             /\ x.is_default = s.dashboards[d].is_default
             /\ x.rows = s.dashboards[d].rows
             /\ Lays(CardOrder(s, d), Trimmed(s), d, x.tiles)
<1> DEFINE C == CardsOf(s, d)
           n == Cardinality(C)
           f == CardOrder(s, d)
           tiles == [i \in 1..n |-> TileExport(s.cards[f[i]])]
           layout == DashboardExport(s, d)
           x == Clean(layout)
           xtiles == [i \in 1..Len(tiles) |->
                        LET tile == tiles[i]
                        IN  [y |-> IF tile.y < 1 THEN 1 ELSE tile.y,
                             height |-> Clamp(1, 24, tile.height)]]
           Sent == [y : Int, height : Int]
<1>1. IsFiniteSet(C) /\ C \subseteq Nat
  <2>1. MaxCards \in Nat /\ C \in SUBSET (1..MaxCards)
    BY StoresAssumption DEF Sound, IsTable, CardIds, CardsOf
  <2>2. IsFiniteSet(1..MaxCards)
    BY <2>1, FS_Interval
  <2> QED  BY <2>1, <2>2, FS_Subset
<1>2. n \in Nat
  BY <1>1, FS_CardinalityType
<1>3. \A c \in C : s.cards[c].row \in Nat \ {0} /\ s.cards[c].height \in Nat
  <2>1. \A c \in C : s.cards[c] \in Card
    BY DEF Sound, IsTable, CardsOf
  <2> QED  BY <2>1 DEF Card
<1>4. Enumerates(f, C)
  BY <1>1, <1>3, CardsInOrder
<1> HIDE DEF f, C
<1>5. /\ \A i \in 1..n : f[i] \in C
      /\ f \in [1..n -> C]
      /\ \A i, j \in 1..n : f[i] = f[j] => i = j
      /\ \A c \in C : \E i \in 1..n : f[i] = c
  BY <1>4 DEF Enumerates
<1> HIDE DEF n
<1>6. \A i \in 1..n : tiles[i] = [y |-> s.cards[f[i]].row, height |-> s.cards[f[i]].height]
  BY DEF TileExport
<1>7. \A i \in 1..n : tiles[i] \in Sent /\ ~(tiles[i].y < 1)
  <2> TAKE i \in 1..n
  <2>1. s.cards[f[i]].row \in Nat \ {0} /\ s.cards[f[i]].height \in Nat
    BY <1>3, <1>5
  <2> HIDE DEF tiles
  <2>2. tiles[i] = [y |-> s.cards[f[i]].row, height |-> s.cards[f[i]].height]
    BY <1>6
  <2>3. tiles[i] \in Sent /\ tiles[i].y \in Nat \ {0}
    BY <2>1, <2>2
  <2> QED  BY <2>3
<1>8. tiles \in Seq(Sent) /\ Len(tiles) = n
  <2> HIDE DEF Sent
  <2>1. tiles \in [1..n -> Sent]
    BY <1>7
  <2>2. DOMAIN tiles = 1..n
    OBVIOUS
  <2> HIDE DEF tiles
  <2> QED  BY <1>2, <2>1, <2>2
<1>9. layout = [slug |-> s.dashboards[d].slug, is_default |-> s.dashboards[d].is_default,
                rows |-> s.dashboards[d].rows, tiles |-> tiles]
  BY DEF DashboardExport, n, f, C
<1> HIDE DEF tiles, layout
<1>10. s.dashboards[d] \in Dashboard
  BY DEF Sound, IsTable
<1>11. layout \in Document
  BY <1>8, <1>9, <1>10 DEF Dashboard, Document
<1>12. x \in Layout
  BY <1>11, CleanIsPlaceable DEF Placeable
<1>13. x = [slug |-> Slugify[s.dashboards[d].slug], is_default |-> s.dashboards[d].is_default,
            rows |-> s.dashboards[d].rows, tiles |-> xtiles]
  <2>1. Clamp(1, 24, s.dashboards[d].rows) = s.dashboards[d].rows
    BY <1>10 DEF Dashboard, Clamp
  <2> QED  BY <1>9, <2>1 DEF Clean
<1>14. /\ Len(xtiles) = n
       /\ \A i \in 1..n : xtiles[i].y = tiles[i].y /\ xtiles[i].height = Clamp(1, 24, tiles[i].height)
  <2>1. \A i \in 1..n : xtiles[i] = [y |-> tiles[i].y, height |-> Clamp(1, 24, tiles[i].height)]
    BY <1>7, <1>8
  <2>2. DOMAIN xtiles = 1..n
    BY <1>8
  <2>3. Len(xtiles) = n
    BY <1>2, <1>8
  <2> HIDE DEF xtiles
  <2> QED  BY <2>1, <2>3
<1> HIDE DEF xtiles, x
<1>15. Lays(f, Trimmed(s), d, xtiles)
  <2> DEFINE t == Trimmed(s)
  <2>1. /\ CardsOf(t, d) = C
        /\ \A c \in C : t.cards[c].row = s.cards[c].row /\ t.cards[c].height = Clamp(1, 24, s.cards[c].height)
    <3>1. IsDatabase(s) /\ \A c \in DOMAIN s.cards : s.cards[c] \in Card
      BY DEF Sound, IsTable
    <3> QED  BY <3>1, TrimmedCards DEF C
  <2> HIDE DEF t
  <2>2. \A i \in 1..n : t.cards[f[i]].row = xtiles[i].y /\ t.cards[f[i]].height = xtiles[i].height
    <3> TAKE i \in 1..n
    <3>1. tiles[i] = [y |-> s.cards[f[i]].row, height |-> s.cards[f[i]].height]
      BY <1>6
    <3>2. tiles[i].y = s.cards[f[i]].row /\ tiles[i].height = s.cards[f[i]].height
      BY <3>1
    <3> QED  BY <1>5, <1>14, <2>1, <3>2
  <2>3. Lays(f, t, d, xtiles)
    BY <1>5, <1>14, <2>1, <2>2 DEF Lays
  <2> QED  BY <2>3 DEF t
<1>16. /\ x.slug = Slugify[s.dashboards[d].slug]
       /\ x.is_default = s.dashboards[d].is_default
       /\ x.rows = s.dashboards[d].rows
       /\ x.tiles = xtiles
  BY <1>13
<1> QED  BY <1>12, <1>15, <1>16 DEF x, layout, f

(* No dashboard has more rows than an import takes.                        *)
Sized(s) == \A d \in DOMAIN s.dashboards : s.dashboards[d].rows <= 24

LEMMA ComesSized ==
  ASSUME NEW s, Sized(s), NEW layout, layout.rows <= 24, NEW t, NEW e, Comes(s, t, e, layout)
  PROVE  Sized(t)
<1> DEFINE row == RowOf(layout)
<1>1. row.rows = layout.rows
  BY DEF RowOf
<1> HIDE DEF row
<1>2. Writes(s, t, e, row)
  BY DEF Comes, row
<1> QED  BY <1>1, <1>2 DEF Writes, Sized

(* The database the wizard leaves.                                         *)
LEMMA InstalledIsFormed ==
  ASSUME NEW s, Formed(s), NEW template \in Templates
  PROVE  Formed(Installed(s, template)) /\ Sized(Installed(s, template))
<1> DEFINE C == UNION {CardsOf(s, d) : d \in DOMAIN s.dashboards}
           K == [c \in DOMAIN s.cards \ C |-> s.cards[c]]
           D == [d \in DOMAIN s.dashboards \ DOMAIN s.dashboards |-> s.dashboards[d]]
           u == [s EXCEPT !.cards = K]
           bare == Dropped(s, DOMAIN s.dashboards)
           first == Added(bare, template[1].slug, template[1])
<1>1. IsDatabase(s) /\ s.nextDash \in Nat /\ s.nextCard \in Nat
  BY DEF Formed
<1>2. bare = [u EXCEPT !.dashboards = D]
  BY DEF Dropped, DropCards
<1>3. DOMAIN K = {} /\ DOMAIN D = {}
  <2>1. \A c \in DOMAIN s.cards : s.cards[c].dash \in DOMAIN s.dashboards
    BY DEF Formed
  <2>2. \A c \in DOMAIN s.cards : c \in CardsOf(s, s.cards[c].dash)
    BY DEF CardsOf
  <2>3. \A c \in DOMAIN s.cards : c \in C
    BY <2>1, <2>2
  <2> QED  BY <2>3
<1> HIDE DEF C, K, D
<1>4. IsDatabase(u) /\ u.cards = K /\ u.nextDash = s.nextDash /\ u.nextCard = s.nextCard
  BY <1>1 DEF IsDatabase
<1> HIDE DEF u, bare
<1>5. /\ IsDatabase(bare) /\ bare.cards = K /\ bare.dashboards = D
      /\ bare.nextDash = s.nextDash /\ bare.nextCard = s.nextCard
  BY <1>2, <1>4 DEF IsDatabase
<1>6. Formed(bare) /\ Sized(bare)
  BY <1>1, <1>3, <1>5 DEF Formed, Sized
<1>7. template \in Seq(Layout) /\ Len(template) \in 1..2
  BY InputsAssumption
<1>8. template[1] \in Layout /\ template[1].rows <= 24
  BY <1>7, RowsAssumption
<1>9. Formed(first) /\ Sized(first)
  <2>1. Comes(bare, Added(bare, template[1].slug, template[1]), bare.nextDash, template[1])
    BY <1>6, <1>8, AddedComes
  <2> QED  BY <1>6, <1>8, <2>1, ComesSized DEF Comes
<1> HIDE DEF first
<1>10. CASE Len(template) = 1
  <2>1. Installed(s, template) = first
    BY <1>1, <1>10, InstalledAdds DEF first, bare
  <2> QED  BY <1>9, <2>1
<1>11. CASE Len(template) = 2
  <2>1. template[2] \in Layout /\ template[2].rows <= 24
    BY <1>7, <1>11, RowsAssumption
  <2> DEFINE second == Added(first, template[2].slug, template[2])
  <2>2. Comes(first, second, first.nextDash, template[2])
    BY <1>9, <2>1, AddedComes
  <2>3. Installed(s, template) = second
    BY <1>1, <1>11, InstalledAdds DEF first, bare
  <2> HIDE DEF second
  <2> QED  BY <1>9, <2>1, <2>2, <2>3, ComesSized DEF Comes
<1> QED  BY <1>7, <1>10, <1>11

(* A dashboard an import recognises comes back.                            *)
LEMMA Returns ==
  ASSUME Sound(db), AtMostOneDefault(db), Sized(db),
         NEW s, Formed(s), NEW back \in Restored(s, Exported(db)),
         NEW d \in DOMAIN db.dashboards, Recognised(d)
  PROVE  \E e \in DOMAIN back.dashboards :
           /\ back.dashboards[e].slug = db.dashboards[d].slug
           /\ back.dashboards[e].rows = db.dashboards[d].rows
           /\ Placed(back, e) = Placed(Trimmed(db), d)
           /\ d \in Defaults(db) => Defaults(back) = {e}
<1> DEFINE D == DOMAIN db.dashboards
           m == Cardinality(D)
           order == DashboardOrder(db)
           document == Exported(db)
           x(n) == Clean(document[n])
<1>1. IsFiniteSet(D) /\ D \subseteq Nat
  <2>1. MaxDash \in Nat /\ D \in SUBSET (1..MaxDash)
    BY StoresAssumption DEF Sound, IsTable, DashIds
  <2>2. IsFiniteSet(1..MaxDash)
    BY <2>1, FS_Interval
  <2> QED  BY <2>1, <2>2, FS_Subset
<1>2. m \in Nat
  BY <1>1, FS_CardinalityType
<1>3. Enumerates(order, D)
  BY <1>1, DashboardsInOrder
<1> HIDE DEF order
<1>4. /\ \A n \in 1..m : order[n] \in D
      /\ \A i, j \in 1..m : order[i] = order[j] => i = j
      /\ \E n \in 1..m : order[n] = d
  BY <1>3 DEF Enumerates
<1>5. document = [i \in 1..m |-> DashboardExport(db, order[i])]
  BY DEF Exported, order
<1> HIDE DEF m, document
<1>6. Len(document) = m /\ \A n \in 1..m : document[n] = DashboardExport(db, order[n])
  BY <1>2, <1>5
<1> DEFINE row(n) == db.dashboards[order[n]]
<1>7. \A n \in 1..m :
        /\ x(n) \in Layout
        /\ x(n).slug = Slugify[row(n).slug]
        /\ x(n).is_default = row(n).is_default
        /\ x(n).rows = row(n).rows
        /\ Lays(CardOrder(db, order[n]), Trimmed(db), order[n], x(n).tiles)
  <2> TAKE n \in 1..m
  <2>1. order[n] \in DOMAIN db.dashboards /\ db.dashboards[order[n]].rows <= 24
    BY <1>4 DEF Sized
  <2>2. document[n] = DashboardExport(db, order[n])
    BY <1>6
  <2> HIDE DEF D
  <2> QED  BY <2>1, <2>2, ExportedWhole
<1> HIDE DEF x
<1>8. PICK k \in 1..m : order[k] = d
  BY <1>4
<1>9. x(k).slug = db.dashboards[d].slug
  BY <1>7, <1>8 DEF Recognised
<1>10. ASSUME NEW n \in 1..m, n # k
       PROVE  /\ x(n).slug # x(k).slug
              /\ x(k).is_default => ~x(n).is_default
  <2>1. order[n] \in D /\ order[n] # d
    BY <1>4, <1>8, <1>10
  <2>2. Slugify[row(n).slug] # db.dashboards[d].slug
    BY <2>1 DEF Recognised
  <2>3. ~(db.dashboards[d].is_default /\ db.dashboards[order[n]].is_default)
    BY <2>1 DEF AtMostOneDefault, Defaults
  <2> QED  BY <1>7, <1>8, <1>9, <2>2, <2>3
<1>11. PICK h : /\ h[0] = s
                /\ \A n \in 1..m : h[n] = Imported(h[n - 1], x(n))
                /\ Restored(s, document) = WithDefault(h[m])
  <2>1. Len(document) \in Nat
    BY <1>2, <1>6
  <2>2. PICK h : /\ h[0] = s
                 /\ \A n \in 1..Len(document) : h[n] = Imported(h[n - 1], Clean(document[n]))
                 /\ Restored(s, document) = WithDefault(h[Len(document)])
    BY <2>1, RestoredRuns
  <2> QED  BY <1>6, <2>2 DEF x
<1>12. Formed(h[m]) /\ \E e : Stands(h[m], e, x(k))
  <2>1. \A n \in 1..m : x(n) \in Layout /\ h[n] = Imported(h[n - 1], x(n))
    BY <1>7, <1>11
  <2>2. \A n \in 1..m \ {k} :
          /\ x(n).slug # x(k).slug
          /\ x(k).is_default => ~x(n).is_default
    BY <1>10
  <2>3. Formed(h[0]) /\ Len(document) = m
    BY <1>6, <1>11
  <2> HIDE DEF row
  <2> QED  BY <1>2, <1>8, <2>1, <2>2, <2>3, DocumentStands DEF x
<1>13. PICK e : Stands(h[m], e, x(k))
  BY <1>12
<1>14. Stands(back, e, x(k))
  <2>1. back \in WithDefault(h[m])
    BY <1>11 DEF document
  <2> QED  BY <1>12, <1>13, <2>1, DefaultStands
<1>15. Placed(back, e) = Placed(Trimmed(db), d)
  <2>1. x(k).tiles \in Seq(Tile)
    BY <1>7 DEF Layout
  <2>2. Placed(back, e) = TilesOf(x(k).tiles)
    BY <1>14, <2>1, LaidIsPlaced DEF Stands
  <2>3. Placed(Trimmed(db), d) = TilesOf(x(k).tiles)
    BY <1>7, <1>8, <2>1, LaidIsPlaced
  <2> QED  BY <2>2, <2>3
<1>16. d \in Defaults(db) => Defaults(back) = {e}
  BY <1>7, <1>8, <1>14 DEF Defaults, Stands
<1> QED  BY <1>7, <1>8, <1>9, <1>14, <1>15, <1>16 DEF Stands

-----------------------------------------------------------------------------
(* No step stores more rows than an import takes: the routes allow 12, the *)
(* import cuts what it reads at 24.                                        *)
SizesInv ==
  /\ Sized(db)
  /\ job = "import" => Sized(work)

LEMMA InitSizes == Init => SizesInv
<1> SUFFICES ASSUME Init PROVE Sized(db) /\ job = "none"
  BY DEF SizesInv
<1>1. DOMAIN EmptyStore.dashboards = {}
  BY DEF EmptyStore
<1> QED  BY <1>1, RowsAssumption DEF Init, Sized

(* A step that leaves the dashboards alone, and the draft.                 *)
LEMMA SameSizes ==
  ASSUME SizesInv, db'.dashboards = db.dashboards, job' = "import" => job = "import" /\ work' = work
  PROVE  SizesInv'
BY DEF SizesInv, Sized

LEMMA StartSizes == IInv /\ SizesInv /\ (InitDb \/ EnsureAdminPassword \/ Crash \/ SetupPassword) => SizesInv'
<1> SUFFICES ASSUME IInv, SizesInv PROVE InitDb \/ EnsureAdminPassword \/ Crash \/ SetupPassword => SizesInv'
  OBVIOUS
<1>1. IsDatabase(db)
  BY DEF IInv, TypeOK, Sound
<1>2. ASSUME InitDb PROVE SizesInv'
  <2>1. \E K : \E x : db' = [[db EXCEPT !.cards = K] EXCEPT !.complete = x]
    BY <1>2 DEF InitDb, DropCards
  <2>2. db'.dashboards = db.dashboards
    BY <1>1, <2>1 DEF IsDatabase
  <2> QED  BY <1>2, <2>2, SameSizes DEF InitDb
<1>3. ASSUME EnsureAdminPassword PROVE SizesInv'
  <2>1. db'.dashboards = db.dashboards
    BY <1>1, <1>3 DEF EnsureAdminPassword, IsDatabase
  <2> QED  BY <1>3, <2>1, SameSizes DEF EnsureAdminPassword
<1>4. ASSUME Crash PROVE SizesInv'
  BY <1>4, SameSizes DEF Crash, TransactionOver
<1>5. ASSUME SetupPassword PROVE SizesInv'
  <2>1. db'.dashboards = db.dashboards
    BY <1>1, <1>5 DEF SetupPassword, IsDatabase
  <2> QED  BY <1>5, <2>1, SameSizes DEF SetupPassword
<1> QED  BY <1>2, <1>3, <1>4, <1>5

LEMMA SetupSizes ==
  ASSUME IInv, SizesInv, NEW template \in Templates, CompleteSetup(template)
  PROVE  SizesInv'
<1> DEFINE t == Installed(db, template)
<1>1. Formed(t) /\ Sized(t)
  <2>1. Formed(db)
    BY SoundIsFormed DEF IInv, TypeOK
  <2> QED  BY <2>1, InstalledIsFormed
<1>2. db' = [t EXCEPT !.complete = TRUE] /\ job' = "setup"
  BY DEF CompleteSetup
<1> HIDE DEF t
<1>3. db'.dashboards = t.dashboards
  BY <1>1, <1>2 DEF Formed, IsDatabase
<1> QED  BY <1>1, <1>2, <1>3 DEF SizesInv, Sized

LEMMA EditSizes ==
  ASSUME NEW s, Edit(s), Sized(s)
  PROVE  SizesInv'
BY DEF Edit, SizesInv, Sized

LEMMA WritesSized ==
  ASSUME NEW s, Sized(s), NEW t, NEW d, NEW row, row.rows <= 24, Writes(s, t, d, row)
  PROVE  Sized(t)
BY DEF Writes, Sized

LEMMA AdministrateSizes ==
  ASSUME IInv, SizesInv, Administrate
  PROVE  SizesInv'
<1>1. Formed(db) /\ IsDatabase(db) /\ Sized(db) /\ GridRows \subseteq Nat
  <2>1. GridRows \subseteq Nat
    BY InputsAssumption
  <2> QED  BY <2>1, SoundIsFormed DEF IInv, TypeOK, Sound, SizesInv
<1>2. ASSUME NEW row \in [slug : Slugs, is_default : BOOLEAN, rows : GridRows], CreateDashboard(row)
      PROVE  SizesInv'
  <2> DEFINE p == Put(db, db.nextDash, row)
             t == Inserted(db, row)
  <2>1. Edit(t) /\ row.rows <= 12 /\ row.rows \in Nat
    BY <1>1, <1>2 DEF CreateDashboard
  <2>2. IsDatabase(p) /\ Writes(db, p, db.nextDash, row)
    BY <1>1, PutWrites
  <2>3. t = [p EXCEPT !.nextDash = db.nextDash + 1]
    BY DEF Inserted
  <2>4. row.rows <= 24
    BY <2>1
  <2> HIDE DEF p, t
  <2>5. Sized(p)
    BY <1>1, <2>2, <2>4, WritesSized
  <2>6. t.dashboards = p.dashboards
    BY <2>2, <2>3 DEF IsDatabase
  <2>7. Sized(t)
    BY <2>5, <2>6 DEF Sized
  <2> QED  BY <2>1, <2>7, EditSizes
<1>3. ASSUME NEW row \in [slug : Slugs, is_default : BOOLEAN, rows : GridRows],
             NEW d \in DOMAIN db.dashboards, UpdateDashboard(d, row)
      PROVE  SizesInv'
  <2> DEFINE t == Put(db, d, row)
  <2>1. Edit(t) /\ row.rows <= 12 /\ row.rows \in Nat
    BY <1>1, <1>3 DEF UpdateDashboard
  <2>2. Writes(db, t, d, row)
    BY <1>1, PutWrites
  <2>3. row.rows <= 24
    BY <2>1
  <2> HIDE DEF t
  <2>4. Sized(t)
    BY <1>1, <2>2, <2>3, WritesSized
  <2> QED  BY <2>1, <2>4, EditSizes
<1>4. ASSUME NEW d \in DOMAIN db.dashboards, DeleteDashboard(d)
      PROVE  SizesInv'
  <2> DEFINE t == Dropped(db, {d})
             u == DropCards(db, UNION {CardsOf(db, e) : e \in {d}})
             D == [e \in DOMAIN db.dashboards \ {d} |-> db.dashboards[e]]
  <2>1. Edit(t)
    BY <1>4 DEF DeleteDashboard
  <2>2. t = [u EXCEPT !.dashboards = D]
    BY DEF Dropped
  <2>3. \E K : u = [db EXCEPT !.cards = K]
    BY DEF DropCards
  <2>4. \A e \in DOMAIN D : e \in DOMAIN db.dashboards /\ D[e] = db.dashboards[e]
    OBVIOUS
  <2> HIDE DEF t, u, D
  <2>5. IsDatabase(u)
    BY <1>1, <2>3, WriteCards
  <2>6. t.dashboards = D
    BY <2>2, <2>5, WriteDashboards
  <2>7. Sized(t)
    BY <1>1, <2>4, <2>6 DEF Sized
  <2> QED  BY <2>1, <2>7, EditSizes
<1>5. ASSUME NEW s, Edit(s), s.dashboards = db.dashboards
      PROVE  SizesInv'
  BY <1>1, <1>5, EditSizes DEF Sized
<1>6. ASSUME NEW K, NEW m
      PROVE  /\ [db EXCEPT !.cards = K].dashboards = db.dashboards
             /\ [[db EXCEPT !.cards = K] EXCEPT !.nextCard = m].dashboards = db.dashboards
  BY <1>1 DEF IsDatabase
<1>7. ASSUME NEW card, CreateTile(card) PROVE SizesInv'
  BY <1>5, <1>6, <1>7 DEF CreateTile, SetCard
<1>12. ASSUME NEW card, AddPluginWidget(card) PROVE SizesInv'
  BY <1>5, <1>6, <1>12 DEF AddPluginWidget, SetCard
<1>8. ASSUME NEW card, NEW c, UpdateTile(c, card) PROVE SizesInv'
  BY <1>5, <1>6, <1>8 DEF UpdateTile, SetCard
<1>9. ASSUME NEW positions, UpdatePositions(positions) PROVE SizesInv'
  BY <1>5, <1>6, <1>9 DEF UpdatePositions
<1>10. ASSUME NEW c, DeleteTile(c) PROVE SizesInv'
  BY <1>5, <1>6, <1>10 DEF DeleteTile, DropCards
<1>11. ASSUME UpdateAdminPassword PROVE SizesInv'
  <2>1. [db EXCEPT !.password = "chosen"].dashboards = db.dashboards
    BY <1>1 DEF IsDatabase
  <2> QED  BY <1>5, <1>11, <2>1 DEF UpdateAdminPassword
<1> QED  BY <1>2, <1>3, <1>4, <1>7, <1>8, <1>9, <1>10, <1>11, <1>12 DEF Administrate

\* the draft after one more dashboard
LEMMA TakeSizes ==
  ASSUME SizesInv, NEW s, Take(s), Sized(s)
  PROVE  SizesInv'
BY DEF Take, SizesInv, Sized

LEMMA ImportSizes ==
  ASSUME IInv, SizesInv, NEW incoming \in Incoming, ImportDashboard(Clean(incoming))
  PROVE  SizesInv'
<1> DEFINE layout == Clean(incoming)
<1>1. layout \in Layout /\ layout.tiles \in Seq(Tile) /\ layout.rows <= 24
  <2>1. incoming \in Document
    BY InputsAssumption
  <2>2. layout \in Layout /\ layout.rows <= 24
    BY <2>1, CleanIsPlaceable DEF Placeable
  <2> QED  BY <2>2 DEF Layout
<1>2. ImportSkip(layout) \/ ImportReplace(layout) \/ ImportMerge(layout) \/ ImportCreate(layout)
  BY DEF ImportDashboard
<1> HIDE DEF layout
<1>3. Importing
  BY <1>2 DEF ImportSkip, ImportReplace, ImportMerge, ImportCreate
<1>4. Formed(work) /\ Sound(work) /\ Sized(work)
  BY <1>3, ImportFinds, SoundIsFormed DEF Importing, SizesInv
<1>5. CASE ImportSkip(layout)
  BY <1>4, <1>5, TakeSizes DEF ImportSkip
<1>6. CASE ImportReplace(layout)
  <2>1. PICK d \in Owner(work, layout.slug) : Take(Replaced(work, d, layout))
    BY <1>6 DEF ImportReplace
  <2> DEFINE t == Replaced(work, d, layout)
  <2>2. Comes(work, t, d, layout)
    BY <1>1, <1>4, ReplacedComes
  <2> HIDE DEF t
  <2>3. Sized(t)
    BY <1>1, <1>4, <2>2, ComesSized
  <2> QED  BY <2>1, <2>3, TakeSizes DEF t
<1>7. CASE ImportMerge(layout)
  <2>1. PICK d \in Owner(work, layout.slug) : Take(Filled(work, d, layout.tiles, Bottom(work, d)))
    BY <1>7 DEF ImportMerge
  <2> DEFINE offset == Bottom(work, d)
             t == Filled(work, d, layout.tiles, offset)
  <2>2. t.dashboards = work.dashboards
    <3> HIDE DEF offset
    <3>1. Fills(work, t, d, layout.tiles, offset)
      BY <1>1, <1>4, FilledCards
    <3> QED  BY <3>1 DEF Fills
  <2> HIDE DEF t
  <2>3. Sized(t)
    BY <1>4, <2>2 DEF Sized
  <2> QED  BY <2>1, <2>3, TakeSizes DEF t
<1>8. CASE ImportCreate(layout)
  <2>1. PICK slug \in Slugs : Take(Added(work, slug, layout))
    BY <1>8 DEF ImportCreate
  <2> DEFINE x == [slug |-> slug, is_default |-> layout.is_default, rows |-> layout.rows,
                   tiles |-> layout.tiles]
             t == Added(work, x.slug, x)
  <2>2. x \in Layout /\ x.rows <= 24
    BY <1>1 DEF Layout
  <2>3. t = Added(work, slug, layout)
    BY DEF Added
  <2> HIDE DEF x
  <2>4. Comes(work, t, work.nextDash, x)
    BY <1>4, <2>2, AddedComes
  <2> HIDE DEF t
  <2>5. Sized(t)
    BY <1>4, <2>2, <2>4, ComesSized
  <2> QED  BY <2>1, <2>3, <2>5, TakeSizes
<1> QED  BY <1>2, <1>5, <1>6, <1>7, <1>8

LEMMA CommitSizes == IInv /\ SizesInv /\ ImportCommit => SizesInv'
<1> SUFFICES ASSUME IInv, SizesInv, ImportCommit PROVE SizesInv'
  OBVIOUS
<1>1. PICK t \in WithDefault(work) : db' = [t EXCEPT !.history = t.history + 1]
  BY DEF ImportCommit
<1>2. IsDatabase(work) /\ Sized(work) /\ \A d \in DOMAIN work.dashboards : work.dashboards[d] \in Dashboard
  BY DEF ImportCommit, IInv, TypeOK, Sound, IsTable, SizesInv
<1>3. IsDatabase(t) /\ Sized(t)
  <2>1. CASE t = work
    BY <1>2, <2>1
  <2>2. CASE t # work
    <3>1. PICK d \in DOMAIN work.dashboards : t = [work EXCEPT !.dashboards[d].is_default = TRUE]
      BY <2>2 DEF WithDefault
    <3> DEFINE D == [work.dashboards EXCEPT ![d].is_default = TRUE]
    <3>2. t = [work EXCEPT !.dashboards = D]
      BY <3>1
    <3>3. DOMAIN D = DOMAIN work.dashboards /\ \A e \in DOMAIN D : D[e].rows = work.dashboards[e].rows
      BY <1>2 DEF Dashboard
    <3> HIDE DEF D
    <3> QED  BY <1>2, <3>2, <3>3, WriteDashboards DEF Sized
  <2> QED  BY <2>1, <2>2
<1>4. db'.dashboards = t.dashboards
  BY <1>1, <1>3 DEF IsDatabase
<1>5. job' = "none"
  BY DEF ImportCommit, TransactionOver
<1> QED  BY <1>3, <1>4, <1>5 DEF SizesInv, Sized

LEMMA SizesStep == IInv /\ SizesInv /\ [Next]_vars => SizesInv'
<1> SUFFICES ASSUME IInv, SizesInv, [Next]_vars PROVE SizesInv'
  OBVIOUS
<1>1. CASE InitDb \/ EnsureAdminPassword \/ Crash \/ SetupPassword
  BY <1>1, StartSizes
<1>2. CASE \E template \in Templates : CompleteSetup(template)
  BY <1>2, SetupSizes
<1>3. CASE Administrate
  BY <1>3, AdministrateSizes
<1>4. CASE \E how \in Strategies : ImportBegin(how)
  BY <1>4 DEF ImportBegin, SizesInv, Sized
<1>5. CASE \E layout \in Incoming : ImportDashboard(Clean(layout))
  BY <1>5, ImportSizes
<1>6. CASE ImportFails
  BY <1>6, SameSizes DEF ImportFails, TransactionOver
<1>7. CASE ImportCommit
  BY <1>7, CommitSizes
<1>8. CASE UNCHANGED vars
  BY <1>8, SameSizes DEF vars
<1> QED  BY <1>1, <1>2, <1>3, <1>4, <1>5, <1>6, <1>7, <1>8 DEF Next

LEMMA SizesInvariance == Spec => [](IInv /\ SizesInv)
<1>1. Init => IInv /\ SizesInv
  BY InitIInv, InitSizes
<1>2. IInv /\ SizesInv /\ [Next]_vars => (IInv /\ SizesInv)'
  BY Step, SizesStep
<1> QED  BY <1>1, <1>2, PTL DEF Spec

(* No stored dashboard has more than 24 rows, whoever wrote it: more than  *)
(* the 12 the API's model can return, never more than an import keeps      *)
(* (_validate_document, the ge and le of the routes' models).              *)
THEOREM RowsFitAnImport == Spec => []Sized(db)
<1>1. SizesInv => Sized(db)
  BY DEF SizesInv
<1> QED  BY <1>1, SizesInvariance, PTL

-----------------------------------------------------------------------------
(* Whatever the edits, imports, wizard runs and kills before it, an export *)
(* imported with "replace" brings every dashboard it recognises back, with *)
(* its rows, its cards and the default - over the database itself or on    *)
(* any other that the wizard has left (build_layout_export against         *)
(* import_endpoint).                                                       *)
THEOREM ExportsRestore == Spec => []ExportRestores
<1>1. IInv /\ SizesInv => ExportRestores
  <2> SUFFICES ASSUME IInv, SizesInv,
                      NEW s \in {db} \cup {Installed(EmptyStore, template) : template \in Templates},
                      NEW back \in Restored(s, Exported(db)),
                      NEW d \in DOMAIN db.dashboards, Recognised(d)
               PROVE  \E e \in DOMAIN back.dashboards :
                        /\ back.dashboards[e].slug = db.dashboards[d].slug
                        /\ back.dashboards[e].rows = db.dashboards[d].rows
                        /\ Placed(back, e) = Placed(Trimmed(db), d)
                        /\ d \in Defaults(db) => Defaults(back) = {e}
    BY DEF ExportRestores
  <2>1. Sound(db) /\ AtMostOneDefault(db) /\ Sized(db)
    BY DEF IInv, TypeOK, SizesInv
  <2>2. Formed(EmptyStore)
    <3>1. /\ IsDatabase(EmptyStore) /\ EmptyStore.nextDash = 1 /\ EmptyStore.nextCard = 1
          /\ DOMAIN EmptyStore.dashboards = {} /\ DOMAIN EmptyStore.cards = {}
      BY DEF EmptyStore, IsDatabase
    <3> QED  BY <3>1 DEF Formed
  <2>3. Formed(s)
    <3>1. CASE s = db
      BY <2>1, <3>1, SoundIsFormed
    <3>2. CASE s # db
      BY <2>2, <3>2, InstalledIsFormed
    <3> QED  BY <3>1, <3>2
  <2> QED  BY <2>1, <2>3, Returns
<1> QED  BY <1>1, SizesInvariance, PTL
=============================================================================
