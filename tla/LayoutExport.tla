------------------------------ MODULE LayoutExport ------------------------------
(***************************************************************************)
(* layout_exports.build_layout_export: the document made of the database,  *)
(* and what becomes of it when it is imported.  Titles, sources, settings, *)
(* the lists of requirements and the metadata are left out.                *)
(***************************************************************************)
EXTENDS LayoutStore

(* The routes take 12 rows, an import cuts at 24 and templates have 3 at   *)
(* most: no dashboard has more rows than an import takes.                  *)
ASSUME RowsAssumption ==
  /\ \A s \in Existing : \A d \in DOMAIN s.dashboards : s.dashboards[d].rows <= 24
  /\ \A t \in Templates : \A k \in 1..Len(t) : t[k].rows <= 24

(* A slip: rows counted from 0.                                            *)
TileFromZero(card) == [y |-> card.row - 1, height |-> card.height]

(* _tile_export                                                            *)
TileExport(card) == [y |-> card.row, height |-> card.height]

(* The ids that a SELECT ... ORDER BY returns.                             *)
InOrder(ids, before) ==
  CHOOSE f \in [1..Cardinality(ids) -> ids] :
    \A i, j \in 1..Cardinality(ids) : i < j => <<f[i], f[j]>> \in before

(* Cards come by row; dashboards by sort_order, here by id.                *)
CardOrder(s, d) ==
  InOrder(CardsOf(s, d),
          {p \in CardsOf(s, d) \X CardsOf(s, d) :
             \/ s.cards[p[1]].row < s.cards[p[2]].row
             \/ s.cards[p[1]].row = s.cards[p[2]].row /\ p[1] < p[2]})

DashboardOrder(s) ==
  InOrder(DOMAIN s.dashboards,
          {p \in (DOMAIN s.dashboards) \X (DOMAIN s.dashboards) : p[1] < p[2]})

DashboardExport(s, d) ==
  [slug |-> s.dashboards[d].slug, is_default |-> s.dashboards[d].is_default,
   rows |-> s.dashboards[d].rows,
   tiles |-> [i \in 1..Cardinality(CardsOf(s, d)) |-> TileExport(s.cards[CardOrder(s, d)[i]])]]

Exported(s) ==
  [i \in 1..Cardinality(DOMAIN s.dashboards) |-> DashboardExport(s, DashboardOrder(s)[i])]

(* What an import of document with strategy "replace" makes of s, one      *)
(* dashboard after the other; which becomes the default may be open.       *)
Imported(s, layout) ==
  IF Owner(s, layout.slug) = {} THEN Added(s, layout.slug, layout)
  ELSE Replaced(s, CHOOSE d \in Owner(s, layout.slug) : TRUE, layout)

Restored(s, document) ==
  LET after[n \in 0..Len(document)] ==
        IF n = 0 THEN s ELSE Imported(after[n - 1], Clean(document[n]))
  IN  WithDefault(after[Len(document)])

-----------------------------------------------------------------------------
(* An import knows a dashboard by the slug it was exported under: that slug *)
(* is plain, and no other dashboard's comes out the same.                  *)
Recognised(d) ==
  \A e \in DOMAIN db.dashboards :
    Slugify[db.dashboards[e].slug] = db.dashboards[d].slug <=> e = d

(* The cards of a dashboard, however they are numbered.                    *)
Placed(s, d) ==
  [t \in {[y |-> s.cards[c].row, height |-> s.cards[c].height] : c \in CardsOf(s, d)} |->
     Cardinality({c \in CardsOf(s, d) : s.cards[c].row = t.y /\ s.cards[c].height = t.height})]

(* The cards as high as an import lets them be: a plugin's card that is    *)
(* not between 1 and 24 rows high comes back at the nearer end.            *)
Trimmed(s) ==
  [s EXCEPT !.cards = [c \in DOMAIN s.cards |->
                         [s.cards[c] EXCEPT !.height = Clamp(1, 24, s.cards[c].height)]]]

(* LAYOUT_SHARING.md: a complete dashboard layout is exported and imported.*)
(* Whatever edits and imports made of the database, its export imported    *)
(* with "replace" - over itself or on another installation - brings every  *)
(* dashboard back with its rows, every card where it was and - within an   *)
(* import's limits - as high, and the default, and nothing of what it      *)
(* replaces is left over.  (During an import the database is the one from  *)
(* before it.)                                                             *)
ExportRestores ==
  job = "none" => LET document == Exported(db) IN
    \A s \in {db} \cup {Installed(EmptyStore, template) : template \in Templates} :
      \A back \in Restored(s, document) :
        \A d \in DOMAIN db.dashboards : Recognised(d) =>
          \E e \in DOMAIN back.dashboards :
            /\ back.dashboards[e].slug = db.dashboards[d].slug
            /\ back.dashboards[e].rows = db.dashboards[d].rows
            /\ Placed(back, e) = Placed(Trimmed(db), d)
            /\ d \in Defaults(db) => Defaults(back) = {e}
=============================================================================
