------------------------------- MODULE LayoutStore -------------------------------
(***************************************************************************)
(* Dashboards and their cards in dashboard-matrix.db, and everything that  *)
(* writes them: start-up (database.init_db, auth.ensure_admin_password),   *)
(* the first-run wizard (setup.complete_setup), the administration routes  *)
(* and the layout import, with a server that may be killed at any step.    *)
(*                                                                         *)
(* These handlers run on one event loop and do not await while they hold a *)
(* connection, so each transaction is alone.  db is what is committed and  *)
(* work what the import in progress has written.  A request that is turned *)
(* down (404, 409, 422, or a constraint that rolls its transaction back)   *)
(* changes nothing and is not an action.                                   *)
(***************************************************************************)
EXTENDS Integers, Sequences, FiniteSetsExt

CONSTANTS
  Slugs,       \* names of dashboards in URLs
  Slugify,     \* what an import makes of them, _slugify(...)[:80]: a--b becomes a-b
  Existing,    \* databases of earlier versions the program may be started on
  Templates,   \* starter_templates.STARTER_TEMPLATES
  Incoming,    \* the dashboards a layout document may contain
  GridRows,    \* numbers of grid rows the administrator asks for
  CardRows,    \* rows and
  CardHeights, \* heights of cards the administrator asks for
  WidgetHeights, \* heights that manifests of plugins give their cards
  None,        \* no transaction
  MaxDash,     \* bound: ids of dashboards
  MaxCards,    \* bound: ids of cards
  MaxEdits,    \* bound: calls of the administration routes
  MaxDocument, \* bound: dashboards of one document
  MaxImports   \* bound: rows of layout_import_history

DashIds == 1..MaxDash
CardIds == 1..MaxCards

Dashboard == [slug : Slugs, is_default : BOOLEAN, rows : Nat \ {0}]

(* A dashboard of a document as it is uploaded, its numbers unchecked ...  *)
Document == [slug : Slugs, is_default : BOOLEAN, rows : Int, tiles : Seq([y : Int, height : Int])]

(* ... and a dashboard and a card as they are inserted.                    *)
Tile == [y : Nat, height : Nat \ {0}]
Layout == [slug : Slugs, is_default : BOOLEAN, rows : Nat \ {0}, tiles : Seq(Tile)]

Card == [dash : DashIds, row : Nat \ {0}, height : Nat]

(* A table: some of the ids, with a row for each.                          *)
IsTable(f, ids, Rows) == DOMAIN f \subseteq ids /\ f \in [DOMAIN f -> Rows]

(* The database's tables and settings.                                     *)
IsDatabase(s) ==
  s = [dashboards |-> s.dashboards, cards |-> s.cards,
       nextDash |-> s.nextDash, nextCard |-> s.nextCard,
       history |-> s.history, complete |-> s.complete, password |-> s.password]

(* What the schema promises.  AUTOINCREMENT never gives an id twice,       *)
(* dashboards.slug is UNIQUE and a card's dashboard exists                 *)
(* (tiles.dashboard_id REFERENCES dashboards); history counts the rows of  *)
(* layout_import_history, complete and password are the settings           *)
(* setup_complete and admin_password_hash.                                 *)
Sound(s) ==
  /\ IsDatabase(s)
  /\ IsTable(s.dashboards, DashIds, Dashboard)
  /\ \A d, e \in DOMAIN s.dashboards : s.dashboards[d].slug = s.dashboards[e].slug => d = e
  /\ IsTable(s.cards, CardIds, Card)
  /\ \A c \in DOMAIN s.cards : s.cards[c].dash \in DOMAIN s.dashboards
  /\ s.nextDash \in 1..MaxDash + 1
  /\ \A d \in DOMAIN s.dashboards : d < s.nextDash
  /\ s.nextCard \in 1..MaxCards + 1
  /\ \A c \in DOMAIN s.cards : c < s.nextCard
  /\ s.history \in 0..MaxImports
  /\ s.complete \in BOOLEAN
  /\ s.password \in {"none", "default", "chosen"}

Defaults(s) == {d \in DOMAIN s.dashboards : s.dashboards[d].is_default}

AtMostOneDefault(s) == \A d, e \in Defaults(s) : d = e

(* A new file holds no row; a database of an earlier version has at least  *)
(* one dashboard.  Templates name one or two dashboards, their cards in the*)
(* grid.                                                                   *)
ASSUME StoresAssumption ==
  /\ MaxDash \in Nat /\ MaxCards \in Nat /\ MaxEdits \in Nat
  /\ MaxDocument \in Nat /\ MaxImports \in Nat
  /\ \A s \in Existing :
       /\ Sound(s)
       /\ AtMostOneDefault(s)
       /\ DOMAIN s.dashboards # {}

ASSUME SlugsAssumption == Slugify \in [Slugs -> Slugs]

(* TileBase and TilePosition let no height above 24 through.  Nothing looks *)
(* at default_height in a manifest; one below 0 is left out.               *)
ASSUME InputsAssumption ==
  /\ Incoming \subseteq Document
  /\ \A t \in Templates :
       /\ t \in Seq(Layout)
       /\ Len(t) \in 1..2
       /\ Len(t) = 2 => t[1].slug # t[2].slug /\ ~(t[1].is_default /\ t[2].is_default)
       /\ \A k \in 1..Len(t) : \A i \in 1..Len(t[k].tiles) : t[k].tiles[i].y >= 1
  /\ GridRows \subseteq Nat \ {0}
  /\ CardRows \subseteq Nat \ {0}
  /\ CardHeights \subseteq 1..24
  /\ WidgetHeights \subseteq Nat

VARIABLES
  db,        \* the committed database
  work,      \* the database as the import in progress sees it, or None
  job,       \* the transaction in progress: "none", "setup" or "import"
  strategy,  \* conflict_strategy of the import
  taken,     \* how many dashboards of its document are done
  replaced,  \* the dashboards it replaced
  merged,    \* the dashboards it added cards to
  server,    \* "down", "booting" or "up"
  edits      \* calls of the administration routes so far

importVars == <<strategy, taken, replaced, merged>>
vars == <<db, work, job, importVars, server, edits>>

Strategies == {"rename", "replace", "skip", "merge"}

EmptyStore ==
  [dashboards |-> [d \in {} |-> None], cards |-> [c \in {} |-> None], nextDash |-> 1, nextCard |-> 1,
   history |-> 0, complete |-> FALSE, password |-> "none"]

-----------------------------------------------------------------------------
(* What the statements do to a database.                                   *)

Owner(s, slug) == {d \in DOMAIN s.dashboards : s.dashboards[d].slug = slug}

CardsOf(s, d) == {c \in DOMAIN s.cards : s.cards[c].dash = d}

(* UPDATE dashboards SET is_default=0 WHERE id<>keep                       *)
ClearedExcept(s, keep) ==
  [s EXCEPT !.dashboards =
     [d \in DOMAIN s.dashboards |->
        IF d = keep THEN s.dashboards[d]
        ELSE [s.dashboards[d] EXCEPT !.is_default = FALSE]]]

(* The row of dashboard d is written ...                                   *)
Wrote(s, d, row) ==
  [s EXCEPT !.dashboards = [e \in DOMAIN s.dashboards \cup {d} |->
                              IF e = d THEN row ELSE s.dashboards[e]]]

(* ... and when it is the default the others lose the flag; a slip: Wrote, *)
(* with which they keep it.                                                *)
Put(s, d, row) ==
  LET rest == IF row.is_default THEN ClearedExcept(s, d) ELSE s
  IN  [s EXCEPT !.dashboards = [e \in DOMAIN s.dashboards \cup {d} |->
                                  IF e = d THEN row ELSE rest.dashboards[e]]]

Inserted(s, row) == [Put(s, s.nextDash, row) EXCEPT !.nextDash = s.nextDash + 1]

DropCards(s, C) == [s EXCEPT !.cards = [c \in DOMAIN s.cards \ C |-> s.cards[c]]]

(* DELETE FROM dashboards, with the cascade; a slip: without it.           *)
DroppedAlone(s, D) ==
  [s EXCEPT !.dashboards = [d \in DOMAIN s.dashboards \ D |-> s.dashboards[d]]]

Dropped(s, D) ==
  [DropCards(s, UNION {CardsOf(s, d) : d \in D})
     EXCEPT !.dashboards = [d \in DOMAIN s.dashboards \ D |-> s.dashboards[d]]]

SetCard(s, c, card) ==
  [s EXCEPT !.cards = [k \in DOMAIN s.cards \cup {c} |-> IF k = c THEN card ELSE s.cards[k]]]

(* _insert_tiles: one card per tile, row_offset rows lower.                *)
Filled(s, d, tiles, offset) ==
  LET placed ==
        [s EXCEPT !.cards =
           [c \in DOMAIN s.cards \cup (s.nextCard .. s.nextCard + Len(tiles) - 1) |->
              IF c \in DOMAIN s.cards THEN s.cards[c]
              ELSE LET t == tiles[c - s.nextCard + 1]
                   IN  [dash |-> d, row |-> t.y + offset, height |-> t.height]]]
  IN  [placed EXCEPT !.nextCard = s.nextCard + Len(tiles)]

(* MAX(row_pos + height - 1), 0 without cards; a slip: MAX(row_pos).       *)
LowestRow(s, d) == Max({0} \cup {s.cards[c].row : c \in CardsOf(s, d)})

Bottom(s, d) ==
  Max({0} \cup {s.cards[c].row + s.cards[c].height - 1 : c \in CardsOf(s, d)})

HasRoom(s, layout) ==
  /\ s.nextDash \in DashIds
  /\ s.nextCard + Len(layout.tiles) - 1 <= MaxCards

(* A dashboard of a template or a document becomes a new one.              *)
Added(s, slug, layout) ==
  Filled(Inserted(s, [slug |-> slug, is_default |-> layout.is_default, rows |-> layout.rows]),
         s.nextDash, layout.tiles, 0)

(* ... or takes the place of the cards and settings of dashboard d.        *)
Replaced(s, d, layout) ==
  Filled(Put(DropCards(s, CardsOf(s, d)), d,
             [slug |-> layout.slug, is_default |-> layout.is_default, rows |-> layout.rows]),
         d, layout.tiles, 0)

Clamp(low, high, n) == IF n < low THEN low ELSE IF n > high THEN high ELSE n

(* _validate_document: a plain slug, 1 to 24 rows, cards from row 1 on and *)
(* 1 to 24 rows high.                                                      *)
Clean(layout) ==
  [slug |-> Slugify[layout.slug],
   is_default |-> layout.is_default,
   rows |-> Clamp(1, 24, layout.rows),
   tiles |-> [i \in 1..Len(layout.tiles) |->
                LET tile == layout.tiles[i]
                IN  [y |-> IF tile.y < 1 THEN 1 ELSE tile.y, height |-> Clamp(1, 24, tile.height)]]]

(* starter_templates.install_template with replace_existing: is_default is *)
(* stored as the template has it.                                          *)
FromTemplate(s, layout) ==
  Filled([Wrote(s, s.nextDash,
                [slug |-> layout.slug, is_default |-> layout.is_default, rows |-> layout.rows])
            EXCEPT !.nextDash = s.nextDash + 1],
         s.nextDash, layout.tiles, 0)

Installed(s, template) ==
  LET first == FromTemplate(Dropped(s, DOMAIN s.dashboards), template[1])
  IN  IF Len(template) = 1 THEN first ELSE FromTemplate(first, template[2])

TemplateFits(s, template) ==
  LET tiles == IF Len(template) = 1 THEN Len(template[1].tiles)
               ELSE Len(template[1].tiles) + Len(template[2].tiles)
  IN  /\ s.nextDash + Len(template) - 1 <= MaxDash
      /\ s.nextCard + tiles - 1 <= MaxCards

(* The end of an import: when no dashboard is the default, the first one in*)
(* sort order becomes it; here any may be first.                           *)
WithDefault(s) ==
  IF Defaults(s) # {} \/ DOMAIN s.dashboards = {} THEN {s}
  ELSE {[s EXCEPT !.dashboards[d].is_default = TRUE] : d \in DOMAIN s.dashboards}

-----------------------------------------------------------------------------
Init ==
  /\ db \in {EmptyStore} \cup Existing
  /\ work = None
  /\ job = "none"
  /\ strategy = "rename"
  /\ taken = 0
  /\ replaced = {}
  /\ merged = {}
  /\ server = "down"
  /\ edits = 0

(* The connection is closed: work is gone.                                 *)
TransactionOver ==
  /\ job' = "none"
  /\ work' = None
  /\ strategy' = "rename"
  /\ taken' = 0
  /\ replaced' = {}
  /\ merged' = {}

(* init_db in one transaction: a database that has dashboards needs no     *)
(* wizard, and migrate_clock_to_titlebar drops the clock cards titled      *)
(* "Clock" or "Local Time" - here a card may or may not be one.            *)
(* A slip: the wizard is asked for whatever the database holds.            *)
InitDbUnflagged ==
  /\ server = "down"
  /\ server' = "booting"
  /\ \E clocks \in SUBSET DOMAIN db.cards : db' = DropCards(db, clocks)
  /\ UNCHANGED <<work, job, importVars, edits>>

InitDb ==
  /\ server = "down"
  /\ server' = "booting"
  /\ \E clocks \in SUBSET DOMAIN db.cards :
       db' = [DropCards(db, clocks) EXCEPT
                !.complete = db.complete \/ DOMAIN db.dashboards # {}]
  /\ UNCHANGED <<work, job, importVars, edits>>

EnsureAdminPassword ==
  /\ server = "booting"
  /\ server' = "up"
  /\ db' = [db EXCEPT !.password = IF db.password = "none" THEN "default" ELSE db.password]
  /\ UNCHANGED <<work, job, importVars, edits>>

(* The process is killed: what was not committed is gone.                  *)
Crash ==
  /\ server # "down"
  /\ server' = "down"
  /\ TransactionOver
  /\ UNCHANGED <<db, edits>>

-----------------------------------------------------------------------------
(* complete_setup: the template and the settings in one transaction, the   *)
(* password in the next.                                                   *)

CompleteSetup(template) ==
  /\ server = "up"
  /\ job = "none"
  /\ ~db.complete
  /\ TemplateFits(db, template)
  /\ db' = [Installed(db, template) EXCEPT !.complete = TRUE]
  /\ job' = "setup"
  /\ UNCHANGED <<work, importVars, server, edits>>

SetupPassword ==
  /\ job = "setup"
  /\ db' = [db EXCEPT !.password = "chosen"]
  /\ job' = "none"
  /\ UNCHANGED <<work, importVars, server, edits>>

-----------------------------------------------------------------------------
(* The administration routes; first_run_gate keeps them closed until the   *)
(* wizard is done.                                                         *)

Edit(s) ==
  /\ server = "up"
  /\ job = "none"
  /\ db.complete
  /\ edits < MaxEdits
  /\ edits' = edits + 1
  /\ db' = s
  /\ UNCHANGED <<work, job, importVars, server>>

CreateDashboard(row) ==
  /\ db.nextDash \in DashIds
  /\ row.rows <= 12
  /\ Owner(db, row.slug) = {}
  /\ Edit(Inserted(db, row))

UpdateDashboard(d, row) ==
  /\ row.rows <= 12
  /\ Owner(db, row.slug) \subseteq {d}
  /\ Edit(Put(db, d, row))

(* A slip: nothing asks whether it is the last one.                        *)
DeleteAnyDashboard(d) == Edit(Dropped(db, {d}))

DeleteDashboard(d) ==
  /\ Cardinality(DOMAIN db.dashboards) > 1
  /\ Edit(Dropped(db, {d}))

(* create_tile and add_catalog_tile.                                       *)
CreateTile(card) ==
  /\ db.nextCard \in CardIds
  /\ Edit([SetCard(db, db.nextCard, card) EXCEPT !.nextCard = db.nextCard + 1])

(* As high as the plugin's manifest says.                                  *)
AddPluginWidget(card) ==
  /\ db.nextCard \in CardIds
  /\ Edit([SetCard(db, db.nextCard, card) EXCEPT !.nextCard = db.nextCard + 1])

UpdateTile(c, card) == Edit(SetCard(db, c, card))

(* Items of cards that are gone are passed over.                           *)
UpdatePositions(positions) ==
  Edit([db EXCEPT !.cards =
          [c \in DOMAIN db.cards |->
             IF c \in DOMAIN positions
             THEN [db.cards[c] EXCEPT !.row = positions[c].row, !.height = positions[c].height]
             ELSE db.cards[c]]])

DeleteTile(c) == Edit(DropCards(db, {c}))

UpdateAdminPassword == Edit([db EXCEPT !.password = "chosen"])

Administrate ==
  \/ \E row \in [slug : Slugs, is_default : BOOLEAN, rows : GridRows] :
       \/ CreateDashboard(row)
       \/ \E d \in DOMAIN db.dashboards : UpdateDashboard(d, row)
  \/ \E d \in DOMAIN db.dashboards : DeleteDashboard(d)
  \/ \E card \in [dash : DOMAIN db.dashboards, row : CardRows, height : CardHeights] :
       \/ CreateTile(card)
       \/ \E c \in DOMAIN db.cards : UpdateTile(c, card)
  \/ \E card \in [dash : DOMAIN db.dashboards, row : CardRows, height : WidgetHeights] :
       AddPluginWidget(card)
  \/ \E moved \in SUBSET CardIds :
       \E positions \in [moved -> [row : CardRows, height : CardHeights]] :
         UpdatePositions(positions)
  \/ \E c \in DOMAIN db.cards : DeleteTile(c)
  \/ UpdateAdminPassword

-----------------------------------------------------------------------------
(* layout_imports.import_endpoint: one transaction, one step per dashboard *)
(* of the document.                                                        *)

ImportBegin(how) ==
  /\ server = "up"
  /\ job = "none"
  /\ db.complete
  /\ db.history < MaxImports
  /\ job' = "import"
  /\ work' = db
  /\ strategy' = how
  /\ UNCHANGED <<db, taken, replaced, merged, server, edits>>

Importing == job = "import" /\ taken < MaxDocument

Take(s) ==
  /\ taken' = taken + 1
  /\ work' = s
  /\ UNCHANGED <<db, job, strategy, server, edits>>

ImportSkip(layout) ==
  /\ Importing
  /\ strategy = "skip"
  /\ Owner(work, layout.slug) # {}
  /\ Take(work)
  /\ UNCHANGED <<replaced, merged>>

(* A slip: DELETE FROM tiles without its WHERE.                            *)
ImportReplaceAll(layout) ==
  /\ Importing
  /\ strategy = "replace"
  /\ HasRoom(work, layout)
  /\ \E d \in Owner(work, layout.slug) :
       /\ Take(Filled(Put(DropCards(work, DOMAIN work.cards), d,
                          [slug |-> layout.slug, is_default |-> layout.is_default, rows |-> layout.rows]),
                      d, layout.tiles, 0))
       /\ replaced' = replaced \cup {d}
  /\ UNCHANGED merged

ImportReplace(layout) ==
  /\ Importing
  /\ strategy = "replace"
  /\ HasRoom(work, layout)
  /\ \E d \in Owner(work, layout.slug) :
       /\ Take(Replaced(work, d, layout))
       /\ replaced' = replaced \cup {d}
  /\ UNCHANGED merged

ImportMerge(layout) ==
  /\ Importing
  /\ strategy = "merge"
  /\ HasRoom(work, layout)
  /\ \E d \in Owner(work, layout.slug) :
       /\ Take(Filled(work, d, layout.tiles, Bottom(work, d)))
       /\ merged' = merged \cup {d}
  /\ UNCHANGED replaced

(* A slug that is taken is only reached by "rename": _unique_slug shortens *)
(* it and tries suffixes until one is free, here any that is free.         *)
ImportCreate(layout) ==
  /\ Importing
  /\ strategy = "rename" \/ Owner(work, layout.slug) = {}
  /\ HasRoom(work, layout)
  /\ \E slug \in Slugs :
       /\ Owner(work, slug) = {}
       /\ Owner(work, layout.slug) = {} => slug = layout.slug
       /\ Take(Added(work, slug, layout))
  /\ UNCHANGED <<replaced, merged>>

ImportDashboard(layout) ==
  \/ ImportSkip(layout)
  \/ ImportReplace(layout)
  \/ ImportMerge(layout)
  \/ ImportCreate(layout)

(* An exception in the transaction closes the connection without a commit. *)
ImportFails ==
  /\ job = "import"
  /\ TransactionOver
  /\ UNCHANGED <<db, server, edits>>

(* A slip: no dashboard is made the default.                               *)
ImportCommitAsIs ==
  /\ job = "import"
  /\ taken > 0
  /\ db' = [work EXCEPT !.history = work.history + 1]
  /\ TransactionOver
  /\ UNCHANGED <<server, edits>>

ImportCommit ==
  /\ job = "import"
  /\ taken > 0
  /\ \E s \in WithDefault(work) : db' = [s EXCEPT !.history = s.history + 1]
  /\ TransactionOver
  /\ UNCHANGED <<server, edits>>

-----------------------------------------------------------------------------
Next ==
  \/ InitDb
  \/ EnsureAdminPassword
  \/ Crash
  \/ \E template \in Templates : CompleteSetup(template)
  \/ SetupPassword
  \/ Administrate
  \/ \E how \in Strategies : ImportBegin(how)
  \/ \E layout \in Incoming : ImportDashboard(Clean(layout))
  \/ ImportFails
  \/ ImportCommit

Spec == Init /\ [][Next]_vars

-----------------------------------------------------------------------------
(* The variables' types: the committed database and the one an import      *)
(* works on keep what the schema promises.                                 *)
TypeOK ==
  /\ Sound(db)
  /\ job \in {"none", "setup", "import"}
  /\ IF job = "import" THEN Sound(work) ELSE work = None
  /\ strategy \in Strategies
  /\ taken \in 0..MaxDocument
  /\ replaced \subseteq DashIds
  /\ merged \subseteq DashIds
  /\ server \in {"down", "booting", "up"}
  /\ edits \in 0..MaxEdits

(* Nothing in the schema keeps is_default single: create, update, replace  *)
(* and import each clear it elsewhere.  Readers never see two defaults.    *)
OneDefault == AtMostOneDefault(db)

(* Once the wizard is done there is a dashboard to show: whatever is       *)
(* deleted, imported or interrupted ("At least one dashboard is required").*)
NeverEmpty == db.complete => DOMAIN db.dashboards # {}

(* install_template starts with DELETE FROM tiles and dashboards.  Because *)
(* start-up marks a database with dashboards as set up before any request  *)
(* is served, the wizard never finds a dashboard to delete.                *)
SetupWipesNothing ==
  [][job = "none" /\ job' = "setup" => DOMAIN db.dashboards = {}]_vars

Committed == job = "import" /\ job' = "none" /\ db' # db

(* What LAYOUT_SHARING.md says of the strategies: "rename" preserves and   *)
(* "skip" ignores the dashboards that exist, "replace" touches those with a*)
(* matching slug only, "merge" only adds cards - and whatever else is in   *)
(* the document, each of them comes out as it was, is_default apart.       *)
ImportKeeps ==
  [][Committed =>
       \A d \in DOMAIN db.dashboards \ (IF strategy = "replace" THEN replaced ELSE {}) :
         /\ d \in DOMAIN db'.dashboards
         /\ db'.dashboards[d].slug = db.dashboards[d].slug
         /\ db'.dashboards[d].rows = db.dashboards[d].rows
         /\ \A c \in CardsOf(db, d) : c \in DOMAIN db'.cards /\ db'.cards[c] = db.cards[c]
         /\ CardsOf(db', d) # CardsOf(db, d) => strategy = "merge" /\ d \in merged]_vars

(* "merge: add incoming cards beneath the existing card rows": no imported *)
(* card starts in a row that a card of the dashboard already covers.       *)
MergeBelow ==
  [][Committed =>
       \A d \in merged \cap DOMAIN db.dashboards :
         \A old \in CardsOf(db, d), new \in CardsOf(db', d) \ CardsOf(db, d) :
           db'.cards[new].row > db.cards[old].row + db.cards[old].height - 1]_vars

(* After an import exactly one dashboard is the default, even when the one *)
(* that was has been replaced by one that is not.                          *)
ImportLeavesDefault == [][Committed => \E d \in DOMAIN db'.dashboards : Defaults(db') = {d}]_vars

(* What response_model=Dashboard asserts of every stored row (models.py:   *)
(* rows between 1 and 12): the API can return what is stored.              *)
StoredDashboardsReadable == \A d \in DOMAIN db.dashboards : db.dashboards[d].rows <= 12

(* README: "The first-run wizard replaces the initial administrator        *)
(* password."  A server that is set up does not run with the initial one.  *)
WizardReplacesPassword ==
  server = "up" /\ job = "none" /\ db.complete => db.password = "chosen"
=============================================================================
