------------------------------ MODULE MCLayoutStore ------------------------------
(* Small instances of LayoutStore and LayoutExport for TLC.                *)
EXTENDS LayoutExport, TLC

CONSTANTS main, other   \* two slugs the templates name

Page(slug, default, rows, tiles) ==
  [slug |-> slug, is_default |-> default, rows |-> rows, tiles |-> tiles]

Tall == [y |-> 1, height |-> 2]
Top  == [y |-> -1, height |-> 0]   \* a document may place a card above the grid, and flat

(* One of the slugs an administrator may choose is not plain: main-, say.  *)
CONSTANT odd

MCSlugify == [slug \in Slugs |-> IF slug = odd THEN main ELSE slug]

(* A blank template and one with two dashboards.                           *)
MCTemplates ==
  {<<Page(main, TRUE, 3, <<>>)>>,
   <<Page(main, TRUE, 3, <<Tall>>), Page(other, FALSE, 2, <<>>)>>}

(* Documents over every slug, the default with one card, others with two.  *)
MCIncoming ==
  {Page(slug, TRUE, 3, <<Top>>) : slug \in Slugs}
    \cup {Page(slug, FALSE, 3, <<Top, Tall>>) : slug \in Slugs}

(* A database of an earlier version: one dashboard, one card, no password. *)
MCExisting ==
  {[dashboards |-> 1 :> [slug |-> other, is_default |-> default, rows |-> 3],
    cards |-> 1 :> [dash |-> 1, row |-> 1, height |-> 2],
    nextDash |-> 2, nextCard |-> 2,
    history |-> 0, complete |-> FALSE, password |-> "none"] : default \in BOOLEAN}

(* Layouts of any length: the editor's grid of 24 rows, and beyond.        *)
MCTallIncoming == {Page(other, FALSE, rows, <<>>) : rows \in {12, 24, 30}}
=============================================================================
