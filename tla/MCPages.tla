------------------------------- MODULE MCPages ------------------------------
(* Two conversations and one member of the staff; two images and one page  *)
(* at the gallery; a list of one row, of two at most; four products; two   *)
(* subscriptions; three carts and three items.                             *)
EXTENDS Pages

CONSTANTS a1, t1

(* A conversation that was passed on to the staff, and one the agent has   *)
(* answered.                                                               *)
Said(by) == [status |-> "ACTIVE", support |-> None,
             log |-> <<[id |-> 1, by |-> "USER"], [id |-> 2, by |-> by]>>]
MCConvs == {1, 2}
MCAdmins == {a1}
MCTalks == {Said("ESCALATED"), Said("BOT")}

(* Two images: one without a product and one deleted, or none yet.         *)
MCImages == {1, 2}
MCGalleries == {<<"loose", "gone">>, <<"none", "none">>}
MCGalleryTabs == {t1}
MCFields == {1}

MCFormRows == {1, 2}

(* A product with sizes and colours, one with widths, one with nothing to  *)
(* choose, and one whose variants differ by a colour that one of them does *)
(* not have; at first all is in stock, or the first variant is not.        *)
Variant(id, size, color, width) ==
  [id |-> id, size |-> size, color |-> color, width |-> width,
   age |-> None, length |-> None]
MCProducts == << <<Variant(1, "S", "red", None), Variant(2, "L", "red", None),
                   Variant(3, "L", "blue", None)>>,
                 <<Variant(4, None, None, 30), Variant(5, None, None, 32)>>,
                 <<Variant(6, None, None, None)>>,
                 <<Variant(7, "S", None, None), Variant(8, "S", "red", None)>> >>
MCStocks == {[v \in 1..8 |-> 2], [v \in 1..8 |-> IF v = 1 THEN 0 ELSE 1]}
=============================================================================
