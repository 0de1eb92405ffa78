----------------------------- MODULE MCOptions ------------------------------
(* A product with sizes and colours, one with widths, one with nothing to  *)
(* choose, and one whose variants differ by a colour that one of them does *)
(* not have; at first all is in stock, or the first variant is not.        *)
EXTENDS Options
Variant(id, size, color, width) ==
  [id |-> id, size |-> size, color |-> color, width |-> width,
   age |-> None, length |-> None]
MCProducts == << <<Variant(1, "S", "red", None), Variant(2, "L", "red", None),
                   Variant(3, "L", "blue", None)>>,
                 <<Variant(4, None, None, 30), Variant(5, None, None, 32)>>,
                 <<Variant(6, None, None, None)>>,
                 <<Variant(7, "S", None, None), Variant(8, "S", "red", None)>> >>
MCStocks == {[v \in 1..8 |-> 2], [v \in 1..8 |-> IF v = 1 THEN 0 ELSE 1]}
=============================================================================
