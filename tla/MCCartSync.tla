----------------------------- MODULE MCCartSync -----------------------------
(* Sessions that begin with an empty cart, with a chosen item, or in the    *)
(* middle of a checkout.                                                    *)
EXTENDS CartSync

MCRows == {1, 2}
Filled == [NewCart(1, FALSE) EXCEPT !.rows[1] = 1]
MCInitCarts ==
  {NewCart(1, FALSE), Filled,
   [Filled EXCEPT !.ship = "PICKUP", !.phone = TRUE,
                  !.pay = "CASH_ON_DELIVERY"],
   [Filled EXCEPT !.ship = "STANDARD", !.addr = TRUE, !.phone = TRUE,
                  !.pay = "BANK_TRANSFER"]}
=============================================================================
