----------------------------- MODULE MCCheckout -----------------------------
(* A small shop for TLC: one user with two carts that may both be active,  *)
(* one of them with a coupon and paid in full from the wallet.             *)
EXTENDS Checkout, TLC

CONSTANTS u1, v1, v2, o1, o2, k1, k2

MCUsers == {u1}
MCVariants == {v1, v2}
MCCarts == {1, 2}
MCOwner == [c \in MCCarts |-> u1]
MCLines == [c \in MCCarts |-> [v \in MCVariants |-> IF v = v1 THEN 1 ELSE 2]]
MCStock == [v \in MCVariants |-> IF v = v1 THEN 2 ELSE 3]
MCVariants1 == {v1}
MCLines1 == [c \in MCCarts |-> [v \in MCVariants1 |-> 1]]
MCStock1 == [v \in MCVariants1 |-> 1]
MCOrders == {o1, o2}
MCCalls == {k1, k2}
MCSymmetry == Permutations(MCOrders) \union Permutations(MCCalls)
=============================================================================
