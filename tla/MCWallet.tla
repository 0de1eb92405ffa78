------------------------------ MODULE MCWallet ------------------------------
(* Two users for TLC: ann waits for answers, bob does not.  The requests    *)
(* and job attempts are interchangeable.                                    *)
EXTENDS Wallet, TLC

CONSTANTS ann, bob, o1, k1, k2, k3

MCUsers == {ann, bob}
MCCarts == {1, 2}
MCOwner == [c \in MCCarts |-> IF c = 1 THEN ann ELSE bob]
MCBalance == [u \in MCUsers |-> 1]
MCOrders == {o1}
MCBuyer == [o \in MCOrders |-> bob]
MCReferrer == [o \in MCOrders |-> ann]
MCDiscount == [o \in MCOrders |-> 1]
Symmetric == Permutations(Calls)
=============================================================================
