----------------------------- MODULE MCTagCache -----------------------------
(* Two processes; a list that is found by its tag and the options of        *)
(* delivery, which have no tag and are named by their key.                  *)
EXTENDS TagCache, TLC

CONSTANTS list, delivery, products, w1, p1, p2, r1, r2

MCTagsOf == [k \in Keys |-> IF k = list THEN {products} ELSE {}]
MCChanges == [w \in Writers |-> Keys]
MCClearsKeys == [w \in Writers |-> {delivery}]
MCClearsTags == [w \in Writers |-> {products}]
=============================================================================
