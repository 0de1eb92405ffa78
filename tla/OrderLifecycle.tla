--------------------------- MODULE OrderLifecycle ---------------------------
(***************************************************************************)
(* What the shop promises about one order, whoever touches it: an order is *)
(* placed once, is paid at most once, can be deleted only while it is not  *)
(* paid, and being paid has each of its effects at most once: every line   *)
(* is taken from the stock at most once and every follow-up job is         *)
(* requested at most once.  Checkout is shown to implement it.             *)
(***************************************************************************)
CONSTANTS OrderIds, Variants, FollowUps

VARIABLES stage,      \* "none", "open", "paid" or "deleted"
          taken,      \* the variants taken from the stock for the order
          requested   \* the follow-up jobs requested for the order

vars == <<stage, taken, requested>>

Init == /\ stage = [o \in OrderIds |-> "none"]
        /\ taken = [o \in OrderIds |-> {}]
        /\ requested = [o \in OrderIds |-> {}]

Place(o) == /\ stage[o] = "none"
            /\ stage' = [stage EXCEPT ![o] = "open"]
            /\ UNCHANGED <<taken, requested>>

Delete(o) == /\ stage[o] = "open"
             /\ stage' = [stage EXCEPT ![o] = "deleted"]
             /\ UNCHANGED <<taken, requested>>

Pay(o) == /\ stage[o] = "open"
          /\ stage' = [stage EXCEPT ![o] = "paid"]
          /\ UNCHANGED <<taken, requested>>

Take(o, v) == /\ stage[o] = "paid"
              /\ v \notin taken[o]
              /\ taken' = [taken EXCEPT ![o] = @ \union {v}]
              /\ UNCHANGED <<stage, requested>>

Request(o, f) == /\ stage[o] = "paid"
                 /\ f \notin requested[o]
                 /\ requested' = [requested EXCEPT ![o] = @ \union {f}]
                 /\ UNCHANGED <<stage, taken>>

Next == \E o \in OrderIds :
          \/ Place(o) \/ Delete(o) \/ Pay(o)
          \/ \E v \in Variants : Take(o, v)
          \/ \E f \in FollowUps : Request(o, f)

Spec == Init /\ [][Next]_vars

=============================================================================
