------------------------------ MODULE Checkout ------------------------------
(***************************************************************************)
(* Turning a cart into a paid order: OrderService of the backend           *)
(* (services/order.py) with the routes that call it (routes/payments.py,   *)
(* routes/order.py) and the order_created job of the worker.               *)
(*                                                                         *)
(* Calls run concurrently and interleave at every await: one action per    *)
(* database statement, transaction or queue operation.  A call is          *)
(*   charge   record_payment_success, from the Paystack webhook or from    *)
(*            the client's verify request (both deliver one charge)        *)
(*   place    POST /order/                                                 *)
(*   confirm  PATCH /payment/{id}/status, by an administrator              *)
(*   return   POST /order/{id}/return, by an administrator                 *)
(* Amounts of money are abstracted; Wallet models them.                    *)
(***************************************************************************)
EXTENDS Integers, FiniteSets

CONSTANTS
  Users, Variants,
  Carts,            \* cart ids, a later cart has a larger id
  Owner,            \* the user of a cart, None for a guest's
  CartLines,        \* quantity of every variant in a cart, 0 for no line
  CouponCarts,      \* the carts that carry a coupon
  WalletCarts,      \* the carts the wallet pays in full (total <= 0)
  InitStock,        \* inventory of every variant at the start
  OrderIds,         \* bound: ids of the orders that can be created
  Calls,            \* bound: requests the backend serves, each once
  Kinds,            \* which kinds of call this instance serves
  CartLinkMoves,    \* may order.create take the cart away from an order?
  MaxFaults,        \* bound: failing statements and lost processes
  None

AllKinds == {"charge", "place", "confirm", "return"}
Methods == {"PAYSTACK", "WALLET", "BANK_TRANSFER"}
PaymentStatuses == {"PENDING", "FAILED", "SUCCESS", "REFUNDED"}
FollowUps == {"process_referral", "generate_and_send_invoice"}
JobNames == FollowUps \union {"order_created"}

ASSUME CheckoutAssumption ==
  /\ Carts \subseteq Nat
  /\ Owner \in [Carts -> Users \union {None}]
  /\ CartLines \in [Carts -> [Variants -> Nat]]
  /\ CouponCarts \subseteq Carts
  /\ WalletCarts \subseteq Carts
  /\ InitStock \in [Variants -> Nat]
  /\ Kinds \subseteq AllKinds
  /\ CartLinkMoves \in BOOLEAN
  /\ MaxFaults \in Nat
  /\ None \notin Users /\ None \notin Carts /\ None \notin Variants
  /\ None \notin OrderIds /\ None \notin Calls /\ None \notin Methods

VARIABLES
  cartStatus,   \* Cart.status
  variant,      \* ProductVariant rows: inventory and status
  uses,         \* Coupon.current_uses
  order,        \* Order rows with their items and their Payment row
  jobs,         \* jobs[o][j]: how many jobs j were put on the arq queue for o
  pc, call,     \* where a call stands and its local variables
  faults,       \* how many faults there have been
  payer,        \* history: the call that created the Payment row of an order
  deducted      \* history: how often a line was taken from the inventory

shopVars == <<cartStatus, uses>>
historyVars == <<payer, deducted>>
vars == <<cartStatus, variant, uses, order, jobs, pc, call, faults,
          payer, deducted>>

PCs == {"idle", "find", "cart", "coupon", "create", "created", "load", "pay",
        "mark", "deduct", "deducting", "invoice", "check", "set",
        "item", "restock", "commit", "end", "ok", "failed"}
Finished == {"ok", "failed"}

VariantRow == [inventory : Nat, status : {"IN_STOCK", "OUT_OF_STOCK"}]
OrderRow == [stage   : {"none", "placed", "deleted"},
             cart    : Carts \union {None},
             lines   : [Variants -> Nat],
             coupon  : BOOLEAN,
             status  : PaymentStatuses,
             method  : Methods \union {None},   \* None: no Payment row
             charge  : Carts \union {None}]     \* the charge it records
CallRow == [kind   : Kinds \union {None},
            user   : Users \union {None},
            cart   : Carts \union {None},       \* cart_number of the call
            from   : Carts \union {None},       \* the cart it converts
            ord    : OrderIds \union {None},
            method : Methods \union {None},
            status : PaymentStatuses,
            lines  : [Variants -> Nat],         \* items read, 0 when handled
            item   : Variants \union {None},
            seen   : VariantRow]

NoLines == [v \in Variants |-> 0]
NoRow == [inventory |-> 0, status |-> "IN_STOCK"]
NoOrder == [stage |-> "none", cart |-> None, lines |-> NoLines,
            coupon |-> FALSE, status |-> "PENDING", method |-> None,
            charge |-> None]
NoCall == [kind |-> None, user |-> None, cart |-> None, from |-> None,
           ord |-> None, method |-> None, status |-> "PENDING",
           lines |-> NoLines, item |-> None, seen |-> NoRow]

(* Any set of carts may be active: two requests of a user without a cart   *)
(* may both create one.                                                    *)
Init ==
  /\ cartStatus \in [Carts -> {"ACTIVE", "CONVERTED"}]
  /\ variant = [v \in Variants |->
                  [inventory |-> InitStock[v],
                   status |-> IF InitStock[v] = 0 THEN "OUT_OF_STOCK"
                                                  ELSE "IN_STOCK"]]
  /\ uses = 0
  /\ order = [o \in OrderIds |-> NoOrder]
  /\ jobs = [o \in OrderIds |-> [j \in JobNames |-> 0]]
  /\ pc = [k \in Calls |-> "idle"]
  /\ call = [k \in Calls |-> NoCall]
  /\ faults = 0
  /\ payer = [o \in OrderIds |-> None]
  /\ deducted = [o \in OrderIds |-> NoLines]

Placed(o) == order[o].stage = "placed"
Paid(o) == Placed(o) /\ order[o].method # None
LinesOf(o) == {v \in Variants : order[o].lines[v] > 0}
OrderOfCart(c) == {o \in OrderIds : Placed(o) /\ order[o].cart = c}

Goto(k, p) == pc' = [pc EXCEPT ![k] = p]
Local(k, new) == call' = [call EXCEPT ![k] = new]
Answer(k, p) ==
  /\ Goto(k, p)
  /\ Local(k, [NoCall EXCEPT !.kind = call[k].kind, !.cart = call[k].cart,
                             !.ord = call[k].ord])
SetOrder(o, row) == order' = [order EXCEPT ![o] = row]
SetVariant(v, row) == variant' = [variant EXCEPT ![v] = row]
Enqueue(o, j) == jobs' = [jobs EXCEPT ![o][j] = @ + 1]

-----------------------------------------------------------------------------
(* A request arrives.  A charge is delivered any number of times, also     *)
(* after it was recorded.                                                  *)

Receive(k, kind, p, new) ==
  /\ pc[k] = "idle"
  /\ kind \in Kinds
  /\ Goto(k, p)
  /\ Local(k, [new EXCEPT !.kind = kind])
  /\ UNCHANGED <<shopVars, variant, order, jobs, faults, historyVars>>

Charge(k, c) ==
  /\ Owner[c] # None
  /\ Receive(k, "charge", "find",
             [NoCall EXCEPT !.user = Owner[c], !.cart = c])

Place(k, u, c) ==
  Receive(k, "place", "cart", [NoCall EXCEPT !.user = u, !.cart = c])

Confirm(k, o, s) ==
  Receive(k, "confirm", "check", [NoCall EXCEPT !.ord = o, !.status = s])

Return(k, o, v) ==
  Receive(k, "return", "item", [NoCall EXCEPT !.ord = o, !.item = v])

-----------------------------------------------------------------------------
(* record_payment_success: an order the cart already has is reused.        *)

(* Mutant: an order of the cart is taken for a recorded payment.           *)
FindOrderIgnoringPayment(k) ==
  /\ pc[k] = "find"
  /\ LET found == OrderOfCart(call[k].cart) IN
     IF found = {}
       THEN Goto(k, "cart") /\ UNCHANGED call
       ELSE \E o \in found :
              /\ Local(k, [call[k] EXCEPT !.ord = o, !.method = "PAYSTACK"])
              /\ Goto(k, "end")
  /\ UNCHANGED <<shopVars, variant, order, jobs, faults, historyVars>>

FindOrder(k) ==
  /\ pc[k] = "find"
  /\ LET found == OrderOfCart(call[k].cart) IN
     IF found = {}
       THEN Goto(k, "cart") /\ UNCHANGED call
       ELSE \E o \in found :
              /\ Local(k, [call[k] EXCEPT !.ord = o, !.method = "PAYSTACK"])
              /\ Goto(k, IF Paid(o) THEN "end" ELSE "load")
  /\ UNCHANGED <<shopVars, variant, order, jobs, faults, historyVars>>

(* create_order_from_cart: get_active_cart prefers the newest active cart  *)
(* of the user to the cart whose number the call was given.                *)
ActiveCart(u, c) ==
  LET mine == {d \in Carts : Owner[d] = u /\ cartStatus[d] = "ACTIVE"} IN
  IF mine # {} THEN {d \in mine : \A e \in mine : e <= d}
               ELSE {d \in {c} : cartStatus[d] = "ACTIVE"}

Orderable(c) ==
  LET wanted == {v \in Variants : CartLines[c][v] > 0} IN
  wanted # {} /\ \A v \in wanted : variant[v].status # "OUT_OF_STOCK"

(* Mutant: the use of the coupon is not counted.                           *)
PickCartUncounted(k) ==
  /\ pc[k] = "cart"
  /\ LET picked == {c \in ActiveCart(call[k].user, call[k].cart) :
                      Orderable(c)} IN
     \/ /\ picked = {}
        /\ Answer(k, "failed")
     \/ \E c \in picked :
          /\ Local(k, [call[k] EXCEPT !.from = c])
          /\ Goto(k, "create")
  /\ UNCHANGED <<shopVars, variant, order, jobs, faults, historyVars>>

PickCart(k) ==
  /\ pc[k] = "cart"
  /\ LET picked == {c \in ActiveCart(call[k].user, call[k].cart) :
                      Orderable(c)} IN
     \/ /\ picked = {}
        /\ Answer(k, "failed")
     \/ \E c \in picked :
          /\ Local(k, [call[k] EXCEPT !.from = c])
          /\ Goto(k, IF c \in CouponCarts THEN "coupon" ELSE "create")
  /\ UNCHANGED <<shopVars, variant, order, jobs, faults, historyVars>>

(* increment_coupon_usage commits its own transaction, before the order.   *)
CountCoupon(k) ==
  /\ pc[k] = "coupon"
  /\ uses' = uses + 1
  /\ Goto(k, "create")
  /\ UNCHANGED <<cartStatus, variant, order, jobs, call, faults, historyVars>>

(* order.create.  Order.cart_id is unique and Order.cart is optional: when *)
(* the cart has an order already the statement fails or moves the link.    *)
CreateOrder(k) ==
  /\ pc[k] = "create"
  /\ LET c == call[k].from
         linked == OrderOfCart(c) IN
     \/ /\ linked # {}
        /\ Answer(k, "failed")
        /\ UNCHANGED order
     \/ /\ linked = {} \/ CartLinkMoves
        /\ \E o \in OrderIds :
             /\ order[o].stage = "none"
             /\ order' = [p \in OrderIds |->
                  IF p = o
                    THEN [NoOrder EXCEPT !.stage = "placed", !.cart = c,
                            !.lines = CartLines[c],
                            !.coupon = (c \in CouponCarts)]
                  ELSE IF p \in linked THEN [order[p] EXCEPT !.cart = None]
                  ELSE order[p]]
             /\ Local(k, [call[k] EXCEPT !.ord = o])
             /\ Goto(k, "created")
  /\ UNCHANGED <<shopVars, variant, jobs, faults, historyVars>>

(* The order_created job is queued; an order the wallet pays in full is    *)
(* finalised at once, and the order of a charge by its caller.             *)
(* Mutant: an order the wallet pays in full is not announced to the worker. *)
QueueCreatedUnlessWallet(k) ==
  /\ pc[k] = "created"
  /\ IF call[k].from \in WalletCarts
       THEN /\ Local(k, [call[k] EXCEPT !.method = "WALLET"])
            /\ Goto(k, "load")
            /\ UNCHANGED jobs
       ELSE /\ Enqueue(call[k].ord, "order_created")
            /\ IF call[k].kind = "charge"
                 THEN /\ Local(k, [call[k] EXCEPT !.method = "PAYSTACK"])
                      /\ Goto(k, "load")
                 ELSE Answer(k, "ok")
  /\ UNCHANGED <<shopVars, variant, order, faults, historyVars>>

QueueCreated(k) ==
  /\ pc[k] = "created"
  /\ Enqueue(call[k].ord, "order_created")
  /\ IF call[k].from \in WalletCarts
       THEN /\ Local(k, [call[k] EXCEPT !.method = "WALLET"])
            /\ Goto(k, "load")
     ELSE IF call[k].kind = "charge"
       THEN /\ Local(k, [call[k] EXCEPT !.method = "PAYSTACK"])
            /\ Goto(k, "load")
     ELSE Answer(k, "ok")
  /\ UNCHANGED <<shopVars, variant, order, faults, historyVars>>

-----------------------------------------------------------------------------
(* _finalize_paid_order: what it reads here it uses until the end.         *)

LoadOrder(k) ==
  /\ pc[k] = "load"
  /\ LET o == call[k].ord IN
     IF ~Placed(o) THEN Answer(k, "failed")
     ELSE IF Paid(o) THEN Goto(k, "end") /\ UNCHANGED call
     ELSE /\ Goto(k, "pay")
          /\ Local(k, [call[k] EXCEPT !.lines = order[o].lines])
  /\ UNCHANGED <<shopVars, variant, order, jobs, faults, historyVars>>

(* payment.create: Payment.order_id is unique, the loser of a race returns *)
(* without an effect.                                                      *)
(* Mutant: the loser of the race goes on as if it had recorded the payment. *)
CreatePaymentGoingOn(k) ==
  /\ pc[k] = "pay"
  /\ LET o == call[k].ord IN
     IF ~Placed(o) THEN Answer(k, "failed") /\ UNCHANGED <<order, payer>>
     ELSE /\ IF Paid(o) THEN UNCHANGED order
             ELSE SetOrder(o, [order[o] EXCEPT !.method = call[k].method])
          /\ payer' = [payer EXCEPT ![o] = k]
          /\ Goto(k, "mark") /\ UNCHANGED call
  /\ UNCHANGED <<shopVars, variant, jobs, faults, deducted>>

CreatePayment(k) ==
  /\ pc[k] = "pay"
  /\ LET o == call[k].ord IN
     IF ~Placed(o) THEN Answer(k, "failed") /\ UNCHANGED <<order, payer>>
     ELSE IF Paid(o) THEN Goto(k, "end") /\ UNCHANGED <<call, order, payer>>
     ELSE /\ SetOrder(o, [order[o] EXCEPT
               !.method = call[k].method,
               !.charge = IF call[k].method = "PAYSTACK" THEN call[k].cart
                                                         ELSE None])
          /\ payer' = [payer EXCEPT ![o] = k]
          /\ Goto(k, "mark") /\ UNCHANGED call
  /\ UNCHANGED <<shopVars, variant, jobs, faults, deducted>>

(* Mutant: the administrator's payment is recorded without its effects.    *)
MarkPaidByAdminOnly(k) ==
  /\ pc[k] = "mark"
  /\ LET o == call[k].ord IN
     SetOrder(o, [order[o] EXCEPT !.status = "SUCCESS"])
  /\ Goto(k, IF call[k].method = "BANK_TRANSFER" THEN "end" ELSE "deduct")
  /\ UNCHANGED <<shopVars, variant, jobs, call, faults, historyVars>>

MarkPaid(k) ==
  /\ pc[k] = "mark"
  /\ LET o == call[k].ord IN
     SetOrder(o, [order[o] EXCEPT !.status = "SUCCESS"])
  /\ Goto(k, "deduct")
  /\ UNCHANGED <<shopVars, variant, jobs, call, faults, historyVars>>

(* decrement_variant_inventory_for_order reads the row of one item ...     *)
ReadVariant(k, v) ==
  /\ pc[k] = "deduct"
  /\ call[k].lines[v] > 0
  /\ Local(k, [call[k] EXCEPT !.item = v, !.seen = variant[v]])
  /\ Goto(k, "deducting")
  /\ UNCHANGED <<shopVars, variant, order, jobs, faults, historyVars>>

(* ... and writes the difference back; what happened to the row in between *)
(* is lost.                                                                *)
(* Mutant: the inventory is not kept from falling below zero.              *)
WriteVariantUnclamped(k) ==
  /\ pc[k] = "deducting"
  /\ LET v == call[k].item IN
     /\ SetVariant(v, [variant[v] EXCEPT
           !.inventory = call[k].seen.inventory - call[k].lines[v]])
     /\ deducted' = [deducted EXCEPT ![call[k].ord][v] = @ + 1]
     /\ Local(k, [call[k] EXCEPT !.lines[v] = 0, !.item = None,
                                 !.seen = NoRow])
  /\ Goto(k, "deduct")
  /\ UNCHANGED <<shopVars, order, jobs, faults, payer>>

WriteVariant(k) ==
  /\ pc[k] = "deducting"
  /\ LET v == call[k].item
         row == call[k].seen
         left == IF row.inventory > call[k].lines[v]
                   THEN row.inventory - call[k].lines[v] ELSE 0 IN
     /\ SetVariant(v, [variant[v] EXCEPT
           !.inventory = left,
           !.status = IF left = 0 /\ row.status # "OUT_OF_STOCK"
                        THEN "OUT_OF_STOCK" ELSE @])
     /\ deducted' = [deducted EXCEPT ![call[k].ord][v] = @ + 1]
     /\ Local(k, [call[k] EXCEPT !.lines[v] = 0, !.item = None,
                                 !.seen = NoRow])
  /\ Goto(k, "deduct")
  /\ UNCHANGED <<shopVars, order, jobs, faults, payer>>

(* The statements of one item fail: logged, and the loop goes on.          *)
SkipItem(k, v) ==
  /\ pc[k] \in {"deduct", "deducting"}
  /\ pc[k] = "deducting" => v = call[k].item
  /\ call[k].lines[v] > 0
  /\ faults < MaxFaults
  /\ faults' = faults + 1
  /\ Local(k, [call[k] EXCEPT !.lines[v] = 0, !.item = None, !.seen = NoRow])
  /\ Goto(k, "deduct")
  /\ UNCHANGED <<shopVars, variant, order, jobs, historyVars>>

(* Mutant: the invoice job is forgotten when the wallet has paid.          *)
QueueReferralOnly(k) ==
  /\ pc[k] = "deduct"
  /\ call[k].lines = NoLines
  /\ Enqueue(call[k].ord, "process_referral")
  /\ Goto(k, IF call[k].method = "WALLET" THEN "end" ELSE "invoice")
  /\ UNCHANGED <<shopVars, variant, order, call, faults, historyVars>>

QueueReferral(k) ==
  /\ pc[k] = "deduct"
  /\ call[k].lines = NoLines
  /\ Enqueue(call[k].ord, "process_referral")
  /\ Goto(k, "invoice")
  /\ UNCHANGED <<shopVars, variant, order, call, faults, historyVars>>

QueueInvoice(k) ==
  /\ pc[k] = "invoice"
  /\ Enqueue(call[k].ord, "generate_and_send_invoice")
  /\ Goto(k, "end")
  /\ UNCHANGED <<shopVars, variant, order, call, faults, historyVars>>

(* _finalize_paid_order returns.  A charge whose order the wallet had paid *)
(* in full goes on to finalise it for the charge.                          *)
EndFinalize(k) ==
  /\ pc[k] = "end"
  /\ IF call[k].kind = "charge" /\ call[k].method = "WALLET"
       THEN /\ Local(k, [call[k] EXCEPT !.method = "PAYSTACK"])
            /\ Goto(k, "load")
       ELSE Answer(k, "ok")
  /\ UNCHANGED <<shopVars, variant, order, jobs, faults, historyVars>>

-----------------------------------------------------------------------------
(* payment_status: SUCCESS finalises the order, any other status is only   *)
(* written.                                                                *)

InStock(o) == \A v \in LinesOf(o) : variant[v].inventory >= order[o].lines[v]

(* Mutant: SUCCESS is only written, like any other status.                 *)
CheckStockOnly(k) ==
  /\ pc[k] = "check"
  /\ LET o == call[k].ord IN
     IF ~Placed(o) \/ ~InStock(o) THEN Answer(k, "failed")
     ELSE Goto(k, "set") /\ UNCHANGED call
  /\ UNCHANGED <<shopVars, variant, order, jobs, faults, historyVars>>

CheckStock(k) ==
  /\ pc[k] = "check"
  /\ LET o == call[k].ord IN
     IF ~Placed(o) \/ ~InStock(o) THEN Answer(k, "failed")
     ELSE IF call[k].status = "SUCCESS"
       THEN /\ Local(k, [call[k] EXCEPT !.method = "BANK_TRANSFER"])
            /\ Goto(k, "load")
     ELSE Goto(k, "set") /\ UNCHANGED call
  /\ UNCHANGED <<shopVars, variant, order, jobs, faults, historyVars>>

SetStatus(k) ==
  /\ pc[k] = "set"
  /\ LET o == call[k].ord IN
     IF Placed(o) THEN SetOrder(o, [order[o] EXCEPT !.status = call[k].status])
                  ELSE UNCHANGED order
  /\ Answer(k, "ok")
  /\ UNCHANGED <<shopVars, variant, jobs, faults, historyVars>>

-----------------------------------------------------------------------------
(* return_order_item reads the item and the order's payment status ...     *)

ReadItem(k) ==
  /\ pc[k] = "item"
  /\ LET o == call[k].ord IN
     IF Placed(o) /\ call[k].item \in LinesOf(o)
       THEN /\ Local(k, [call[k] EXCEPT !.lines = order[o].lines,
                                        !.status = order[o].status])
            /\ Goto(k, "restock")
       ELSE Answer(k, "failed")
  /\ UNCHANGED <<shopVars, variant, order, jobs, faults, historyVars>>

(* ... then, in a transaction at read committed, the variant ...           *)
ReadRestock(k) ==
  /\ pc[k] = "restock"
  /\ Local(k, [call[k] EXCEPT !.seen = variant[call[k].item]])
  /\ Goto(k, "commit")
  /\ UNCHANGED <<shopVars, variant, order, jobs, faults, historyVars>>

(* ... and writes variant, item and order.  A deleted order rolls back.    *)
CommitReturn(k) ==
  /\ pc[k] = "commit"
  /\ LET o == call[k].ord
         v == call[k].item
         total == call[k].seen.inventory + call[k].lines[v] IN
     IF ~Placed(o)
       THEN Answer(k, "failed") /\ UNCHANGED <<variant, order>>
       ELSE /\ IF call[k].status = "SUCCESS"
                 THEN SetVariant(v, [inventory |-> total,
                                     status |-> "IN_STOCK"])
                 ELSE UNCHANGED variant
            /\ SetOrder(o, [order[o] EXCEPT !.lines[v] = 0])
            /\ Answer(k, "ok")
  /\ UNCHANGED <<shopVars, jobs, faults, historyVars>>

-----------------------------------------------------------------------------
(* Mutant: the foreign key of Payment deletes the payment with its order.  *)
DeleteOrderCascading(o) ==
  /\ Placed(o)
  /\ SetOrder(o, [order[o] EXCEPT !.stage = "deleted", !.cart = None])
  /\ UNCHANGED <<shopVars, variant, jobs, pc, call, faults, historyVars>>

(* delete_order: the foreign key of Payment keeps a paid order.            *)
DeleteOrder(o) ==
  /\ Placed(o) /\ ~Paid(o)
  /\ SetOrder(o, [order[o] EXCEPT !.stage = "deleted", !.cart = None])
  /\ UNCHANGED <<shopVars, variant, jobs, pc, call, faults, historyVars>>

(* The order_created job: one transaction converts the cart.  arq may run  *)
(* the job again, so it stays enabled.                                     *)
ProcessCreated(o) ==
  /\ jobs[o]["order_created"] > 0
  /\ Placed(o) /\ order[o].cart # None
  /\ cartStatus' = [cartStatus EXCEPT ![order[o].cart] = "CONVERTED"]
  /\ UNCHANGED <<uses, variant, order, jobs, pc, call, faults, historyVars>>

(* The request of the job fails: arq retries only a job whose worker was   *)
(* stopped, an exception ends it.                                          *)
LoseJob(o) ==
  /\ jobs[o]["order_created"] > 0
  /\ faults < MaxFaults
  /\ faults' = faults + 1
  /\ jobs' = [jobs EXCEPT ![o]["order_created"] = @ - 1]
  /\ UNCHANGED <<shopVars, variant, order, pc, call, historyVars>>

(* A statement raises, or the process serving the call is lost: what was   *)
(* committed stays, nothing undoes or resumes it.                          *)
Abort(k) ==
  /\ pc[k] \notin Finished \union {"idle"}
  /\ faults < MaxFaults
  /\ faults' = faults + 1
  /\ Answer(k, "failed")
  /\ UNCHANGED <<shopVars, variant, order, jobs, historyVars>>

Step(k) ==
  \/ FindOrder(k) \/ PickCart(k) \/ CountCoupon(k) \/ CreateOrder(k)
  \/ QueueCreated(k) \/ LoadOrder(k) \/ CreatePayment(k) \/ MarkPaid(k)
  \/ \E v \in Variants : ReadVariant(k, v)
  \/ WriteVariant(k) \/ QueueReferral(k) \/ QueueInvoice(k)
  \/ EndFinalize(k) \/ CheckStock(k) \/ SetStatus(k)
  \/ ReadItem(k) \/ ReadRestock(k) \/ CommitReturn(k)

Request(k) ==
  \/ \E c \in Carts : Charge(k, c)
  \/ \E u \in Users, c \in Carts : Place(k, u, c)
  \/ \E o \in OrderIds, s \in PaymentStatuses : Confirm(k, o, s)
  \/ \E o \in OrderIds, v \in Variants : Return(k, o, v)

(* Every request the bound allows has been answered.                       *)
AllAnswered == (\A k \in Calls : pc[k] \in Finished) /\ UNCHANGED vars

Next ==
  \/ \E k \in Calls : Request(k) \/ Step(k) \/ Abort(k)
  \/ \E k \in Calls, v \in Variants : SkipItem(k, v)
  \/ \E o \in OrderIds : DeleteOrder(o) \/ ProcessCreated(o) \/ LoseJob(o)
  \/ AllAnswered

Spec == Init /\ [][Next]_vars

(* The event loop resumes every call, and the worker polls the queue.      *)
Fairness == /\ \A k \in Calls : WF_vars(Step(k))
            /\ \A o \in OrderIds : WF_vars(ProcessCreated(o))

FairSpec == Spec /\ Fairness

-----------------------------------------------------------------------------
(* Every variable has its type.                                            *)
TypeOK ==
  /\ cartStatus \in [Carts -> {"ACTIVE", "CONVERTED"}]
  /\ variant \in [Variants -> VariantRow]
  /\ uses \in Nat
  /\ order \in [OrderIds -> OrderRow]
  /\ jobs \in [OrderIds -> [JobNames -> Nat]]
  /\ pc \in [Calls -> PCs]
  /\ call \in [Calls -> CallRow]
  /\ faults \in Nat
  /\ payer \in [OrderIds -> Calls \union {None}]
  /\ deducted \in [OrderIds -> [Variants -> Nat]]

(* The webhook, the client's verify request, the wallet and the            *)
(* administrator may all finalise one order at once (order.py:498-545):    *)
(* its lines leave the inventory at most once, and only when it is paid.   *)
DeductedOnce ==
  \A o \in OrderIds, v \in Variants :
    /\ deducted[o][v] <= 1
    /\ deducted[o][v] > 0 => Paid(o)

(* payment_status SUCCESS is never seen on an order without a Payment row, *)
(* whatever the administrator sets while a call finalises it               *)
(* (payments.py:125-160, order.py:512-534).                                *)
SuccessHasPayment ==
  \A o \in OrderIds : Placed(o) /\ order[o].status = "SUCCESS" => Paid(o)

(* A 2xx answer stops the payment provider from delivering the charge      *)
(* again, so a charge answered that way is recorded on some order          *)
(* (order.py:467-496, payments.py:105-122).                                *)
AnsweredChargeIsRecorded ==
  \A k \in Calls :
    pc[k] = "ok" /\ call[k].kind = "charge"
      => call[k].ord # None /\ Paid(call[k].ord)

(* Coupon.current_uses never falls below the number of orders that took    *)
(* the coupon's discount: the count is committed before the order          *)
(* (order.py:156-186, coupon.py:157-177).                                  *)
EveryDiscountIsCounted ==
  Cardinality({o \in OrderIds : order[o].coupon}) <= uses

(* Work left undone is the work of a fault: once the call that recorded    *)
(* the payment has answered and nothing failed, the order was taken from   *)
(* the inventory and both follow-up jobs were queued, exactly once         *)
(* (order.py:532-543).                                                     *)
PaidOrdersAreFulfilled ==
  \A o \in OrderIds :
    faults = 0 /\ payer[o] # None /\ pc[payer[o]] \in Finished
      => /\ \A v \in LinesOf(o) : deducted[o][v] = 1
         /\ \A f \in FollowUps : jobs[o][f] = 1

(* The order's life as the rest of the shop sees it.                       *)
Lifecycle == INSTANCE OrderLifecycle WITH
  stage <- [o \in OrderIds |-> IF Paid(o) THEN "paid"
                               ELSE IF Placed(o) THEN "open"
                               ELSE order[o].stage],
  taken <- [o \in OrderIds |-> {v \in Variants : deducted[o][v] = 1}],
  requested <- [o \in OrderIds |-> {f \in FollowUps : jobs[o][f] = 1}]

(* Checkout implements OrderLifecycle: placed once, paid at most once,     *)
(* never deleted or unpaid once paid, every effect of the payment at most  *)
(* once and only after it (order.py:498-545, routes/order.py:98-106).      *)
ImplementsLifecycle == Lifecycle!Spec

(* Without faults a recorded payment is always followed by both jobs and   *)
(* by the deduction of what the order still holds, whatever runs beside    *)
(* it (order.py:532-543).                                                  *)
PaymentIsFulfilled ==
  \A o \in OrderIds :
    Paid(o) ~> /\ \A v \in LinesOf(o) : deducted[o][v] = 1
               /\ \A f \in FollowUps : jobs[o][f] = 1

(* Without faults the cart an order was made from does not stay open for   *)
(* shopping: it is converted, unless the order is deleted or loses its     *)
(* cart (order.py:195, internal.py:52-76).                                 *)
CartIsConverted ==
  \A o \in OrderIds, c \in Carts :
    (Placed(o) /\ order[o].cart = c)
      ~> (~Placed(o) \/ order[o].cart # c \/ cartStatus[c] = "CONVERTED")

(* One charge pays for one order: a charge delivered again reuses the      *)
(* order of the first delivery (what order.py:470-471 says).               *)
OneOrderPerCharge ==
  \A o, p \in OrderIds :
    Paid(o) /\ Paid(p) /\ order[o].charge # None
            /\ order[o].charge = order[p].charge => o = p

(* A coupon's use is counted when an order is placed with it, and not      *)
(* otherwise (what coupon.py:159 says), once no call is under way.         *)
OnlyOrdersAreCounted ==
  (\A k \in Calls : pc[k] \in Finished \union {"idle"})
    => uses = Cardinality({o \in OrderIds : order[o].coupon})
=============================================================================
