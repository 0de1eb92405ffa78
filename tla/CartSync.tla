------------------------------ MODULE CartSync ------------------------------
(***************************************************************************)
(* The cart as one browser tab shows it, against the cart of the server:   *)
(* the mutations of hooks/useCart.ts with their optimistic updates and     *)
(* rollbacks, the query ["cart"], the messages that invalidate it          *)
(* (providers/invalidate-provider.tsx), and the checkout page, whose       *)
(* buttons are enabled by what is shown (components/store/checkout,        *)
(* components/store/payment, the routes checkout, payment/verify and       *)
(* order/confirmed).                                                       *)
(*                                                                         *)
(* Requests, answers and messages are steps of their own and may overtake  *)
(* each other.  One product variant is sold; an item of the cart is a row, *)
(* 0 when it is not there.  Prices are 1, and so is the fee of a delivery  *)
(* and what the wallet holds.                                              *)
(*                                                                         *)
(* Three history variables, which no guard reads, record what the pages do *)
(* not repair: `rolledBack', the shown cart was last written by a          *)
(* rollback; `missed', the server's cart has changed and this tab was not  *)
(* told; `excused', why an order may lack an address.                      *)
(***************************************************************************)
EXTENDS Integers, Sequences, FiniteSets, Functions

CONSTANTS
  Rows,           \* bound: ids of cart items, 1..n
  Stock,          \* inventory of the variant
  InitCarts,      \* the carts a session may begin with
  MaxCarts,       \* bound: carts of the user, one after the other
  MaxSends,       \* bound: requests of the tab
  MaxFaults,      \* bound: lost requests, answers and connections
  None

ASSUME CartSyncAssumption ==
  /\ IsFiniteSet(Rows) /\ Rows = 1..Cardinality(Rows)
  /\ Stock \in Nat /\ MaxCarts \in Nat /\ MaxSends \in Nat /\ MaxFaults \in Nat
  /\ None \notin Nat

VARIABLES
  server, active, ordered,   \* the newest cart; is it ACTIVE, has it an order
  nextRow,        \* the next id of an item
  recalc,         \* calculate_totals tasks that have not run
  orders,         \* the orders placed, as [ship, addr, pay]
  shown,          \* the data of the query ["cart"], None before it is loaded
  fetch,          \* the request of the query
  mut,            \* the mutations, by the hook instance
  inbox,          \* cart numbers in messages that have not arrived
  wired,          \* has the server a connection to this tab?
  at,             \* the page
  sends, faults,
  rolledBack, missed, excused

backend == <<server, active, ordered, nextRow, recalc, orders>>
client == <<shown, fetch, mut, at>>
history == <<rolledBack, missed, excused>>
vars == <<backend, client, inbox, wired, sends, faults, history>>

Ships == {"PICKUP", "STANDARD"}
Pays == {"CASH_ON_DELIVERY", "BANK_TRANSFER", "PAYSTACK", "WALLET"}
Pages == {"shop", "delivery", "payment", "paystack", "verify", "confirmed"}
Cart == [num   : 1..MaxCarts,
         rows  : [Rows -> 0..(Stock + 2)],
         ship  : Ships \union {None},
         addr  : BOOLEAN,
         phone : BOOLEAN,
         pay   : Pays \union {None},
         used  : 0..1]
ASSUME CartsAssumption ==
  /\ \A c \in InitCarts : c \in Cart /\ \A r \in Rows : c.rows[r] <= Stock
  /\ None \notin Cart
Kinds == {"add", "quantity", "remove", "ship", "address", "form", "phone",
          "pay", "wallet", "order", "drop"}
Values(k) ==
  CASE k \in {"add", "quantity"} -> 1..(Stock + 2)
    [] k = "wallet" -> 0..1
    [] k = "ship" -> Ships
    [] k = "pay" -> Pays
    [] OTHER -> {}
Mutation(k) == [pc   : {"idle", "sent", "orphan", "done", "failed"},
                row  : Rows \union {None},
                val  : Values(k) \union {None},
                prev : Cart \union {None}]
Query == [pc : {"none", "asked", "answered"}, data : Cart \union {None}]

NoFetch == [pc |-> "none", data |-> None]
Asked == [pc |-> "asked", data |-> None]
NoMutation == [pc |-> "idle", row |-> None, val |-> None, prev |-> None]

NewCart(n, phone) ==
  [num |-> n, rows |-> [r \in Rows |-> 0], ship |-> None, addr |-> FALSE,
   phone |-> phone, pay |-> None, used |-> 0]

Items(c) == {r \in Rows : c.rows[r] > 0}
Subtotal(c) == FoldFunction(+, 0, c.rows)
Total(c) ==
  LET t == Subtotal(c) + (IF c.ship = "STANDARD" THEN 1 ELSE 0) - c.used IN
  IF t > 0 THEN t ELSE 0

(* calculate_totals: a cart that costs nothing is paid by the wallet. *)
Recalculated(c) == IF Total(c) = 0 THEN [c EXCEPT !.pay = "WALLET"] ELSE c

Init ==
  /\ server \in InitCarts
  /\ active = TRUE /\ ordered = FALSE
  /\ nextRow = Cardinality(Items(server)) + 1
  /\ recalc = 0
  /\ orders = <<>>
  /\ shown = None /\ fetch = NoFetch
  /\ mut = [k \in Kinds |-> NoMutation]
  /\ inbox = {} /\ wired = FALSE
  /\ at = "shop"
  /\ sends = 0 /\ faults = 0
  /\ rolledBack = FALSE /\ missed = FALSE /\ excused = FALSE

(* invalidate with the tag cart:<number>, to this tab if it is connected. *)
Tell ==
  /\ inbox' = IF wired THEN inbox \union {server.num} ELSE inbox
  /\ missed' = (missed \/ ~wired)

-----------------------------------------------------------------------------
(* The query of the cart.                                                  *)

(* useMyCart on a page load; invalidateQueries starts it again. *)
Load ==
  /\ shown = None /\ fetch.pc = "none" /\ mut["add"].pc = "idle"
  /\ at \notin {"paystack"}
  /\ fetch' = Asked
  /\ UNCHANGED <<backend, shown, mut, at, inbox, wired, sends, faults, history>>

(* GET /cart/ makes a cart when none is active. *)
ServeCart ==
  /\ fetch.pc = "asked"
  /\ active \/ server.num < MaxCarts
  /\ LET c == IF active THEN server
              ELSE NewCart(server.num + 1, server.phone) IN
     /\ fetch' = [pc |-> "answered", data |-> c]
     /\ server' = c
  /\ active' = TRUE
  /\ ordered' = (ordered /\ active)
  /\ nextRow' = IF active THEN nextRow ELSE 1
  /\ recalc' = IF active THEN recalc ELSE 0
  /\ UNCHANGED <<orders, shown, mut, at, inbox, wired, sends, faults, history>>

CartArrives ==
  /\ fetch.pc = "answered"
  /\ shown' = fetch.data
  /\ fetch' = NoFetch
  /\ rolledBack' = FALSE
  /\ missed' = (missed /\ fetch.data # server)
  /\ UNCHANGED <<backend, mut, at, inbox, wired, sends, faults, excused>>

(* Mutant: a refetch under way is not started again. *)
MessageIdle(n) ==
  /\ n \in inbox
  /\ inbox' = inbox \ {n}
  /\ fetch' = IF shown # None /\ shown.num = n /\ fetch.pc = "none"
            THEN Asked ELSE fetch
  /\ missed' = (missed \/ shown = None \/ shown.num # n)
  /\ UNCHANGED <<backend, shown, mut, at, wired, sends, faults, rolledBack,
                 excused>>

(* InvalidateProviderInner: only a message about the cart shown counts. *)
Message(n) ==
  /\ n \in inbox
  /\ inbox' = inbox \ {n}
  /\ fetch' = IF shown # None /\ shown.num = n THEN Asked ELSE fetch
  /\ missed' = (missed \/ shown = None \/ shown.num # n)
  /\ UNCHANGED <<backend, shown, mut, at, wired, sends, faults, rolledBack,
                 excused>>

(* A new connection; the pages refetch orders, products and the gallery,   *)
(* not the cart.                                                           *)
Connect ==
  /\ ~wired
  /\ wired' = TRUE
  /\ UNCHANGED <<backend, client, inbox, sends, faults, history>>

(* The connection is lost with what is on its way, or another tab of the   *)
(* user has taken its place in the server's table.                         *)
Disconnect ==
  /\ wired /\ faults < MaxFaults
  /\ faults' = faults + 1
  /\ wired' = FALSE
  /\ missed' = (missed \/ inbox # {})
  /\ inbox' = {}
  /\ UNCHANGED <<backend, client, sends, rolledBack, excused>>

-----------------------------------------------------------------------------
(* The mutations, as the pages offer them.                                 *)

Send(k, row, val, prev) ==
  /\ mut[k].pc = "idle" /\ sends < MaxSends
  /\ sends' = sends + 1
  /\ mut' = [mut EXCEPT ![k] = [pc |-> "sent", row |-> row, val |-> val,
                                prev |-> prev]]
  /\ UNCHANGED <<backend, at, inbox, wired, faults, missed, excused>>

(* onMutate of the two hooks that have one: a refetch under way is given   *)
(* up, the first load too, and a row that is shown is changed at once.     *)
Optimistic(r, q) ==
  /\ shown' = IF r \in Rows THEN [shown EXCEPT !.rows[r] = q] ELSE shown
  /\ fetch' = NoFetch
  /\ UNCHANGED rolledBack

(* handleAddToCart on a product without a row in the cart. *)
AddToCart ==
  /\ at = "shop"
  /\ shown # None => Items(shown) = {}
  /\ shown = None => fetch.pc # "none"
  /\ Send("add", None, 1, shown)
  /\ Optimistic(None, 1)

(* CartItemComponent, and handleAddToCart, which adds a quantity of its    *)
(* own to a row below the inventory.                                       *)
ChangeQuantity(r, q) ==
  /\ shown # None /\ r \in Items(shown)
  /\ \/ q = shown.rows[r] - 1 /\ q >= 1
     \/ q \in {shown.rows[r] + 1, shown.rows[r] + 2} /\ shown.rows[r] < Stock
  /\ Send("quantity", r, q, shown)
  /\ Optimistic(r, q)

(* The other hooks have no onMutate. *)
Plain(k, row, val) ==
  /\ shown # None
  /\ Send(k, row, val, None)
  /\ UNCHANGED <<shown, fetch, rolledBack>>

On(page) == at = page /\ shown # None
RemoveItem(r) == shown # None /\ r \in Items(shown) /\ Plain("remove", r, None)

(* DeliveryStep and AddressStep *)
ChooseShipping(s) == On("delivery") /\ Plain("ship", None, s)
ChooseAddress ==
  On("delivery") /\ shown.ship = "STANDARD" /\ Plain("address", None, None)
EnterAddress ==
  On("delivery") /\ shown.ship = "STANDARD" /\ Plain("form", None, None)
DeleteAddress ==
  On("delivery") /\ shown.ship = "STANDARD" /\ Plain("drop", None, None)

(* PaymentStep: its contact form, wallet switch and methods of payment. *)
GiveContact ==
  On("payment") /\ Items(shown) # {} /\ Plain("phone", None, None)
SwitchWallet ==
  /\ On("payment") /\ Items(shown) # {}
  /\ Plain("wallet", None, 1 - shown.used)
ChoosePayment(p) ==
  /\ On("payment") /\ shown.phone /\ Items(shown) # {} /\ Total(shown) > 0
  /\ p \in {"BANK_TRANSFER", "PAYSTACK"}
           \union (IF shown.ship = "PICKUP" THEN {"CASH_ON_DELIVERY"} ELSE {})
  /\ Plain("pay", None, p)

(* canContinue, then the button of the method that is shown; ZeroPayment   *)
(* asks for the phone only.                                                *)
CanContinue == shown.phone /\ shown.pay # None /\ Items(shown) # {}
PlaceBy(pay) ==
  /\ On("payment") /\ CanContinue /\ shown.pay = pay
  /\ Plain("order", None, None)
PlaceByTransfer == PlaceBy("BANK_TRANSFER")
PlaceForPickup == PlaceBy("CASH_ON_DELIVERY")
PlaceForNothing ==
  /\ On("payment") /\ shown.phone /\ Items(shown) # {} /\ Total(shown) < 1
  /\ Plain("order", None, None)

-----------------------------------------------------------------------------
(* The server's side of a mutation.                                        *)

Outcome(k, pc) ==
  mut' = [mut EXCEPT ![k] = IF @.pc = "orphan" THEN NoMutation
                            ELSE [@ EXCEPT !.pc = pc]]

(* get_active_cart, else a new cart for the routes that make one. *)
Open(n) == active \/ server.num + n <= MaxCarts
Current == IF active THEN server ELSE NewCart(server.num + 1, server.phone)
Renewed ==
  /\ active' = TRUE
  /\ ordered' = (ordered /\ active)

(* Mutant: the quantity is added to the row's. *)
ServeItemAdding(k) ==
  LET m == mut[k]
      row == IF k = "add" THEN (IF active THEN nextRow ELSE 1) ELSE m.row
      found == active /\ server.rows[row] > 0
      ok == \/ k = "add" /\ row \in Rows /\ m.val <= Stock
            \/ k = "quantity" /\ found /\ m.val <= Stock
            \/ k = "remove" /\ found IN
  /\ k \in {"add", "quantity", "remove"} /\ m.pc \in {"sent", "orphan"}
  /\ k = "add" => Open(1)
  /\ Outcome(k, IF ok THEN "done" ELSE "failed")
  /\ IF ok THEN /\ server' = [Current EXCEPT !.rows[row] =
                                IF k = "remove" THEN 0 ELSE @ + m.val]
                /\ nextRow' = IF k = "add" THEN row + 1 ELSE nextRow
                /\ recalc' = (IF active THEN recalc ELSE 0) + 1
                /\ Renewed
     ELSE UNCHANGED <<server, active, ordered, nextRow, recalc>>
  /\ UNCHANGED <<orders, shown, fetch, at, inbox, wired, sends, faults,
                 history>>

(* POST, PUT and DELETE /cart/items; the totals follow in the background,  *)
(* and only they tell the tab.                                             *)
ServeItem(k) ==
  LET m == mut[k]
      row == IF k = "add" THEN (IF active THEN nextRow ELSE 1) ELSE m.row
      found == active /\ server.rows[row] > 0
      ok == \/ k = "add" /\ row \in Rows /\ m.val <= Stock
            \/ k = "quantity" /\ found /\ m.val <= Stock
            \/ k = "remove" /\ found IN
  /\ k \in {"add", "quantity", "remove"} /\ m.pc \in {"sent", "orphan"}
  /\ k = "add" => Open(1)
  /\ Outcome(k, IF ok THEN "done" ELSE "failed")
  /\ IF ok THEN /\ server' = [Current EXCEPT !.rows[row] =
                                IF k = "remove" THEN 0 ELSE m.val]
                /\ nextRow' = IF k = "add" THEN row + 1 ELSE nextRow
                /\ recalc' = (IF active THEN recalc ELSE 0) + 1
                /\ Renewed
     ELSE UNCHANGED <<server, active, ordered, nextRow, recalc>>
  /\ UNCHANGED <<orders, shown, fetch, at, inbox, wired, sends, faults,
                 history>>

(* Mutant: the totals change and nobody is told. *)
RecalculateSilently ==
  /\ recalc > 0
  /\ recalc' = recalc - 1
  /\ server' = Recalculated(server)
  /\ UNCHANGED <<active, ordered, nextRow, orders, client, inbox, wired,
                 sends, faults, missed, rolledBack, excused>>

(* calculate_totals with its message. *)
Recalculate ==
  /\ recalc > 0
  /\ recalc' = recalc - 1
  /\ server' = Recalculated(server)
  /\ Tell
  /\ UNCHANGED <<active, ordered, nextRow, orders, client, wired, sends,
                 faults, rolledBack, excused>>

(* It raises: logged, and nobody is told. *)
RecalculationFails ==
  /\ recalc > 0 /\ faults < MaxFaults
  /\ faults' = faults + 1
  /\ recalc' = recalc - 1
  /\ missed' = TRUE
  /\ UNCHANGED <<server, active, ordered, nextRow, orders, client, inbox,
                 wired, sends, rolledBack, excused>>

(* PUT /cart/ and the wallet routes, which recalculate before they answer. *)
ServeDetails(k) ==
  LET m == mut[k] IN
  /\ k \in {"ship", "address", "form", "phone", "pay", "wallet"}
  /\ m.pc \in {"sent", "orphan"}
  /\ Open(1) /\ (k = "wallet" => active)
  /\ Outcome(k, "done")
  /\ server' = Recalculated(
       CASE k = "ship" -> [Current EXCEPT !.ship = m.val]
         [] k \in {"address", "form"} -> [Current EXCEPT !.addr = TRUE]
         [] k = "phone" -> [Current EXCEPT !.phone = TRUE]
         [] k = "pay" -> [Current EXCEPT !.pay = m.val]
         [] k = "wallet" -> [Current EXCEPT !.used = m.val])
  /\ Renewed
  /\ nextRow' = IF active THEN nextRow ELSE 1
  /\ recalc' = IF active THEN recalc ELSE 0
  /\ Tell
  /\ UNCHANGED <<orders, shown, fetch, at, wired, sends, faults, rolledBack,
                 excused>>

(* DELETE /address/{id} takes the address from the cart and tells nobody;  *)
(* the tab refetches when it gets the answer.                              *)
ServeDrop ==
  /\ mut["drop"].pc \in {"sent", "orphan"}
  /\ Outcome("drop", "done")
  /\ server' = [server EXCEPT !.addr = FALSE]
  /\ excused' = TRUE
  /\ missed' = (missed \/ mut["drop"].pc = "orphan")
  /\ UNCHANGED <<active, ordered, nextRow, recalc, orders, shown, fetch, at,
                 inbox, wired, sends, faults, rolledBack>>

(* create_order_from_cart, seen from here; the cart stays ACTIVE until the *)
(* worker has run order_created, and Order.cart_id is unique.              *)
Order == [ship |-> server.ship, addr |-> server.addr, pay |-> server.pay]
ServeOrder ==
  LET ok == active /\ ~ordered /\ Items(server) # {} IN
  /\ mut["order"].pc \in {"sent", "orphan"}
  /\ Outcome("order", IF ok THEN "done" ELSE "failed")
  /\ IF ok THEN orders' = Append(orders, Order) /\ ordered' = TRUE /\ Tell
     ELSE UNCHANGED <<orders, ordered, inbox, missed>>
  /\ UNCHANGED <<server, active, nextRow, recalc, shown, fetch, at, wired,
                 sends, faults, rolledBack, excused>>

(* internal_order_creation, which says nothing about the cart. *)
Convert ==
  /\ active /\ ordered
  /\ active' = FALSE
  /\ missed' = TRUE
  /\ excused' = TRUE
  /\ UNCHANGED <<server, ordered, nextRow, recalc, orders, client, inbox,
                 wired, sends, faults, rolledBack>>

(* Another tab or device of the same user. *)
Elsewhere(s) ==
  /\ active /\ sends < MaxSends
  /\ sends' = sends + 1
  /\ server' = Recalculated([server EXCEPT !.ship = s])
  /\ Tell
  /\ excused' = TRUE
  /\ UNCHANGED <<active, ordered, nextRow, recalc, orders, client, wired,
                 faults, rolledBack>>

-----------------------------------------------------------------------------
(* The answers.                                                            *)

(* A page load: the state of the tab is gone, its requests are not.        *)
Reload(page) ==
  /\ at' = page
  /\ shown' = None /\ fetch' = NoFetch
  /\ mut' = [k \in Kinds |-> IF mut[k].pc = "sent"
                             THEN [mut[k] EXCEPT !.pc = "orphan", !.prev = None]
                             ELSE IF mut[k].pc = "orphan" THEN mut[k]
                             ELSE NoMutation]
  /\ wired' = FALSE /\ inbox' = {}
  /\ rolledBack' = FALSE
  /\ missed' = (missed \/ inbox # {} \/ mut["drop"].pc = "done")

(* onSuccess: only two hooks refetch the cart themselves. *)
Succeeds(k) ==
  /\ mut[k].pc = "done" /\ k # "order"
  /\ mut' = [mut EXCEPT ![k] = NoMutation]
  /\ fetch' = IF k = "drop" /\ shown # None THEN Asked ELSE fetch
  /\ UNCHANGED <<backend, shown, at, inbox, wired, sends, faults, history>>

Ordered ==
  /\ mut["order"].pc = "done"
  /\ Reload("confirmed")
  /\ UNCHANGED <<backend, sends, faults, excused>>

(* onError puts back what was shown when the mutation began. *)
Fails(k) ==
  /\ mut[k].pc = "failed"
  /\ mut' = [mut EXCEPT ![k] = NoMutation]
  /\ shown' = IF mut[k].prev # None THEN mut[k].prev ELSE shown
  /\ rolledBack' = (rolledBack \/ mut[k].prev # None)
  /\ at' = IF k = "order" THEN "shop" ELSE at
  /\ UNCHANGED <<backend, fetch, inbox, wired, sends, faults, missed, excused>>

(* The request or its answer is lost: the tab takes either for a failure.  *)
Lose(k) ==
  /\ mut[k].pc \in {"sent", "done"} /\ faults < MaxFaults
  /\ faults' = faults + 1
  /\ mut' = [mut EXCEPT ![k].pc = "failed"]
  /\ missed' = (missed \/ (k = "drop" /\ mut[k].pc = "done"))
  /\ UNCHANGED <<backend, shown, fetch, at, inbox, wired, sends, rolledBack,
                 excused>>

-----------------------------------------------------------------------------
(* The pages.                                                              *)

Checkout ==
  /\ at \in {"shop", "confirmed"} /\ shown # None
  /\ at' = "delivery"
  /\ UNCHANGED <<backend, shown, fetch, mut, inbox, wired, sends, faults,
                 history>>

(* Mutant: the address is asked for in the payment step. *)
ContinueAnyMethod ==
  /\ at = "delivery" /\ shown # None /\ mut["ship"].pc = "idle"
  /\ shown.ship # None
  /\ at' = "payment"
  /\ excused' = (excused \/ shown # server)
  /\ UNCHANGED <<backend, shown, fetch, mut, inbox, wired, sends, faults,
                 rolledBack, missed>>

(* DeliveryStep's canContinue. *)
IsAddressed(c) == c.ship = "PICKUP" \/ (c.ship # None /\ c.addr)

(* Continue to payment, with the cart as shown; the button waits for the   *)
(* choice of the delivery only.                                            *)
Continue ==
  /\ at = "delivery" /\ shown # None /\ mut["ship"].pc = "idle"
  /\ IsAddressed(shown)
  /\ at' = "payment"
  /\ excused' = (excused \/ shown # server)
  /\ UNCHANGED <<backend, shown, fetch, mut, inbox, wired, sends, faults,
                 rolledBack, missed>>

(* A click on the indicator: the first step is complete when a method is   *)
(* chosen; an active cart never completes the second.  Nothing holds the   *)
(* user back while an order is on its way.                                 *)
Back ==
  /\ On("payment") /\ shown.ship # None
  /\ at' = "delivery"
  /\ excused' = (excused \/ mut["order"].pc # "idle")
  /\ UNCHANGED <<backend, shown, fetch, mut, inbox, wired, sends, faults,
                 rolledBack, missed>>

(* PaystackPayment leaves the shop for the address it is given. *)
PayOnline ==
  /\ at = "payment" /\ shown # None
  /\ CanContinue /\ shown.pay = "PAYSTACK"
  /\ Reload("paystack")
  /\ UNCHANGED <<backend, sends, faults, excused>>

Return ==
  /\ at = "paystack"
  /\ at' = "verify"
  /\ UNCHANGED <<backend, shown, fetch, mut, inbox, wired, sends, faults,
                 history>>

(* verify: paid, and the order is made from the active cart, unless the    *)
(* webhook was first; or declined.  A payment still pending leaves the     *)
(* page as it is.                                                          *)
Verified ==
  /\ at = "verify"
  /\ active /\ Items(server) # {}
  /\ at' = "confirmed"
  /\ orders' = IF ordered THEN orders ELSE Append(orders, Order)
  /\ ordered' = TRUE
  /\ fetch' = IF shown # None THEN Asked ELSE fetch
  /\ excused' = TRUE
  /\ Tell
  /\ UNCHANGED <<server, active, nextRow, recalc, shown, mut, wired, sends,
                 faults, rolledBack>>

Declined ==
  /\ at = "verify"
  /\ at' = "delivery"
  /\ excused' = (excused \/ mut["order"].pc # "idle")
  /\ UNCHANGED <<backend, shown, fetch, mut, inbox, wired, sends, faults,
                 rolledBack, missed>>

ServerStep ==
  \/ ServeCart \/ Recalculate \/ ServeDrop \/ ServeOrder
  \/ \E k \in Kinds : ServeItem(k) \/ ServeDetails(k)
AnswerStep == CartArrives \/ Ordered \/ \E k \in Kinds : Succeeds(k) \/ Fails(k)
MessageStep == Connect \/ \E n \in inbox : Message(n)

UserStep ==
  \/ AddToCart \/ ChooseAddress \/ EnterAddress \/ DeleteAddress
  \/ GiveContact \/ SwitchWallet \/ Checkout \/ Continue \/ Back
  \/ PlaceByTransfer \/ PlaceForPickup \/ PlaceForNothing \/ PayOnline
  \/ \E r \in Rows : RemoveItem(r) \/ \E q \in 1..(Stock + 2) : ChangeQuantity(r, q)
  \/ \E s \in Ships : ChooseShipping(s)
  \/ \E p \in Pays : ChoosePayment(p)

Next ==
  \/ ServerStep \/ AnswerStep \/ MessageStep \/ UserStep \/ Load
  \/ Return \/ Verified \/ Declined \/ Convert
  \/ RecalculationFails \/ Disconnect
  \/ \E s \in Ships : Elsewhere(s)
  \/ \E k \in Kinds : Lose(k)

(* The server, the network and the tab do what has been started; the user  *)
(* and the worker need not.                                                *)
Spec ==
  /\ Init /\ [][Next]_vars
  /\ WF_vars(ServerStep) /\ WF_vars(AnswerStep) /\ WF_vars(MessageStep)
  /\ WF_vars(Load)

-----------------------------------------------------------------------------
(* Types; a mutation's snapshot and the data of the query are carts. *)
TypeOK ==
  /\ server \in Cart /\ \A r \in Rows : server.rows[r] <= Stock
  /\ active \in BOOLEAN /\ ordered \in BOOLEAN
  /\ nextRow \in 1..(Cardinality(Rows) + 1)
  /\ recalc \in 0..MaxSends
  /\ \A i \in 1..Len(orders) :
       /\ orders[i].ship \in Ships \union {None}
       /\ orders[i].pay \in Pays \union {None}
  /\ shown \in Cart \union {None}
  /\ fetch \in Query
  /\ DOMAIN mut = Kinds /\ \A k \in Kinds : mut[k] \in Mutation(k)
  /\ inbox \subseteq 1..MaxCarts
  /\ wired \in BOOLEAN /\ at \in Pages
  /\ sends \in 0..MaxSends /\ faults \in 0..MaxFaults

Quiet ==
  /\ \A k \in Kinds : mut[k].pc = "idle"
  /\ fetch.pc = "none" /\ recalc = 0 /\ inbox = {}

(* When nothing is on its way, the cart on the screen is the cart of the   *)
(* server, although no hook of the items refetches after its answer: that  *)
(* every change is announced and every announcement refetches              *)
(* (useCart.ts:22-101, invalidate-provider.tsx:46-63, services/cart.py:112)*)
(* makes up for it, except after a rollback or when the tab was not told.  *)
SettledIsServer ==
  Quiet /\ shown # None /\ ~rolledBack /\ ~missed => shown = server

(* And it does settle: a change is shown sooner or later without the user  *)
(* doing anything.                                                         *)
CartCatchesUp ==
  []<>(shown = server \/ shown = None \/ rolledBack \/ missed)

(* The delivery step lets nobody pass without an address, and nothing      *)
(* behind it asks again: an order to be delivered has an address unless    *)
(* the step was passed on an outdated cart, or the cart was changed or paid *)
(* behind the page's back or while the order was on its way                *)
(* (delivery-step.tsx:40-46, payment-step.tsx:36).                         *)
OrderIsAddressed ==
  excused \/ \A i \in 1..Len(orders) :
    orders[i].ship = "PICKUP" \/ (orders[i].ship = "STANDARD" /\ orders[i].addr)
=============================================================================
